---------------------------- MODULE SimMainProofs ---------------------------
(***************************************************************************)
(* The simulation loop over the cache, for any tree, keys, policies, block *)
(* sizes, measured disk and number of operations.                          *)
(*                                                                         *)
(* In this order: the cache by itself, whose shards together keep to the   *)
(* capacity; the loop, the way of a present key to its owner, the end of   *)
(* the lookups and the counters of each file; the phase statistics kept    *)
(* per scheme and their agreement with those counters, the I/O count and   *)
(* what the cache can hold; and the cost that the disk's bandwidth makes   *)
(* of a miss.                                                              *)
(***************************************************************************)
EXTENDS SimMain, FiniteSetTheorems, WellFoundedInduction, TLAPS

(* A set of naturals that is not empty has a least element. *)
LEMMA LeastOf ==
  ASSUME NEW T \in SUBSET Nat, T # {}
  PROVE  \E m \in T : \A n \in T : m <= n
<1>1. PICK m \in T : \A n \in T : ~(<<n, m>> \in OpToRel(<, Nat))
  BY NatLessThanWellFounded, WFMin
<1>2. ASSUME NEW n \in T
      PROVE  m <= n
  <2>1. ~(n < m)
    BY <1>1 DEF OpToRel
  <2> QED
    BY <2>1
<1> QED
  BY <1>2

(* What a block adds to a set it is taken from. *)
LEMMA SizeWithoutOne ==
  ASSUME NEW S \in SUBSET Blocks, NEW b \in S
  PROVE  /\ TotalSize(S) = TotalSize(S \ {b}) + Size[b]
         /\ TotalSize(S \ {b}) \in Nat /\ Size[b] \in Nat /\ Size[b] > 0
         /\ TotalSize(S \ {b}) < TotalSize(S)
<1>1. /\ S \ {b} \in SUBSET Blocks /\ b \in Blocks \ (S \ {b})
      /\ (S \ {b}) \cup {b} = S
  OBVIOUS
<1>2. TotalSize((S \ {b}) \cup {b}) = TotalSize(S \ {b}) + Size[b]
  BY <1>1, TotalSizeAssumption
<1>3. /\ TotalSize(S \ {b}) \in Nat /\ Size[b] \in Nat /\ Size[b] > 0
  BY <1>1, TotalSizeAssumption, BlocksAssumption
<1> QED
  BY <1>1, <1>2, <1>3

(* The sizes of sets with no block in common add up. *)
LEMMA SizesAddUp ==
  ASSUME NEW A \in SUBSET Blocks, NEW B \in SUBSET Blocks, A \cap B = {}
  PROVE  TotalSize(A \cup B) = TotalSize(A) + TotalSize(B)
<1> DEFINE Wrong(C) == C \cap A = {} /\ TotalSize(A \cup C) # TotalSize(A) + TotalSize(C)
           T == {TotalSize(C) : C \in {D \in SUBSET Blocks : Wrong(D)}}
<1>1. SUFFICES ASSUME Wrong(B) PROVE FALSE
  OBVIOUS
<1>2. T \in SUBSET Nat /\ T # {}
  BY <1>1, TotalSizeAssumption
<1>3. PICK m \in T : \A n \in T : m <= n
  BY <1>2, LeastOf
<1>4. PICK C \in SUBSET Blocks : Wrong(C) /\ m = TotalSize(C)
  BY <1>3
<1>5. C # {}
  <2>1. TotalSize(A) \in Nat /\ TotalSize({}) = 0 /\ A \cup {} = A
    BY TotalSizeAssumption
  <2> QED
    BY <1>4, <2>1
<1>6. PICK b : b \in C
  BY <1>5
<1> DEFINE D == C \ {b}
<1>7. /\ TotalSize(C) = TotalSize(D) + Size[b] /\ TotalSize(D) \in Nat
      /\ Size[b] \in Nat /\ TotalSize(D) < TotalSize(C)
  BY <1>4, <1>6, SizeWithoutOne
<1>8. D \in SUBSET Blocks /\ D \cap A = {}
  BY <1>4
<1>9. ~Wrong(D)
  <2> SUFFICES ASSUME Wrong(D) PROVE FALSE
    OBVIOUS
  <2>1. TotalSize(D) \in T
    BY <1>8
  <2>2. m <= TotalSize(D)
    BY <1>3, <2>1
  <2> QED
    BY <1>4, <1>7, <2>2
<1>10. TotalSize(A \cup D) = TotalSize(A) + TotalSize(D)
  BY <1>8, <1>9
<1>11. TotalSize(A \cup C) = TotalSize(A \cup D) + Size[b]
  <2>1. /\ A \cup C \in SUBSET Blocks /\ b \in A \cup C
        /\ (A \cup C) \ {b} = A \cup D
    BY <1>4, <1>6
  <2> QED
    BY <2>1, SizeWithoutOne
<1>12. TotalSize(A) \in Nat
  BY TotalSizeAssumption
<1> QED
  BY <1>4, <1>7, <1>10, <1>11, <1>12

(* A part of a set is no larger. *)
LEMMA SizeOfPart ==
  ASSUME NEW S \in SUBSET Blocks, NEW P \in SUBSET S
  PROVE  TotalSize(P) <= TotalSize(S)
<1>1. P \in SUBSET Blocks /\ S \ P \in SUBSET Blocks
      /\ P \cap (S \ P) = {} /\ P \cup (S \ P) = S
  OBVIOUS
<1>2. TotalSize(S) = TotalSize(P) + TotalSize(S \ P)
  BY <1>1, SizesAddUp
<1>3. TotalSize(P) \in Nat /\ TotalSize(S \ P) \in Nat
  BY <1>1, TotalSizeAssumption
<1> QED
  BY <1>2, <1>3

(* The shares of the shards, rounded up, exceed the capacity by less than
   one byte each. *)
LEMMA SharesOfCapacity ==
  /\ per_shard \in Nat
  /\ num_shards * per_shard <= Capacity + num_shards - 1
<1>1. PICK n \in Nat, c \in Nat : n = num_shards /\ n > 0 /\ c = Capacity + n - 1
  <2>1. num_shards \in Nat /\ num_shards > 0 /\ Capacity + num_shards - 1 \in Nat
    BY ShardsAssumption, BlocksAssumption
  <2> QED
    BY <2>1
<1>2. c \div n \in Nat /\ n * (c \div n) <= c
  <2>1. \A a \in Nat, b \in Nat \ {0} : a \div b \in Nat /\ b * (a \div b) <= a
    OBVIOUS
  <2> QED
    BY <1>1, <2>1
<1> QED
  BY <1>1, <1>2 DEF per_shard

-----------------------------------------------------------------------------
(* Each shard stays within its share, which only its own insert can fill. *)
ShardsHold ==
  /\ cached \subseteq Blocks
  /\ incoming \in Blocks \cup {None}
  /\ \A h \in Shards : TotalSize(Residents(h)) <= per_shard

LEMMA ShardsHoldInit == CacheInit => ShardsHold
<1> SUFFICES ASSUME CacheInit PROVE ShardsHold
  OBVIOUS
<1>1. \A h \in Shards : Residents(h) = {}
  BY DEF CacheInit, Residents
<1> QED
  BY <1>1, SharesOfCapacity, TotalSizeAssumption DEF CacheInit, ShardsHold

LEMMA ShardsHoldStep ==
  ASSUME ShardsHold, [CacheNext]_cacheVars
  PROVE  ShardsHold'
<1>1. \A h \in Shards : Residents(h) \in SUBSET Blocks /\ TotalSize(Residents(h)) \in Nat
  BY TotalSizeAssumption DEF ShardsHold, Residents
<1>2. CASE Drop
  <2>1. cached' \subseteq cached /\ incoming' = incoming
    BY <1>2 DEF Drop, Without
  <2>2. ASSUME NEW h \in Shards
        PROVE  TotalSize(Residents(h)') <= per_shard
    <3>1. Residents(h)' \in SUBSET Residents(h)
      BY <2>1 DEF Residents
    <3>2. TotalSize(Residents(h)') <= TotalSize(Residents(h))
      BY <1>1, <3>1, SizeOfPart
    <3>3. Residents(h)' \in SUBSET Blocks
      BY <1>1, <3>1
    <3>4. TotalSize(Residents(h)') \in Nat
      BY <3>3, TotalSizeAssumption
    <3> QED
      BY <1>1, <3>2, <3>4, SharesOfCapacity DEF ShardsHold
  <2> QED
    BY <2>1, <2>2 DEF ShardsHold
<1>3. CASE Admit
  <2>1. /\ incoming \in Blocks /\ Fits(incoming) /\ incoming' = None
        /\ cached' = cached \cup {incoming}
    BY <1>3 DEF Admit, ShardsHold
  <2>2. ASSUME NEW h \in Shards
        PROVE  TotalSize(Residents(h)') <= per_shard
    <3>1. CASE ShardOf[incoming] # h \/ incoming \in cached
      <4>1. Residents(h)' = Residents(h)
        BY <2>1, <3>1 DEF Residents
      <4> QED
        BY <4>1 DEF ShardsHold
    <3>2. CASE ShardOf[incoming] = h /\ incoming \notin cached
      <4>1. Residents(h)' = Residents(h) \cup {incoming} /\ incoming \notin Residents(h)
        BY <2>1, <3>2 DEF Residents
      <4>2. TotalSize(Residents(h) \cup {incoming})
              = TotalSize(Residents(h)) + Size[incoming]
        BY <1>1, <2>1, <4>1, TotalSizeAssumption
      <4> QED
        BY <2>1, <3>2, <4>1, <4>2 DEF Fits
    <3> QED
      BY <3>1, <3>2
  <2> QED
    BY <2>1, <2>2 DEF ShardsHold
<1>4. CASE Reject \/ (\E b \in Blocks : Miss(b)) \/ UNCHANGED cacheVars
  BY <1>4 DEF Reject, Miss, cacheVars, ShardsHold, Residents
<1> QED
  BY <1>2, <1>3, <1>4 DEF CacheNext, InsertStep

(* The shards below n hold n shares at most. *)
LEMMA SharesAddUp ==
  ASSUME ShardsHold
  PROVE  TotalWithinCapacity
<1> DEFINE Below(n) == {b \in cached : ShardOf[b] < n}
           Over(n) == TotalSize(Below(n)) > n * per_shard
           T == {n \in Nat : n <= num_shards /\ Over(n)}
<1>1. /\ num_shards \in Nat /\ per_shard \in Nat
      /\ \A b \in cached : ShardOf[b] \in Nat /\ ShardOf[b] < num_shards
  BY ShardsAssumption, SharesOfCapacity DEF Shards, ShardsHold
<1>2. \A n \in Nat : Below(n) \in SUBSET Blocks /\ TotalSize(Below(n)) \in Nat
  BY TotalSizeAssumption DEF ShardsHold
<1>3. T = {}
  <2> SUFFICES ASSUME T # {} PROVE FALSE
    OBVIOUS
  <2>1. PICK n \in T : \A k \in T : n <= k
    BY LeastOf
  <2>2. n \in Nat /\ n <= num_shards /\ Over(n)
    BY <2>1
  <2>3. n # 0
    <3>1. Below(0) = {}
      BY <1>1
    <3>2. 0 * per_shard = 0
      BY <1>1
    <3>3. TotalSize(Below(0)) = 0
      BY <3>1, TotalSizeAssumption
    <3>4. ~(0 > 0)
      OBVIOUS
    <3>5. ~Over(0)
      BY <3>2, <3>3, <3>4, Zenon
    <3> HIDE DEF Over
    <3> QED
      BY <2>2, <3>5
  <2> DEFINE k == n - 1
  <2>4. k \in Nat /\ k < num_shards /\ k < n /\ n = k + 1 /\ k \in Shards
    BY <1>1, <2>2, <2>3 DEF Shards
  <2>5. ~Over(k)
    <3> HIDE DEF Over, k
    <3>1. ~(n <= k)
      BY <2>2, <2>4
    <3> QED
      BY <1>1, <2>1, <2>4, <3>1
  <2> HIDE DEF k
  <2>6. /\ Below(n) = Below(k) \cup Residents(k)
        /\ Below(k) \cap Residents(k) = {}
        /\ Residents(k) \in SUBSET Blocks
    BY <1>1, <2>4 DEF Residents, ShardsHold
  <2>7. TotalSize(Below(n)) = TotalSize(Below(k)) + TotalSize(Residents(k))
    BY <1>2, <2>4, <2>6, SizesAddUp
  <2>8. TotalSize(Residents(k)) <= per_shard /\ TotalSize(Residents(k)) \in Nat
    BY <2>4, <2>6, TotalSizeAssumption DEF ShardsHold
  <2>9. n * per_shard = k * per_shard + per_shard /\ k * per_shard \in Nat
    BY <1>1, <2>4
  <2>10. TotalSize(Below(k)) \in Nat
    BY <1>2, <2>4
  <2> QED
    BY <1>1, <2>2, <2>5, <2>7, <2>8, <2>9, <2>10
<1>4. ~Over(num_shards)
  BY <1>1, <1>3
<1>5. Below(num_shards) = cached
  BY <1>1
<1>6. num_shards * per_shard \in Nat /\ TotalSize(cached) \in Nat
  BY <1>1, <1>2, <1>5
<1>7. Capacity + num_shards - 1 \in Int
  BY <1>1, BlocksAssumption
<1> QED
  BY <1>4, <1>5, <1>6, <1>7, SharesOfCapacity DEF TotalWithinCapacity

(* The cache by itself, whatever is looked up, never holds more than the
   capacity it was given and the rounding of the shares. *)
THEOREM TotalCorrect ==
  CacheInit /\ [][CacheNext]_cacheVars => []TotalWithinCapacity
<1>1. ShardsHold /\ [CacheNext]_cacheVars => ShardsHold'
  BY ShardsHoldStep
<1>2. ShardsHold => TotalWithinCapacity
  BY SharesAddUp
<1> QED
  BY <1>1, <1>2, ShardsHoldInit, PTL
-----------------------------------------------------------------------------

(* The tags of the blocks that a phase is given to read. *)
LEMMA PhaseTags ==
  ASSUME NEW scheme \in Schemes
  PROVE  /\ FilterTags(scheme) \in Seq(1..DataTag)
         /\ Len(FilterTags(scheme)) \in Nat \ {0}
         /\ IndexTags(scheme) \in Seq(1..DataTag)
         /\ \A n \in DOMAIN FilterTags(scheme) :
              FilterTags(scheme)[n] \in TagsRead(scheme)
         /\ \A n \in DOMAIN IndexTags(scheme) :
              IndexTags(scheme)[n] \in TagsRead(scheme)
         /\ DataTag \in TagsRead(scheme)
<1> DEFINE f == FilterTags(scheme)
           x == IndexTags(scheme)
<1>1. f \in Seq(1..DataTag) /\ Len(f) \in Nat \ {0} /\ x \in Seq(1..DataTag)
  <2>1. \/ f = <<1>> /\ x = <<2>>
        \/ f = <<3, 4>> /\ x = <<5, 6>>
        \/ f = <<7, 8>> /\ x = <<>>
    <3>1. CASE scheme = "FULL"
      BY <3>1 DEF FilterTags, IndexTags
    <3>2. CASE scheme = "PARTITIONED"
      BY <3>2 DEF FilterTags, IndexTags
    <3>3. CASE scheme = "UNIFY"
      BY <3>3 DEF FilterTags, IndexTags
    <3> QED
      BY <3>1, <3>2, <3>3 DEF Schemes
  <2>2. /\ <<1>> \in Seq(1..9) /\ <<2>> \in Seq(1..9) /\ <<>> \in Seq(1..9)
        /\ <<3, 4>> \in Seq(1..9) /\ <<5, 6>> \in Seq(1..9) /\ <<7, 8>> \in Seq(1..9)
        /\ Len(<<1>>) = 1 /\ Len(<<3, 4>>) = 2 /\ Len(<<7, 8>>) = 2
    OBVIOUS
  <2> HIDE DEF f, x
  <2>3. f \in Seq(1..9) /\ x \in Seq(1..9) /\ (Len(f) = 1 \/ Len(f) = 2)
    BY <2>1, <2>2, Zenon
  <2> QED
    BY <2>3 DEF DataTag
<1>2. TagsRead(scheme) = {(f \o x \o <<DataTag>>)[n] : n \in DOMAIN (f \o x \o <<DataTag>>)}
  BY DEF TagsRead
<1> HIDE DEF f, x
<1>3. ASSUME NEW a \in Seq(1..DataTag), NEW b \in Seq(1..DataTag)
      PROVE  LET c == a \o b \o <<DataTag>>
             IN  /\ DOMAIN c = 1..Len(a) + Len(b) + 1
                 /\ \A n \in 1..Len(a) : c[n] = a[n]
                 /\ \A n \in 1..Len(b) : c[Len(a) + n] = b[n]
                 /\ c[Len(a) + Len(b) + 1] = DataTag
  BY DEF DataTag
<1>4. DOMAIN f = 1..Len(f) /\ DOMAIN x = 1..Len(x) /\ Len(f) \in Nat /\ Len(x) \in Nat
  BY <1>1
<1> DEFINE c == f \o x \o <<DataTag>>
<1>5. /\ DOMAIN c = 1..Len(f) + Len(x) + 1
      /\ \A n \in 1..Len(f) : c[n] = f[n]
      /\ \A n \in 1..Len(x) : c[Len(f) + n] = x[n]
      /\ c[Len(f) + Len(x) + 1] = DataTag
  BY <1>1, <1>3
<1>6. TagsRead(scheme) = {c[n] : n \in DOMAIN c}
  BY <1>2
<1> HIDE DEF c
<1>7. ASSUME NEW n \in DOMAIN f
      PROVE  f[n] \in TagsRead(scheme)
  BY <1>4, <1>5, <1>6
<1>8. ASSUME NEW n \in DOMAIN x
      PROVE  x[n] \in TagsRead(scheme)
  <2>1. Len(f) + n \in DOMAIN c
    BY <1>4, <1>5
  <2> QED
    BY <2>1, <1>4, <1>5, <1>6
<1>9. DataTag \in TagsRead(scheme)
  <2>1. Len(f) + Len(x) + 1 \in DOMAIN c
    BY <1>4, <1>5
  <2> QED
    BY <2>1, <1>5, <1>6
<1> QED
  BY <1>1, <1>7, <1>8, <1>9 DEF f, x

-----------------------------------------------------------------------------
SimTypes ==
  /\ incoming \in Blocks \cup {None}
  /\ active_scheme \in Policies
  /\ sst_stats \in [SSTs -> [SstCounters -> Nat]]
  /\ total_io_count \in Nat
  /\ walk \in Walk \cup {None}
  /\ op \in [key : Keys \cup {None}, cand : Seq(SSTs),
             owner : SSTs \cup {None}, seek : BOOLEAN]

(* The files still to look in may hold the key of the operation. *)
MayHold(s, k) ==
  k \in Keys /\ \E m \in DOMAIN Candidates[k] : Candidates[k][m] = s

OpInv ==
  /\ pc = "lookup" => op.cand # <<>>
  /\ \A n \in DOMAIN op.cand : MayHold(op.cand[n], op.key)

(* A lookup is that of the operation in its next file, and what it has still
   to read are blocks of the scheme that the file has. *)
WalkInv ==
  walk # None =>
    /\ pc = "lookup"
    /\ walk.sst = Head(op.cand)
    /\ walk.key = op.key
    /\ walk.key_exists = (walk.sst = op.owner)
    /\ \A n \in DOMAIN walk.todo :
          walk.todo[n] \in TagsRead(active_scheme[walk.sst])

Inv == SimTypes /\ OpInv /\ WalkInv

(* The fields of a running lookup. *)
LEMMA WalkFields ==
  ASSUME Inv, walk # None
  PROVE  /\ walk \in Walk /\ pc = "lookup"
         /\ walk.sst \in SSTs /\ walk.sst = Head(op.cand) /\ walk.key = op.key
         /\ active_scheme[walk.sst] \in Schemes
         /\ walk.todo \in Seq(1..DataTag)
         /\ MayHold(walk.sst, walk.key)
<1>1. walk \in Walk /\ walk.sst \in SSTs /\ walk.todo \in Seq(1..DataTag)
  BY DEF Inv, SimTypes, Walk
<1>2. active_scheme[walk.sst] \in Schemes
  BY <1>1, IOAssumption DEF Inv, SimTypes
<1>3. /\ pc = "lookup" /\ walk.sst = Head(op.cand) /\ walk.key = op.key
      /\ op.cand # <<>> /\ op.cand \in Seq(SSTs)
  BY DEF Inv, WalkInv, OpInv, SimTypes
<1>4. 1 \in DOMAIN op.cand /\ Head(op.cand) = op.cand[1]
  BY <1>3
<1> QED
  BY <1>1, <1>2, <1>3, <1>4 DEF Inv, OpInv

(* The block a lookup asks the cache for is one there is. *)
LEMMA NextBlockType ==
  ASSUME Inv, walk # None, walk.todo # <<>>
  PROVE  NextBlock \in Blocks
<1>1. /\ MayHold(walk.sst, walk.key) /\ walk.todo \in Seq(1..DataTag)
  BY WalkFields
<1>2. Head(walk.todo) \in TagsRead(active_scheme[walk.sst])
  <2>1. 1 \in DOMAIN walk.todo /\ Head(walk.todo) = walk.todo[1]
    BY <1>1
  <2> QED
    BY <2>1 DEF Inv, WalkInv
<1>3. active_scheme \in Policies
  BY DEF Inv, SimTypes
<1>4. PICK m \in DOMAIN Candidates[walk.key] : Candidates[walk.key][m] = walk.sst
  BY <1>1 DEF MayHold
<1> QED
  BY <1>1, <1>2, <1>3, <1>4, SimAssumption DEF MayHold, NextBlock

LEMMA CountType ==
  ASSUME SimTypes, NEW s \in SSTs, NEW C, Count(s, C)
  PROVE  /\ sst_stats' \in [SSTs -> [SstCounters -> Nat]]
         /\ \A x \in SSTs, c \in SstCounters :
              sst_stats'[x][c] = sst_stats[x][c] + IF x = s /\ c \in C THEN 1 ELSE 0
<1>1. [c \in SstCounters |-> sst_stats[s][c] + IF c \in C THEN 1 ELSE 0]
        \in [SstCounters -> Nat]
  BY DEF SimTypes
<1>2. sst_stats' = [sst_stats EXCEPT ![s] =
        [c \in SstCounters |-> sst_stats[s][c] + IF c \in C THEN 1 ELSE 0]]
  BY DEF Count
<1> QED
  BY <1>1, <1>2 DEF SimTypes

LEMMA TailOf ==
  ASSUME NEW S, NEW q \in Seq(S), q # <<>>
  PROVE  /\ Tail(q) \in Seq(S)
         /\ Len(q) \in Nat /\ Len(Tail(q)) = Len(q) - 1
         /\ \A n \in DOMAIN Tail(q) : n + 1 \in DOMAIN q /\ Tail(q)[n] = q[n + 1]
  OBVIOUS

(* Reading the first of the blocks leaves the rest of them. *)
LEMMA TodoTail ==
  ASSUME Inv, walk # None, walk.todo # <<>>, walk' = [walk EXCEPT !.todo = Tail(@)]
  PROVE  /\ walk' \in Walk /\ walk' # None
         /\ walk'.sst = walk.sst /\ walk'.key = walk.key /\ walk'.phase = walk.phase
         /\ walk'.key_exists = walk.key_exists /\ walk'.miss0 = walk.miss0
         /\ walk'.todo = Tail(walk.todo)
         /\ Len(walk.todo) \in Nat /\ Len(walk'.todo) = Len(walk.todo) - 1
         /\ \A n \in DOMAIN walk'.todo :
               walk'.todo[n] \in TagsRead(active_scheme[walk.sst])
<1>1. walk \in Walk /\ walk.todo \in Seq(1..DataTag)
  BY WalkFields
<1>2. /\ Tail(walk.todo) \in Seq(1..DataTag)
      /\ Len(walk.todo) \in Nat /\ Len(Tail(walk.todo)) = Len(walk.todo) - 1
      /\ \A n \in DOMAIN Tail(walk.todo) :
           n + 1 \in DOMAIN walk.todo /\ Tail(walk.todo)[n] = walk.todo[n + 1]
  BY <1>1, TailOf
<1>3. /\ walk' \in Walk /\ walk'.todo = Tail(walk.todo)
      /\ walk'.sst = walk.sst /\ walk'.key = walk.key /\ walk'.phase = walk.phase
      /\ walk'.key_exists = walk.key_exists /\ walk'.miss0 = walk.miss0
  BY <1>1, <1>2 DEF Walk
<1> QED
  BY <1>2, <1>3, IOAssumption DEF Inv, WalkInv

(* What a new lookup is. *)
LEMMA LookupBegins ==
  ASSUME Inv, LookupCandidate
  PROVE  /\ walk = None /\ walk' \in Walk /\ walk'.sst = Head(op.cand)
         /\ walk'.phase = "filter" /\ walk'.miss0 = total_io_count
         /\ walk'.todo = FilterTags(active_scheme[walk'.sst])
         /\ Len(walk'.todo) \in Nat
         /\ WalkInv'
         /\ Head(op.cand) \in SSTs /\ op.cand # <<>> /\ op' = op
         /\ Count(Head(op.cand), {"access_count", "point_lookup_count"})
         /\ UNCHANGED <<cacheVars, active_scheme, total_io_count>>
<1> DEFINE s == Head(op.cand)
           f == FilterTags(active_scheme[s])
<1>1. op.cand # <<>> /\ op.cand \in Seq(SSTs) /\ op' = op /\ pc' = "lookup"
  BY DEF LookupCandidate, Inv, SimTypes
<1>2. s \in SSTs /\ 1 \in DOMAIN op.cand /\ s = op.cand[1]
  BY <1>1
<1>3. op.key \in Keys /\ active_scheme[s] \in Schemes /\ total_io_count \in Nat
  BY <1>2, IOAssumption DEF Inv, SimTypes, OpInv, MayHold
<1>4. /\ f \in Seq(1..DataTag) /\ Len(f) \in Nat
      /\ \A n \in DOMAIN f : f[n] \in TagsRead(active_scheme[s])
  BY <1>3, PhaseTags
<1>5. /\ walk' = [sst |-> s, key |-> op.key, key_exists |-> (s = op.owner),
                  phase |-> "filter", todo |-> f, miss0 |-> total_io_count]
      /\ walk = None
      /\ Count(s, {"access_count", "point_lookup_count"})
      /\ UNCHANGED <<cacheVars, active_scheme, total_io_count>>
  BY DEF LookupCandidate, BeginLookup
<1>6. f = FilterTags(active_scheme[s])
  OBVIOUS
<1> HIDE DEF s, f
<1>7. /\ walk' \in Walk /\ walk'.sst = s /\ walk'.key = op.key
      /\ walk'.key_exists = (s = op.owner) /\ walk'.todo = f
      /\ walk'.phase = "filter" /\ walk'.miss0 = total_io_count
  <2>1. (s = op.owner) \in BOOLEAN
    OBVIOUS
  <2> QED
    BY <1>2, <1>3, <1>4, <1>5, <2>1 DEF Walk, Phases
<1>8. WalkInv'
  BY <1>1, <1>4, <1>5, <1>7 DEF WalkInv, s
<1> QED
  BY <1>1, <1>2, <1>4, <1>5, <1>6, <1>7, <1>8 DEF s

-----------------------------------------------------------------------------
(* Each step of a lookup keeps the invariant and, in the cache, is one that
   looks up or inserts a block there is. *)
LEMMA LookupKeepsInv ==
  ASSUME Inv, LookupStep, UNCHANGED simVars
  PROVE  Inv' /\ [CacheNext]_cacheVars
<1> USE DEF simVars
<1>1. OpInv'
  BY DEF Inv, OpInv
<1>2. CASE AccessHit \/ AccessMiss
  <2>1. walk # None /\ walk.todo # <<>> /\ walk' = [walk EXCEPT !.todo = Tail(@)]
    BY <1>2 DEF AccessHit, AccessMiss, AtBlock
  <2>2. /\ walk' \in Walk /\ walk' # None
        /\ walk'.sst = walk.sst /\ walk'.key = walk.key
        /\ walk'.key_exists = walk.key_exists
        /\ \A n \in DOMAIN walk'.todo :
               walk'.todo[n] \in TagsRead(active_scheme[walk.sst])
    BY <2>1, TodoTail
  <2>3. active_scheme' = active_scheme
    BY <1>2 DEF AccessHit, AccessMiss
  <2>4. WalkInv'
    BY <2>1, <2>2, <2>3 DEF Inv, WalkInv
  <2>5. NextBlock \in Blocks
    BY <2>1, NextBlockType
  <2>6. /\ incoming' \in Blocks \cup {None} /\ total_io_count' \in Nat
        /\ [CacheNext]_cacheVars
    BY <1>2, <2>5 DEF AccessHit, AccessMiss, Miss, CacheNext, Inv, SimTypes, cacheVars
  <2>7. sst_stats' \in [SSTs -> [SstCounters -> Nat]]
    BY <1>2, <2>1, WalkFields, CountType DEF AccessHit, AccessMiss, Inv
  <2>8. SimTypes'
    BY <2>2, <2>3, <2>6, <2>7 DEF Inv, SimTypes
  <2> QED
    BY <1>1, <2>4, <2>6, <2>8 DEF Inv
<1>3. CASE CacheInsert
  <2>1. /\ UNCHANGED <<active_scheme, sst_stats, total_io_count, walk>>
        /\ incoming' \in Blocks \cup {None} /\ [CacheNext]_cacheVars
    BY <1>3 DEF CacheInsert, stats, InsertStep, Drop, Admit, Reject, CacheNext,
                Inv, SimTypes
  <2> QED
    BY <1>1, <2>1 DEF Inv, SimTypes, WalkInv
<1>4. CASE FilterRejects
  <2>1. /\ walk # None /\ walk' = None
        /\ UNCHANGED <<cacheVars, active_scheme, total_io_count>>
    BY <1>4 DEF FilterRejects, PhaseDone
  <2>2. sst_stats' \in [SSTs -> [SstCounters -> Nat]]
    BY <1>4, <2>1, WalkFields, CountType DEF FilterRejects, Inv
  <2> QED
    BY <1>1, <2>1, <2>2 DEF Inv, SimTypes, WalkInv, cacheVars
<1>5. CASE FilterPasses
  <2> DEFINE x == IndexTags(active_scheme[walk.sst])
  <2>1. /\ walk # None
        /\ walk' = [walk EXCEPT !.phase = "index", !.miss0 = Mark, !.todo = x]
        /\ UNCHANGED <<cacheVars, active_scheme, total_io_count>>
    BY <1>5 DEF FilterPasses, PhaseDone
  <2>2. walk \in Walk /\ active_scheme[walk.sst] \in Schemes /\ Mark \in Nat
    BY <2>1, WalkFields DEF Mark, Inv, SimTypes
  <2>3. /\ x \in Seq(1..DataTag)
        /\ \A n \in DOMAIN x : x[n] \in TagsRead(active_scheme[walk.sst])
    BY <2>2, PhaseTags
  <2> HIDE DEF x
  <2>4. /\ walk' \in Walk /\ walk'.todo = x
        /\ walk'.sst = walk.sst /\ walk'.key = walk.key
        /\ walk'.key_exists = walk.key_exists
    BY <2>1, <2>2, <2>3 DEF Walk, Phases
  <2>5. WalkInv'
    BY <2>1, <2>3, <2>4 DEF Inv, WalkInv
  <2>6. sst_stats' \in [SSTs -> [SstCounters -> Nat]]
    BY <1>5, <2>1, WalkFields, CountType DEF FilterPasses, Inv
  <2> QED
    BY <1>1, <2>1, <2>4, <2>5, <2>6 DEF Inv, SimTypes, cacheVars
<1>6. CASE EndIndex
  <2>1. /\ walk # None
        /\ walk' = [walk EXCEPT !.phase = "data", !.todo = <<DataTag>>]
        /\ UNCHANGED <<cacheVars, active_scheme, sst_stats, total_io_count>>
    BY <1>6 DEF EndIndex, PhaseDone
  <2>2. walk \in Walk /\ active_scheme[walk.sst] \in Schemes
    BY <2>1, WalkFields
  <2>3. <<DataTag>> \in Seq(1..DataTag)
    BY DEF DataTag
  <2>4. /\ walk' \in Walk /\ walk'.todo = <<DataTag>>
        /\ walk'.sst = walk.sst /\ walk'.key = walk.key
        /\ walk'.key_exists = walk.key_exists
    BY <2>1, <2>2, <2>3 DEF Walk, Phases
  <2>5. \A n \in DOMAIN <<DataTag>> :
          <<DataTag>>[n] \in TagsRead(active_scheme[walk.sst])
    BY <2>2, PhaseTags
  <2>6. WalkInv'
    BY <2>1, <2>4, <2>5 DEF Inv, WalkInv
  <2> QED
    BY <1>1, <2>1, <2>4, <2>6 DEF Inv, SimTypes, cacheVars
<1>7. CASE EndLookup
  BY <1>1, <1>7 DEF EndLookup, stats, cacheVars, Inv, SimTypes, WalkInv
<1> QED
  BY <1>2, <1>3, <1>4, <1>5, <1>6, <1>7 DEF LookupStep

(* Between lookups the loop leaves the cache alone. *)
LEMMA LoopKeepsInv ==
  ASSUME Inv, SimNext \/ UNCHANGED allVars, ~InLookup
  PROVE  Inv' /\ UNCHANGED cacheVars
<1>1. ASSUME NEW k \in Keys, NEW present \in BOOLEAN, NEW seek \in BOOLEAN,
             NextOp(k, present, seek)
      PROVE  Inv' /\ UNCHANGED cacheVars
  <2>1. UNCHANGED <<cacheVars, active_scheme, sst_stats, total_io_count, walk>>
    BY <1>1 DEF NextOp, vars, stats
  <2>2. walk = None
    BY <1>1 DEF NextOp, Inv, WalkInv
  <2>3. Candidates[k] \in Seq(SSTs)
    BY SimAssumption
  <2>4. CASE Candidates[k] = <<>>
    BY <1>1, <2>1, <2>2, <2>4
       DEF NextOp, Inv, SimTypes, OpInv, WalkInv, cacheVars
  <2>5. CASE Candidates[k] # <<>>
    <3> DEFINE own == IF present THEN Deepest(k) ELSE None
    <3>1. op' = [key |-> k, cand |-> Candidates[k], seek |-> seek, owner |-> own]
      BY <1>1, <2>5 DEF NextOp
    <3>2. own \in SSTs \cup {None}
      BY <2>3, <2>5 DEF Deepest
    <3> HIDE DEF own
    <3>3. op' \in [key : Keys \cup {None}, cand : Seq(SSTs),
                   owner : SSTs \cup {None}, seek : BOOLEAN]
      BY <2>3, <3>1, <3>2
    <3>4. op'.key = k /\ op'.cand = Candidates[k]
      BY <3>1
    <3>5. OpInv'
      BY <2>5, <3>4 DEF OpInv, MayHold
    <3> QED
      BY <2>1, <2>2, <3>3, <3>5 DEF Inv, SimTypes, WalkInv, cacheVars
  <2> QED
    BY <2>4, <2>5
<1>2. CASE LookupCandidate
  <2>1. /\ walk' \in Walk /\ WalkInv' /\ op' = op
        /\ UNCHANGED <<cacheVars, active_scheme, total_io_count>>
        /\ Head(op.cand) \in SSTs /\ op.cand # <<>>
    BY <1>2, LookupBegins
  <2>2. sst_stats' \in [SSTs -> [SstCounters -> Nat]]
    BY <1>2, <2>1, CountType DEF LookupCandidate, BeginLookup, Inv
  <2>3. OpInv'
    BY <2>1 DEF Inv, OpInv
  <2> QED
    BY <2>1, <2>2, <2>3 DEF Inv, SimTypes, cacheVars
<1>3. CASE AfterLookup
  <2>1. /\ walk = None /\ pc' = "candidate"
        /\ op' = [op EXCEPT !.cand = FilesLeft(@, op.owner)]
        /\ UNCHANGED <<cacheVars, active_scheme, total_io_count, walk>>
    BY <1>3 DEF AfterLookup
  <2>2. op.cand # <<>> /\ op.cand \in Seq(SSTs)
    BY <1>3 DEF AfterLookup, Inv, OpInv, SimTypes
  <2>3. /\ Tail(op.cand) \in Seq(SSTs) /\ Head(op.cand) \in SSTs
        /\ \A n \in DOMAIN Tail(op.cand) :
             n + 1 \in DOMAIN op.cand /\ Tail(op.cand)[n] = op.cand[n + 1]
    BY <2>2, TailOf
  <2> DEFINE rest == FilesLeft(op.cand, op.owner)
  <2>4. rest \in Seq(SSTs) /\ (rest = <<>> \/ rest = Tail(op.cand))
    BY <2>3 DEF FilesLeft
  <2>5. /\ op' \in [key : Keys \cup {None}, cand : Seq(SSTs),
                    owner : SSTs \cup {None}, seek : BOOLEAN]
        /\ op'.key = op.key /\ op'.cand = rest
    <3>1. op' = [op EXCEPT !.cand = rest]
      BY <2>1
    <3> HIDE DEF rest
    <3> QED
      BY <3>1, <2>4 DEF Inv, SimTypes
  <2> HIDE DEF rest
  <2>6. OpInv'
    <3>1. \A n \in DOMAIN Tail(op.cand) : MayHold(Tail(op.cand)[n], op.key)
      BY <2>3 DEF Inv, OpInv
    <3>2. \A n \in DOMAIN rest : MayHold(rest[n], op.key)
      <4>1. CASE rest = <<>>
        BY <4>1
      <4> QED
        BY <2>4, <3>1, <4>1
    <3> QED
      BY <2>1, <2>5, <3>2 DEF OpInv, MayHold
  <2>7. sst_stats' \in [SSTs -> [SstCounters -> Nat]]
    <3>1. PICK C : Count(Head(op.cand), C)
      BY <1>3 DEF AfterLookup
    <3> QED
      BY <2>3, <3>1, CountType DEF Inv
  <2> QED
    BY <2>1, <2>5, <2>6, <2>7 DEF Inv, SimTypes, WalkInv, cacheVars
<1>4. CASE EndOp
  <2>1. /\ op' = NoOp
        /\ UNCHANGED <<cacheVars, active_scheme, sst_stats, total_io_count, walk>>
    BY <1>4 DEF EndOp, vars, stats
  <2>2. walk = None /\ pc' # "lookup"
    BY <1>4 DEF EndOp, Inv, WalkInv
  <2>3. /\ op' \in [key : Keys \cup {None}, cand : Seq(SSTs),
                    owner : SSTs \cup {None}, seek : BOOLEAN]
        /\ op'.cand = <<>>
    BY <2>1 DEF NoOp
  <2> QED
    BY <2>1, <2>2, <2>3 DEF Inv, SimTypes, OpInv, WalkInv, cacheVars
<1>5. ASSUME NEW chosen \in Policies, Reapply(chosen)
      PROVE  Inv' /\ UNCHANGED cacheVars
  BY <1>5 DEF Reapply, ApplyPolicy, stats, cacheVars, Inv, SimTypes, OpInv, WalkInv
<1>6. CASE Report
  <2>1. walk = None
    BY <1>6 DEF Report, Inv, WalkInv
  <2> QED
    BY <1>6, <2>1 DEF Report, vars, stats, cacheVars, Inv, SimTypes, OpInv, WalkInv
<1>7. CASE UNCHANGED allVars
  BY <1>7 DEF allVars, simVars, vars, stats, cacheVars, Inv, SimTypes, OpInv, WalkInv
<1> QED
  BY <1>1, <1>2, <1>3, <1>4, <1>5, <1>6, <1>7 DEF SimNext, SimStep, Stopped

LEMMA InitInv ==
  ASSUME SimInit
  PROVE  Inv /\ CacheInit
<1>1. sst_stats \in [SSTs -> [SstCounters -> Nat]]
  BY DEF SimInit, Init
<1>2. op \in [key : Keys \cup {None}, cand : Seq(SSTs),
              owner : SSTs \cup {None}, seek : BOOLEAN]
  BY DEF SimInit, NoOp
<1> QED
  BY <1>1, <1>2
     DEF SimInit, Init, CacheInit, Inv, SimTypes, OpInv, WalkInv, NoOp

LEMMA InvStep ==
  ASSUME Inv, [SimNext]_allVars
  PROVE  Inv' /\ [CacheNext]_cacheVars
<1>1. CASE InLookup
  BY <1>1, LookupKeepsInv DEF InLookup
<1>2. CASE ~InLookup
  BY <1>2, LoopKeepsInv
<1> QED
  BY <1>1, <1>2

(* All shards together never hold more than the capacity asked for and the
   rounding of its shares, whatever is looked up and displaced. *)
THEOREM SimTotalCorrect == SimSpec => []TotalWithinCapacity
<1>1. SimInit => Inv /\ CacheInit
  BY InitInv
<1>2. Inv /\ [SimNext]_allVars => Inv' /\ [CacheNext]_cacheVars
  BY InvStep
<1>3. SimSpec => CacheInit /\ [][CacheNext]_cacheVars
  BY <1>1, <1>2, PTL DEF SimSpec
<1> QED
  BY <1>3, TotalCorrect

-----------------------------------------------------------------------------
(* While a present key is looked up, its owner is the last of the files
   still to look in. *)
OwnerInv ==
  op.owner # None =>
    /\ op.owner = Deepest(op.key)
    /\ op.cand # <<>> => op.cand[Len(op.cand)] = op.owner

LEMMA LastOfTail ==
  ASSUME NEW S, NEW q \in Seq(S), q # <<>>, q[Len(q)] # Head(q)
  PROVE  Tail(q) # <<>> /\ Tail(q)[Len(Tail(q))] = q[Len(q)]
<1>1. /\ Len(q) \in Nat /\ Len(q) # 0 /\ Head(q) = q[1]
      /\ Len(Tail(q)) = Len(q) - 1
      /\ \A n \in 1..Len(q) - 1 : Tail(q)[n] = q[n + 1]
  OBVIOUS
<1>2. Len(q) # 1
  BY <1>1
<1>3. Len(q) - 1 \in 1..Len(q) - 1 /\ Len(q) - 1 + 1 = Len(q)
  BY <1>1, <1>2
<1>4. Tail(q)[Len(Tail(q))] = q[Len(q)]
  BY <1>1, <1>3
<1>5. Tail(q) # <<>>
  BY <1>1, <1>2
<1> QED
  BY <1>4, <1>5

LEMMA OwnerStep ==
  ASSUME Inv, OwnerInv, [SimNext]_allVars
  PROVE  /\ OwnerInv'
         /\ op.owner # None /\ op.cand # <<>> /\ op'.cand = <<>> =>
              Head(op.cand) = Deepest(op.key)
<1>1. ASSUME NEW k \in Keys, NEW present \in BOOLEAN, NEW seek \in BOOLEAN,
             NextOp(k, present, seek), op' # op
      PROVE  OwnerInv' /\ (op.cand # <<>> => op'.cand # <<>>)
  <2> DEFINE own == IF present THEN Deepest(k) ELSE None
  <2>1. /\ Candidates[k] # <<>>
        /\ op' = [key |-> k, cand |-> Candidates[k], seek |-> seek, owner |-> own]
    BY <1>1 DEF NextOp
  <2>2. /\ own # None => own = Deepest(k)
    OBVIOUS
  <2> HIDE DEF own
  <2>3. op'.key = k /\ op'.cand = Candidates[k] /\ op'.owner = own
    BY <2>1
  <2> QED
    BY <2>1, <2>2, <2>3 DEF OwnerInv, Deepest
<1>2. CASE AfterLookup
  <2> DEFINE rest == FilesLeft(op.cand, op.owner)
  <2>1. op.cand # <<>> /\ op.cand \in Seq(SSTs) /\ op' = [op EXCEPT !.cand = rest]
    BY <1>2 DEF AfterLookup, Inv, OpInv, SimTypes
  <2>2. op \in [key : Keys \cup {None}, cand : Seq(SSTs),
                owner : SSTs \cup {None}, seek : BOOLEAN]
    BY DEF Inv, SimTypes
  <2>3. CASE Head(op.cand) = op.owner
    <3>1. rest = <<>>
      BY <2>3 DEF FilesLeft
    <3> HIDE DEF rest
    <3>2. op'.key = op.key /\ op'.owner = op.owner /\ op'.cand = <<>>
      BY <2>1, <2>2, <3>1
    <3> QED
      BY <2>3, <3>2 DEF OwnerInv, Deepest
  <2>4. CASE Head(op.cand) # op.owner
    <3>1. rest = Tail(op.cand)
      BY <2>4 DEF FilesLeft
    <3> HIDE DEF rest
    <3>2. op'.key = op.key /\ op'.owner = op.owner /\ op'.cand = Tail(op.cand)
      BY <2>1, <2>2, <3>1
    <3>3. op.owner # None =>
            /\ Tail(op.cand) # <<>>
            /\ Tail(op.cand)[Len(Tail(op.cand))] = op.owner
      BY <2>1, <2>4, LastOfTail DEF OwnerInv
    <3> QED
      BY <3>2, <3>3 DEF OwnerInv, Deepest
  <2> QED
    BY <2>3, <2>4
<1>3. CASE EndOp
  <2>1. op.cand = <<>> /\ op' = NoOp
    BY <1>3 DEF EndOp
  <2> QED
    BY <2>1 DEF OwnerInv, NoOp
<1>4. CASE op' = op
  BY <1>4 DEF OwnerInv, Deepest
<1>5. \/ \E k \in Keys, present, seek \in BOOLEAN :
            NextOp(k, present, seek) /\ op' # op
      \/ AfterLookup \/ EndOp \/ op' = op
  <2>1. ASSUME LookupCandidate \/ InLookup \/ Report \/ UNCHANGED allVars
                 \/ \E chosen \in Policies : Reapply(chosen)
        PROVE  op' = op
    BY <2>1 DEF LookupCandidate, InLookup, Report, Reapply, allVars, simVars
  <2> QED
    BY <2>1, Zenon DEF SimNext, SimStep, Stopped
<1> QED
  BY <1>1, <1>2, <1>3, <1>4, <1>5

(* The loop over the files of a present key, for any tree, filters and
   policies, does not end before the lookup in the deepest of them, which
   is never rejected there and so reads the data block. *)
THEOREM PresentKeysCorrect == SimSpec => PresentKeyIsRead
<1>1. ASSUME Inv, OwnerInv, SimNext, op.owner # None, walk # None, walk' = None,
             walk.sst = Deepest(op.key)
      PROVE  walk.phase = "data"
  <2>1. pc = "lookup" /\ walk.key_exists = TRUE
    BY <1>1 DEF Inv, WalkInv, OwnerInv
  <2>2. walk \in Walk
    BY <1>1, WalkFields
  <2>3. CASE InLookup
    <3>1. CASE AccessHit \/ AccessMiss
      BY <1>1, <3>1, TodoTail DEF AccessHit, AccessMiss, AtBlock
    <3>2. CASE FilterRejects
      BY <2>1, <3>2 DEF FilterRejects, MayReject
    <3>3. CASE FilterPasses
      <4>1. walk' = [walk EXCEPT !.phase = "index", !.miss0 = Mark,
                                 !.todo = IndexTags(active_scheme[walk.sst])]
        BY <3>3 DEF FilterPasses
      <4>2. Inv' /\ walk' = None
        BY <1>1, <2>3, LookupKeepsInv DEF InLookup
      <4>3. IndexTags(active_scheme[walk.sst]) \in Seq(1..DataTag) /\ Mark \in Nat
        BY <1>1, WalkFields, PhaseTags DEF Mark, Inv, SimTypes
      <4>4. walk' \in Walk
        BY <2>2, <4>1, <4>3 DEF Walk, Phases
      <4> QED
        BY <4>2, <4>4, IOAssumption
    <3>4. CASE EndIndex
      <4>1. walk' = [walk EXCEPT !.phase = "data", !.todo = <<DataTag>>]
        BY <3>4 DEF EndIndex
      <4>2. <<DataTag>> \in Seq(1..DataTag)
        BY DEF DataTag
      <4>3. walk' \in Walk
        BY <2>2, <4>1, <4>2 DEF Walk, Phases
      <4> QED
        BY <1>1, <4>3, IOAssumption
    <3>5. CASE EndLookup
      BY <3>5 DEF EndLookup, PhaseDone
    <3>6. CASE CacheInsert
      BY <1>1, <3>6 DEF CacheInsert
    <3> QED
      BY <2>3, <3>1, <3>2, <3>3, <3>4, <3>5, <3>6 DEF InLookup, LookupStep
  <2>4. CASE ~InLookup
    BY <1>1, <2>1, <2>4
       DEF SimNext, SimStep, Stopped, NextOp, LookupCandidate, AfterLookup, EndOp,
           Reapply, Report, allVars, vars
  <2> QED
    BY <2>3, <2>4
<1>2. Inv /\ OwnerInv /\ [SimNext]_allVars =>
        [op.owner # None =>
           /\ op.cand # <<>> /\ op'.cand = <<>> => Head(op.cand) = Deepest(op.key)
           /\ walk # None /\ walk' = None /\ walk.sst = Deepest(op.key) =>
                walk.phase = "data"]_allVars
  BY <1>1, OwnerStep
<1>3. Inv /\ OwnerInv /\ [SimNext]_allVars => Inv' /\ OwnerInv'
  BY InvStep, OwnerStep
<1>4. SimInit => Inv /\ OwnerInv
  BY InitInv DEF SimInit, NoOp, OwnerInv
<1> QED
  BY <1>2, <1>3, <1>4, PTL DEF SimSpec, PresentKeyIsRead

-----------------------------------------------------------------------------
(* The phases of a lookup that are still to come after the one it is in. *)
PhasesToCome(w) ==
  CASE w.phase = "filter" -> 2 [] w.phase = "index" -> 1 [] w.phase = "data" -> 0

(* An insert runs for a lookup that waits for it, and has a step to take: the
   block is too large, it fits, or its shard holds one that can go. *)
InsertCanGoOn ==
  incoming # None =>
    /\ walk # None
    /\ Size[incoming] > per_shard \/ Fits(incoming) \/ Victims(incoming) # {}

(* The ways in which a step brings a lookup nearer to its end: it returns, a
   phase ends, a block has been asked for, an insert ends, or an eviction
   leaves fewer bytes in the cache. *)
Nearer ==
  \/ walk' = None
  \/ walk' # None /\ PhasesToCome(walk') < PhasesToCome(walk)
  \/ /\ walk' # None /\ walk'.phase = walk.phase
     /\ Len(walk'.todo) \in Nat /\ Len(walk'.todo) < Len(walk.todo)
  \/ walk' = walk /\ incoming # None /\ incoming' = None
  \/ /\ walk' = walk /\ incoming' = incoming
     /\ TotalSize(cached') \in Nat /\ TotalSize(cached') < TotalSize(cached)

LEMMA InsertGoesOn ==
  ASSUME cached \subseteq Blocks, incoming \in Blocks
  PROVE  Size[incoming] > per_shard \/ Fits(incoming) \/ Victims(incoming) # {}
<1> SUFFICES ASSUME Victims(incoming) = {}, ~(Size[incoming] > per_shard)
             PROVE  Fits(incoming)
  OBVIOUS
<1>1. TotalSize(Residents(ShardOf[incoming])) = 0
  BY TotalSizeAssumption DEF Victims
<1>2. Size[incoming] \in Nat /\ per_shard \in Nat
  BY BlocksAssumption, SharesOfCapacity
<1> QED
  BY <1>1, <1>2 DEF Fits

LEMMA InsertGetsNearer ==
  ASSUME cached \subseteq Blocks, CacheInsert
  PROVE  Nearer
<1>1. walk' = walk
  BY DEF CacheInsert
<1>2. CASE Drop
  <2>1. PICK victim \in Victims(incoming) : cached' = Without(victim)
    BY <1>2 DEF Drop
  <2>2. victim \in cached /\ cached' = cached \ {victim} /\ incoming' = incoming
    BY <1>2, <2>1 DEF Drop, Victims, Residents, Without
  <2>3. cached \in SUBSET Blocks
    OBVIOUS
  <2>4. TotalSize(cached') \in Nat /\ TotalSize(cached') < TotalSize(cached)
    BY <2>2, <2>3, SizeWithoutOne
  <2> QED
    BY <1>1, <2>2, <2>4 DEF Nearer
<1>3. CASE Admit \/ Reject
  BY <1>1, <1>3 DEF Admit, Reject, Nearer
<1> QED
  BY <1>2, <1>3 DEF CacheInsert, InsertStep

LEMMA LookupGetsNearer ==
  ASSUME Inv, cached \subseteq Blocks, LookupStep
  PROVE  Nearer
<1>1. CASE AccessHit \/ AccessMiss
  <2>1. walk # None /\ walk.todo # <<>> /\ walk' = [walk EXCEPT !.todo = Tail(@)]
    BY <1>1 DEF AccessHit, AccessMiss, AtBlock
  <2>2. /\ walk' # None /\ walk'.phase = walk.phase
        /\ Len(walk.todo) \in Nat /\ Len(walk'.todo) = Len(walk.todo) - 1
        /\ walk'.todo \in Seq(1..DataTag)
    BY <2>1, TodoTail DEF Walk
  <2>3. Len(walk'.todo) \in Nat
    BY <2>2
  <2> QED
    BY <2>2, <2>3 DEF Nearer
<1>2. CASE CacheInsert
  BY <1>2, InsertGetsNearer
<1>3. CASE FilterPasses
  <2>1. /\ walk # None /\ walk.phase = "filter"
        /\ walk' = [walk EXCEPT !.phase = "index", !.miss0 = Mark,
                                !.todo = IndexTags(active_scheme[walk.sst])]
    BY <1>3 DEF FilterPasses, PhaseDone
  <2> QED
    BY <2>1 DEF Nearer, PhasesToCome
<1>4. CASE EndIndex
  <2>1. /\ walk # None /\ walk.phase = "index"
        /\ walk' = [walk EXCEPT !.phase = "data", !.todo = <<DataTag>>]
    BY <1>4 DEF EndIndex, PhaseDone
  <2> QED
    BY <2>1 DEF Nearer, PhasesToCome
<1>5. CASE FilterRejects \/ EndLookup
  BY <1>5 DEF FilterRejects, EndLookup, Nearer
<1> QED
  BY <1>1, <1>2, <1>3, <1>4, <1>5 DEF LookupStep

(* A lookup cannot go on for ever, however many evictions its inserts take:
   an insert is never stuck, and each step of a lookup returns, ends a phase,
   asks for one of the blocks left, ends an insert or leaves fewer bytes in
   the cache. *)
THEOREM LookupGetsShorter ==
  SimSpec => []InsertCanGoOn /\ [][LookupStep => Nearer]_allVars
<1> DEFINE Waits == incoming # None => walk # None
<1>1. SimInit => Inv /\ CacheInit /\ Waits
  BY InitInv DEF CacheInit
<1>2. Inv /\ [SimNext]_allVars => Inv' /\ [CacheNext]_cacheVars
  BY InvStep
<1>3. Inv /\ Waits /\ [SimNext]_allVars => Waits'
  <2> SUFFICES ASSUME Inv, Waits, [SimNext]_allVars PROVE Waits'
    OBVIOUS
  <2>1. CASE InLookup
    <3>1. CASE AccessHit \/ AccessMiss
      BY <3>1, TodoTail DEF AccessHit, AccessMiss, AtBlock
    <3>2. CASE CacheInsert
      BY <3>2 DEF CacheInsert, InsertStep, Drop, Admit, Reject
    <3>3. CASE FilterRejects \/ FilterPasses \/ EndIndex \/ EndLookup
      BY <3>3 DEF FilterRejects, FilterPasses, EndIndex, EndLookup, PhaseDone,
                  cacheVars
    <3> QED
      BY <2>1, <3>1, <3>2, <3>3 DEF InLookup, LookupStep
  <2>2. CASE ~InLookup
    <3>1. incoming' = incoming
      BY <2>2, LoopKeepsInv DEF cacheVars
    <3>2. CASE LookupCandidate
      BY <3>2, LookupBegins, IOAssumption
    <3>3. CASE ~LookupCandidate
      <4>1. walk' = walk
        BY <2>2, <3>3
           DEF SimNext, SimStep, NextOp, AfterLookup, EndOp, Reapply, ApplyPolicy,
               Report, Stopped, allVars, vars
      <4> QED
        BY <3>1, <4>1
    <3> QED
      BY <3>2, <3>3
  <2> QED
    BY <2>1, <2>2
<1>4. CacheInit => ShardsHold
  BY ShardsHoldInit
<1>5. ShardsHold /\ [CacheNext]_cacheVars => ShardsHold'
  BY ShardsHoldStep
<1>6. ShardsHold /\ Waits => InsertCanGoOn
  BY InsertGoesOn DEF ShardsHold, InsertCanGoOn
<1>7. Inv /\ ShardsHold /\ [SimNext]_allVars => [LookupStep => Nearer]_allVars
  BY LookupGetsNearer DEF ShardsHold
<1> QED
  BY <1>1, <1>2, <1>3, <1>4, <1>5, <1>6, <1>7, PTL DEF SimSpec
-----------------------------------------------------------------------------
(* The blocks file s has been read beyond those its lookups are sure of: in
   the filter phase, what was read so far; after it, the data block that is
   still to come. *)
Pending(s) ==
  IF walk = None \/ walk.sst # s THEN 0
  ELSE IF walk.phase = "filter"
       THEN Len(FilterTags(active_scheme[s])) - Len(walk.todo)
       ELSE IF walk.phase = "index" THEN -1 ELSE 0 - Len(walk.todo)

InFilter(s) == walk # None /\ walk.sst = s /\ walk.phase = "filter"
ToBeSought(s) == pc = "lookup" /\ Head(op.cand) = s

Ratios(s) ==
  LET st == sst_stats[s]
  IN  /\ st["point_lookup_count"] = st["access_count"]
      /\ st["access_count"] = st["filter_checked"] + (IF InFilter(s) THEN 1 ELSE 0)
      /\ st["filter_rejected"] <= st["filter_checked"]
      /\ st["scan_count"] + (IF ToBeSought(s) THEN 1 ELSE 0)
            <= st["point_lookup_count"]
      /\ st["filter_checked"] + st["filter_checked"] - st["filter_rejected"]
            + Pending(s) <= st["cache_hits"] + st["cache_misses"]

(* Counters of one file that all grow, or do not, are numbers. *)
LEMMA CountersType ==
  ASSUME SimTypes, NEW s \in SSTs
  PROVE  /\ sst_stats[s]["access_count"] \in Nat
         /\ sst_stats[s]["point_lookup_count"] \in Nat
         /\ sst_stats[s]["scan_count"] \in Nat
         /\ sst_stats[s]["filter_checked"] \in Nat
         /\ sst_stats[s]["filter_rejected"] \in Nat
         /\ sst_stats[s]["cache_hits"] \in Nat
         /\ sst_stats[s]["cache_misses"] \in Nat
  BY DEF SimTypes, SstCounters

(* What Count does to the counters of file x. *)
LEMMA CountOf ==
  ASSUME SimTypes, NEW s \in SSTs, NEW C, Count(s, C), NEW x \in SSTs
  PROVE  LET new(c) == sst_stats[x][c] + IF x = s /\ c \in C THEN 1 ELSE 0
         IN  /\ sst_stats'[x]["access_count"] = new("access_count")
             /\ sst_stats'[x]["point_lookup_count"] = new("point_lookup_count")
             /\ sst_stats'[x]["scan_count"] = new("scan_count")
             /\ sst_stats'[x]["filter_checked"] = new("filter_checked")
             /\ sst_stats'[x]["filter_rejected"] = new("filter_rejected")
             /\ sst_stats'[x]["cache_hits"] = new("cache_hits")
             /\ sst_stats'[x]["cache_misses"] = new("cache_misses")
  BY CountType DEF SstCounters

LEMMA LookupKeepsRatios ==
  ASSUME Inv, NEW x \in SSTs, Ratios(x), LookupStep, UNCHANGED simVars
  PROVE  Ratios(x)'
<1> DEFINE st == sst_stats[x]
<1>1. /\ st["access_count"] \in Nat /\ st["point_lookup_count"] \in Nat
      /\ st["scan_count"] \in Nat /\ st["filter_checked"] \in Nat
      /\ st["filter_rejected"] \in Nat
      /\ st["cache_hits"] \in Nat /\ st["cache_misses"] \in Nat
  BY CountersType DEF Inv
<1>2. ToBeSought(x)' = ToBeSought(x)
  BY DEF ToBeSought, simVars
<1>3. SimTypes
  BY DEF Inv
<1>4. CASE AccessHit \/ AccessMiss
  <2>1. /\ walk # None /\ walk.todo # <<>> /\ walk' = [walk EXCEPT !.todo = Tail(@)]
        /\ active_scheme' = active_scheme
    BY <1>4 DEF AccessHit, AccessMiss, AtBlock
  <2>2. /\ walk' # None /\ walk'.sst = walk.sst /\ walk'.phase = walk.phase
        /\ Len(walk.todo) \in Nat /\ Len(walk'.todo) = Len(walk.todo) - 1
    BY <2>1, TodoTail
  <2>3. InFilter(x)' = InFilter(x)
    BY <2>1, <2>2 DEF InFilter
  <2>4. walk.sst \in SSTs /\ active_scheme[walk.sst] \in Schemes
    BY <2>1, WalkFields
  <2>5. Len(FilterTags(active_scheme[walk.sst])) \in Nat
    BY <2>4, PhaseTags
  <2>6. CASE x = walk.sst
    <3>1. Pending(x) \in Int /\ Pending(x)' \in Int /\ Pending(x)' <= Pending(x) + 1
      <4>1. CASE walk.phase = "filter"
        <5>1. /\ Pending(x) = Len(FilterTags(active_scheme[walk.sst])) - Len(walk.todo)
              /\ Pending(x)' = Len(FilterTags(active_scheme[walk.sst])) - Len(walk'.todo)
          <6>1. walk # None /\ active_scheme' = active_scheme
            BY <2>1
          <6> QED
            BY <6>1, <2>2, <2>6, <4>1, Zenon DEF Pending
        <5> QED
          BY <5>1, <2>2, <2>5
      <4>2. CASE walk.phase = "index"
        BY <2>1, <2>2, <2>6, <4>2 DEF Pending
      <4>3. CASE walk.phase # "filter" /\ walk.phase # "index"
        BY <2>1, <2>2, <2>6, <4>3 DEF Pending
      <4> QED
        BY <4>1, <4>2, <4>3
    <3>2. PICK c \in {"cache_hits", "cache_misses"} : Count(walk.sst, {c})
      BY <1>4 DEF AccessHit, AccessMiss
    <3>3. /\ sst_stats'[x]["access_count"] = st["access_count"]
          /\ sst_stats'[x]["point_lookup_count"] = st["point_lookup_count"]
          /\ sst_stats'[x]["scan_count"] = st["scan_count"]
          /\ sst_stats'[x]["filter_checked"] = st["filter_checked"]
          /\ sst_stats'[x]["filter_rejected"] = st["filter_rejected"]
          /\ sst_stats'[x]["cache_hits"] + sst_stats'[x]["cache_misses"] =
               st["cache_hits"] + st["cache_misses"] + 1
      BY <1>1, <1>3, <2>4, <2>6, <3>2, CountOf
    <3> QED
      BY <1>1, <1>2, <2>3, <3>1, <3>3 DEF Ratios
  <2>7. CASE x # walk.sst
    <3>1. Pending(x) = 0 /\ Pending(x)' = 0
      BY <2>2, <2>7 DEF Pending
    <3>2. PICK C : Count(walk.sst, C)
      BY <1>4 DEF AccessHit, AccessMiss
    <3>3. sst_stats'[x] = st
      BY <2>7, <2>4, <3>2, <1>3 DEF Count, SimTypes
    <3> QED
      BY <1>2, <2>3, <3>1, <3>3 DEF Ratios
  <2> QED
    BY <2>6, <2>7
<1>5. CASE CacheInsert
  BY <1>5, <1>2 DEF CacheInsert, stats, Ratios, InFilter, Pending
<1>6. CASE FilterRejects \/ FilterPasses
  <2>1. /\ walk # None /\ walk.phase = "filter" /\ walk.todo = <<>>
        /\ active_scheme' = active_scheme
    BY <1>6 DEF FilterRejects, FilterPasses, PhaseDone
  <2>2. walk.sst \in SSTs /\ active_scheme[walk.sst] \in Schemes /\ walk \in Walk
    BY <2>1, WalkFields
  <2>3. Len(FilterTags(active_scheme[walk.sst])) \in Nat \ {0}
    BY <2>2, PhaseTags
  <2>4. CASE FilterRejects
    <3>1. walk' = None /\ Count(walk.sst, {"filter_checked", "filter_rejected"})
      BY <2>4 DEF FilterRejects, Rejection
    <3>2. CASE x = walk.sst
      <4>1. Pending(x) >= 1 /\ Pending(x) \in Int /\ Pending(x)' = 0
        BY <2>1, <2>3, <3>1, <3>2 DEF Pending
      <4>2. InFilter(x) /\ ~InFilter(x)'
        BY <2>1, <3>1, <3>2 DEF InFilter
      <4>3. /\ sst_stats'[x]["access_count"] = st["access_count"]
            /\ sst_stats'[x]["point_lookup_count"] = st["point_lookup_count"]
            /\ sst_stats'[x]["scan_count"] = st["scan_count"]
            /\ sst_stats'[x]["filter_checked"] = st["filter_checked"] + 1
            /\ sst_stats'[x]["filter_rejected"] = st["filter_rejected"] + 1
            /\ sst_stats'[x]["cache_hits"] = st["cache_hits"]
            /\ sst_stats'[x]["cache_misses"] = st["cache_misses"]
        BY <1>1, <1>3, <2>2, <3>1, <3>2, CountOf
      <4> QED
        BY <1>1, <1>2, <4>1, <4>2, <4>3 DEF Ratios
    <3>3. CASE x # walk.sst
      <4>1. sst_stats'[x] = st
        BY <2>2, <3>1, <3>3, <1>3 DEF Count, SimTypes
      <4> QED
        BY <1>2, <3>1, <3>3, <4>1 DEF Ratios, Pending, InFilter
    <3> QED
      BY <3>2, <3>3
  <2>5. CASE FilterPasses
    <3> DEFINE todo == IndexTags(active_scheme[walk.sst])
    <3>1. /\ walk' = [walk EXCEPT !.phase = "index", !.miss0 = Mark, !.todo = todo]
          /\ Count(walk.sst, {"filter_checked"})
      BY <2>5 DEF FilterPasses
    <3> HIDE DEF todo
    <3>2. walk'.sst = walk.sst /\ walk'.phase = "index"
      BY <2>2, <3>1 DEF Walk
    <3>3. CASE x = walk.sst
      <4>1. Pending(x) >= 1 /\ Pending(x) \in Int
        BY <2>1, <2>3, <3>3 DEF Pending
      <4>2. Pending(x)' = -1
        <5>1. todo \in Seq(1..DataTag) /\ Mark \in Nat
          BY <2>2, PhaseTags DEF todo, Mark, Inv, SimTypes
        <5>2. walk' \in Walk
          BY <2>2, <3>1, <5>1 DEF Walk, Phases
        <5>3. walk' # None
          BY <5>2, IOAssumption
        <5> QED
          BY <3>2, <3>3, <5>3 DEF Pending
      <4>3. InFilter(x) /\ ~InFilter(x)'
        BY <2>1, <3>2, <3>3 DEF InFilter
      <4>4. /\ sst_stats'[x]["access_count"] = st["access_count"]
            /\ sst_stats'[x]["point_lookup_count"] = st["point_lookup_count"]
            /\ sst_stats'[x]["scan_count"] = st["scan_count"]
            /\ sst_stats'[x]["filter_checked"] = st["filter_checked"] + 1
            /\ sst_stats'[x]["filter_rejected"] = st["filter_rejected"]
            /\ sst_stats'[x]["cache_hits"] = st["cache_hits"]
            /\ sst_stats'[x]["cache_misses"] = st["cache_misses"]
        BY <1>1, <1>3, <2>2, <3>1, <3>3, CountOf
      <4> QED
        BY <1>1, <1>2, <4>1, <4>2, <4>3, <4>4 DEF Ratios
    <3>4. CASE x # walk.sst
      <4>1. sst_stats'[x] = st
        BY <2>2, <3>1, <3>4, <1>3 DEF Count, SimTypes
      <4> QED
        BY <1>2, <3>2, <3>4, <4>1 DEF Ratios, Pending, InFilter
    <3> QED
      BY <3>3, <3>4
  <2> QED
    BY <1>6, <2>4, <2>5
<1>7. CASE EndIndex
  <2>1. /\ walk # None /\ walk.phase = "index"
        /\ walk' = [walk EXCEPT !.phase = "data", !.todo = <<DataTag>>]
        /\ UNCHANGED <<active_scheme, sst_stats>>
    BY <1>7 DEF EndIndex, PhaseDone
  <2>2. walk \in Walk
    BY <2>1, WalkFields
  <2>3. /\ walk'.sst = walk.sst /\ walk'.phase = "data"
        /\ walk'.todo = <<DataTag>>
    BY <2>1, <2>2 DEF Walk
  <2>4. walk' # None
    <3>1. Inv'
      BY <1>7, LookupKeepsInv
    <3>2. <<DataTag>> \in Seq(1..DataTag)
      BY DEF DataTag
    <3>3. walk' \in Walk
      BY <2>1, <2>2, <3>2 DEF Walk, Phases
    <3> QED
      BY <3>3, IOAssumption
  <2>5. Pending(x)' = Pending(x)
    <3>1. Len(<<DataTag>>) = 1
      OBVIOUS
    <3> QED
      BY <2>1, <2>3, <2>4, <3>1 DEF Pending
  <2>6. InFilter(x)' = InFilter(x)
    BY <2>1, <2>3 DEF InFilter
  <2> QED
    BY <1>2, <2>1, <2>5, <2>6 DEF Ratios
<1>8. CASE EndLookup
  <2>1. /\ walk # None /\ walk.phase = "data" /\ walk.todo = <<>> /\ walk' = None
        /\ sst_stats' = sst_stats
    BY <1>8 DEF EndLookup, PhaseDone, stats
  <2>2. Len(walk.todo) = 0
    BY <2>1
  <2>3. Pending(x) = 0
    <3>1. Pending(x) = 0 \/ Pending(x) = 0 - Len(walk.todo)
      BY <2>1 DEF Pending
    <3> QED
      BY <2>2, <3>1
  <2>4. Pending(x)' = 0
    BY <2>1 DEF Pending
  <2> QED
    BY <1>2, <2>1, <2>3, <2>4 DEF Ratios, InFilter
<1> QED
  BY <1>4, <1>5, <1>6, <1>7, <1>8 DEF LookupStep

LEMMA LoopKeepsRatios ==
  ASSUME Inv, NEW x \in SSTs, Ratios(x), SimNext \/ UNCHANGED allVars, ~InLookup
  PROVE  Ratios(x)'
<1>1. SimTypes
  BY DEF Inv
<1>2. CASE UNCHANGED <<sst_stats, walk>> /\ pc' # "lookup" /\ walk = None
  <2>1. Pending(x)' = Pending(x) /\ InFilter(x)' = InFilter(x) /\ ~ToBeSought(x)'
    BY <1>2 DEF Pending, InFilter, ToBeSought
  <2> QED
    BY <1>1, <1>2, <2>1, CountersType DEF Ratios
<1>3. CASE LookupCandidate
  <2> DEFINE s == Head(op.cand)
             st == sst_stats[x]
  <2>1. /\ walk = None /\ walk' # None /\ walk'.sst = s /\ walk'.phase = "filter"
        /\ walk'.todo = FilterTags(active_scheme[s]) /\ Len(walk'.todo) \in Nat
        /\ s \in SSTs /\ active_scheme' = active_scheme /\ op' = op
        /\ Count(s, {"access_count", "point_lookup_count"})
    BY <1>3, LookupBegins, IOAssumption
  <2>2. pc = "candidate" /\ pc' = "lookup"
    BY <1>3 DEF LookupCandidate
  <2> HIDE DEF s
  <2>3. Pending(x) = 0 /\ Pending(x)' = 0 /\ ~InFilter(x)
    BY <2>1 DEF Pending, InFilter
  <2>4. ~ToBeSought(x) /\ (ToBeSought(x)' <=> x = s) /\ (InFilter(x)' <=> x = s)
    BY <2>1, <2>2 DEF ToBeSought, InFilter, s
  <2>5. /\ st["access_count"] \in Nat /\ st["point_lookup_count"] \in Nat
        /\ st["scan_count"] \in Nat /\ st["filter_checked"] \in Nat
    BY <1>1, CountersType
  <2>6. CASE x = s
    <3>1. /\ sst_stats'[x]["access_count"] = st["access_count"] + 1
          /\ sst_stats'[x]["point_lookup_count"] = st["point_lookup_count"] + 1
          /\ sst_stats'[x]["scan_count"] = st["scan_count"]
          /\ sst_stats'[x]["filter_checked"] = st["filter_checked"]
          /\ sst_stats'[x]["filter_rejected"] = st["filter_rejected"]
          /\ sst_stats'[x]["cache_hits"] = st["cache_hits"]
          /\ sst_stats'[x]["cache_misses"] = st["cache_misses"]
      BY <1>1, <2>1, <2>6, CountOf, CountersType
    <3> QED
      BY <2>3, <2>4, <2>5, <2>6, <3>1 DEF Ratios
  <2>7. CASE x # s
    <3>1. sst_stats'[x] = st
      BY <1>1, <2>1, <2>7 DEF Count, SimTypes
    <3> QED
      BY <2>3, <2>4, <2>7, <3>1 DEF Ratios
  <2> QED
    BY <2>6, <2>7
<1>4. CASE AfterLookup
  <2> DEFINE s == Head(op.cand)
             st == sst_stats[x]
  <2>1. /\ walk = None /\ walk' = None /\ pc = "lookup" /\ pc' = "candidate"
        /\ Count(s, IF op.seek THEN {"scan_count"} ELSE {})
    BY <1>4 DEF AfterLookup
  <2>2. s \in SSTs
    <3>1. op.cand # <<>> /\ op.cand \in Seq(SSTs)
      BY <2>1 DEF Inv, OpInv, SimTypes
    <3> QED
      BY <3>1
  <2>3. /\ Pending(x) = 0 /\ Pending(x)' = 0 /\ ~InFilter(x) /\ ~InFilter(x)'
        /\ (ToBeSought(x) <=> s = x) /\ ~ToBeSought(x)'
    BY <2>1 DEF Pending, InFilter, ToBeSought
  <2>4. st["scan_count"] \in Nat
    BY <1>1, CountersType
  <2> HIDE DEF s
  <2>5. CASE x = s
    <3>1. /\ sst_stats'[x]["access_count"] = st["access_count"]
          /\ sst_stats'[x]["point_lookup_count"] = st["point_lookup_count"]
          /\ sst_stats'[x]["scan_count"] \in {st["scan_count"], st["scan_count"] + 1}
          /\ sst_stats'[x]["filter_checked"] = st["filter_checked"]
          /\ sst_stats'[x]["filter_rejected"] = st["filter_rejected"]
          /\ sst_stats'[x]["cache_hits"] = st["cache_hits"]
          /\ sst_stats'[x]["cache_misses"] = st["cache_misses"]
      BY <1>1, <2>1, <2>2, <2>5, CountOf, CountersType
    <3> QED
      BY <1>1, <2>3, <2>4, <2>5, <3>1, CountersType DEF Ratios
  <2>6. CASE x # s
    <3>1. sst_stats'[x] = st
      BY <1>1, <2>1, <2>2, <2>6 DEF Count, SimTypes
    <3> QED
      BY <2>3, <2>6, <3>1 DEF Ratios
  <2> QED
    BY <2>5, <2>6
<1>5. CASE UNCHANGED allVars
  BY <1>5 DEF allVars, simVars, vars, stats, Ratios, Pending, InFilter, ToBeSought
<1>6. ASSUME NEW k \in Keys, NEW present \in BOOLEAN, NEW seek \in BOOLEAN,
             NextOp(k, present, seek)
      PROVE  UNCHANGED <<sst_stats, walk>> /\ pc' # "lookup" /\ walk = None
  BY <1>6 DEF NextOp, vars, stats, Inv, WalkInv
<1>7. ASSUME EndOp \/ Report \/ \E chosen \in Policies : Reapply(chosen)
      PROVE  UNCHANGED <<sst_stats, walk>> /\ pc' # "lookup" /\ walk = None
  BY <1>7 DEF EndOp, Report, Reapply, ApplyPolicy, vars, stats, Inv, WalkInv
<1> QED
  BY <1>2, <1>3, <1>4, <1>5, <1>6, <1>7 DEF SimNext, SimStep, Stopped

LEMMA RatiosStep ==
  ASSUME Inv, \A x \in SSTs : Ratios(x), [SimNext]_allVars
  PROVE  \A x \in SSTs : Ratios(x)'
<1> SUFFICES ASSUME NEW x \in SSTs PROVE Ratios(x)'
  OBVIOUS
<1>1. CASE InLookup
  BY <1>1, LookupKeepsRatios DEF InLookup
<1>2. CASE ~InLookup
  BY <1>2, LoopKeepsRatios
<1> QED
  BY <1>1, <1>2

(* What the policies and the report divide are ratios, for every file, with
   any number of lookups under any schemes. *)
THEOREM RatiosCorrect == SimSpec => []FileStatsAreRatios
<1> DEFINE R == \A x \in SSTs : Ratios(x)
<1>1. SimInit => Inv /\ R
  <2>1. SimInit => Inv
    BY InitInv
  <2>2. SimInit => R
    BY DEF SimInit, Init, SstCounters, Ratios, Pending, InFilter, ToBeSought
  <2> QED
    BY <2>1, <2>2
<1>2. Inv /\ R /\ [SimNext]_allVars => Inv' /\ R'
  BY InvStep, RatiosStep
<1>3. ASSUME Inv, R
      PROVE  FileStatsAreRatios
  <2> SUFFICES ASSUME NEW s \in SSTs
               PROVE  LET st == sst_stats[s]
                      IN  /\ st["filter_rejected"] <= st["filter_checked"]
                          /\ st["filter_checked"] <= st["access_count"]
                          /\ st["scan_count"] <= st["point_lookup_count"]
                          /\ pc \in {"next", "epoch", "done"} =>
                               /\ st["filter_checked"] = st["access_count"]
                               /\ st["filter_checked"] + st["filter_checked"]
                                    - st["filter_rejected"]
                                    <= st["cache_hits"] + st["cache_misses"]
    BY DEF FileStatsAreRatios
  <2>1. Ratios(s)
    BY <1>3
  <2>2. SimTypes
    BY <1>3 DEF Inv
  <2>3. pc \in {"next", "epoch", "done"} => ~InFilter(s) /\ Pending(s) = 0
    BY <1>3 DEF Inv, WalkInv, InFilter, Pending
  <2> QED
    BY <2>1, <2>2, <2>3, CountersType DEF Ratios
<1> QED
  BY <1>1, <1>2, <1>3, PTL DEF SimSpec

-----------------------------------------------------------------------------
(* The scheme of the file that is looked in, and the blocks that a phase is
   given to read under a scheme. *)
WalkScheme == active_scheme[walk.sst]
TagsOf(sc, ph) == IF ph = "filter" THEN FilterTags(sc) ELSE IndexTags(sc)
HasTag(tag, sc, ph) == \E n \in DOMAIN TagsOf(sc, ph) : TagsOf(sc, ph)[n] = tag

InPhase(ph) == walk # None /\ walk.phase = ph
InMetadata == InPhase("filter") \/ InPhase("index")

Missed(sc, ph) == phase_stats[sc][ph]["had_miss"]
MissedPhases == OverPhases(Missed)
MissedReads == OverPhases(LAMBDA sc, ph : Missed(sc, ph) * BlocksRead(sc, ph))
PhaseReads == OverPhases(LAMBDA sc, ph : PhaseCount(sc, ph) * BlocksRead(sc, ph))

PhaseTypes ==
  phase_stats \in [Schemes -> [Phases -> [Outcomes -> Nat]]]

(* A phase reads its own blocks, none twice, and its I/Os since miss0 are
   among them.  A block of it that was read and not missed had been read
   by an earlier phase, which counted the miss. *)
PhaseInv ==
  walk # None =>
    /\ walk.miss0 <= total_io_count
    /\ InMetadata =>
         /\ Len(walk.todo) <= BlocksRead(WalkScheme, walk.phase)
         /\ total_io_count - walk.miss0
              <= BlocksRead(WalkScheme, walk.phase) - Len(walk.todo)
         /\ \A n \in DOMAIN walk.todo :
              HasTag(walk.todo[n], WalkScheme, walk.phase)
         /\ Len(walk.todo) < BlocksRead(WalkScheme, walk.phase) =>
              HadMiss \/ Missed(WalkScheme, walk.phase) > 0
    /\ InPhase("data") => \A n \in DOMAIN walk.todo : walk.todo[n] = DataTag

(* What the cache holds, or is given, was missed in a phase of its scheme
   that has been counted, or in the one that runs. *)
WasMissed(tag) ==
  \A sc \in Schemes, ph \in Phases :
    HasTag(tag, sc, ph) =>
      \/ Missed(sc, ph) > 0
      \/ InMetadata /\ WalkScheme = sc /\ walk.phase = ph /\ HadMiss

ColdInv ==
  /\ \A b \in cached : WasMissed(b.tag)
  /\ incoming # None => WasMissed(incoming.tag)
  /\ SchemesStartCold

-----------------------------------------------------------------------------
MarksOf(c) == Marks([s \in SSTs |-> sst_stats[s][c]])

One(p) == IF p THEN 1 ELSE 0

(* Blocks the lookup has read that its phases do not account for yet; the
   data block is accounted for before it is read. *)
Reading ==
  IF InMetadata THEN BlocksRead(WalkScheme, walk.phase) - Len(walk.todo)
  ELSE IF InPhase("data") THEN 0 - Len(walk.todo) ELSE 0

(* I/Os that the counted phases, and the data blocks, have to account for. *)
Settled == IF InMetadata THEN walk.miss0 ELSE total_io_count
ToRead == IF InPhase("data") THEN Len(walk.todo) ELSE 0

SumsInv ==
  /\ \A c \in SstCounters : IsFiniteSet(MarksOf(c))
  /\ PhaseTotal("filter") = SumOfStat("filter_checked")
  /\ PhaseTotal("index") + One(InPhase("index"))
       = SumOfStat("filter_checked") - SumOfStat("filter_rejected")
  /\ SumOfStat("filter_checked") + One(InPhase("filter"))
       = SumOfStat("point_lookup_count")
  /\ SumOfStat("cache_misses") = total_io_count
  /\ SumOfStat("cache_hits") + SumOfStat("cache_misses")
       = PhaseTotal("index") + PhaseReads + Reading
  /\ MissedPhases <= Settled
  /\ Settled <= PhaseTotal("index") + MissedReads - ToRead
-----------------------------------------------------------------------------
LEMMA BlockCounts ==
  /\ BlocksRead("FULL", "filter") = 1 /\ BlocksRead("FULL", "index") = 1
  /\ BlocksRead("PARTITIONED", "filter") = 2 /\ BlocksRead("PARTITIONED", "index") = 2
  /\ BlocksRead("UNIFY", "filter") = 2 /\ BlocksRead("UNIFY", "index") = 0
<1>1. ASSUME NEW ph
      PROVE  BlocksRead("FULL", ph) = 1 /\ BlocksRead("PARTITIONED", ph) = 2
  BY DEF BlocksRead
<1>2. BlocksRead("UNIFY", "filter") = 2 /\ BlocksRead("UNIFY", "index") = 0
  BY DEF BlocksRead
<1> QED
  BY <1>1, <1>2

(* The blocks of each phase: as many as it reads, and no two phases have one
   in common, nor does any have the data block. *)
LEMMA TagsOfPhases ==
  /\ TagsOf("FULL", "filter") = <<1>> /\ TagsOf("FULL", "index") = <<2>>
  /\ TagsOf("PARTITIONED", "filter") = <<3, 4>>
  /\ TagsOf("PARTITIONED", "index") = <<5, 6>>
  /\ TagsOf("UNIFY", "filter") = <<7, 8>> /\ TagsOf("UNIFY", "index") = <<>>
<1>1. /\ FilterTags("FULL") = <<1>> /\ FilterTags("PARTITIONED") = <<3, 4>>
      /\ FilterTags("UNIFY") = <<7, 8>>
  BY DEF FilterTags
<1>2. /\ IndexTags("FULL") = <<2>> /\ IndexTags("PARTITIONED") = <<5, 6>>
      /\ IndexTags("UNIFY") = <<>>
  BY DEF IndexTags
<1> QED
  BY <1>1, <1>2 DEF TagsOf

LEMMA TagSets ==
  ASSUME NEW tag
  PROVE  /\ HasTag(tag, "FULL", "filter") <=> tag = 1
         /\ HasTag(tag, "FULL", "index") <=> tag = 2
         /\ HasTag(tag, "PARTITIONED", "filter") <=> tag \in {3, 4}
         /\ HasTag(tag, "PARTITIONED", "index") <=> tag \in {5, 6}
         /\ HasTag(tag, "UNIFY", "filter") <=> tag \in {7, 8}
         /\ ~HasTag(tag, "UNIFY", "index")
<1>1. ASSUME NEW a
      PROVE  (\E n \in DOMAIN <<a>> : <<a>>[n] = tag) <=> tag = a
  <2>1. DOMAIN <<a>> = {1} /\ <<a>>[1] = a
    OBVIOUS
  <2> QED
    BY <2>1
<1>2. ASSUME NEW a, NEW b
      PROVE  (\E n \in DOMAIN <<a, b>> : <<a, b>>[n] = tag) <=> tag \in {a, b}
  <2>1. DOMAIN <<a, b>> = {1, 2} /\ <<a, b>>[1] = a /\ <<a, b>>[2] = b
    OBVIOUS
  <2> QED
    BY <2>1
<1>3. ~\E n \in DOMAIN <<>> : <<>>[n] = tag
  OBVIOUS
<1>4. /\ HasTag(tag, "FULL", "filter") <=> tag = 1
      /\ HasTag(tag, "FULL", "index") <=> tag = 2
  BY <1>1, TagsOfPhases, Zenon DEF HasTag
<1>5. /\ HasTag(tag, "PARTITIONED", "filter") <=> tag \in {3, 4}
      /\ HasTag(tag, "PARTITIONED", "index") <=> tag \in {5, 6}
      /\ HasTag(tag, "UNIFY", "filter") <=> tag \in {7, 8}
  <2>1. /\ HasTag(tag, "PARTITIONED", "filter")
              <=> \E n \in DOMAIN <<3, 4>> : <<3, 4>>[n] = tag
        /\ HasTag(tag, "PARTITIONED", "index")
              <=> \E n \in DOMAIN <<5, 6>> : <<5, 6>>[n] = tag
        /\ HasTag(tag, "UNIFY", "filter")
              <=> \E n \in DOMAIN <<7, 8>> : <<7, 8>>[n] = tag
    BY TagsOfPhases, Zenon DEF HasTag
  <2> QED
    BY <1>2, <2>1
<1>6. ~HasTag(tag, "UNIFY", "index")
  BY <1>3, TagsOfPhases, Zenon DEF HasTag
<1> QED
  BY <1>4, <1>5, <1>6

LEMMA PhasesShareNoBlock ==
  ASSUME NEW sc \in Schemes, NEW ph \in Phases
  PROVE  /\ BlocksRead(sc, ph) \in Nat /\ Len(TagsOf(sc, ph)) = BlocksRead(sc, ph)
         /\ ~HasTag(DataTag, sc, ph)
         /\ \A tag, tc, tp :
              HasTag(tag, sc, ph) /\ tc \in Schemes /\ tp \in Phases
                /\ HasTag(tag, tc, tp) => tc = sc /\ tp = ph
<1>1. /\ sc = "FULL" \/ sc = "PARTITIONED" \/ sc = "UNIFY"
      /\ ph = "filter" \/ ph = "index"
  BY DEF Schemes, Phases
<1>2. BlocksRead(sc, ph) \in Nat
  BY <1>1, BlockCounts
<1>3. Len(TagsOf(sc, ph)) = BlocksRead(sc, ph)
  <2>1. /\ Len(<<1>>) = 1 /\ Len(<<2>>) = 1 /\ Len(<<3, 4>>) = 2 /\ Len(<<5, 6>>) = 2
        /\ Len(<<7, 8>>) = 2 /\ Len(<<>>) = 0
    OBVIOUS
  <2> QED
    BY <1>1, <2>1, TagsOfPhases, BlockCounts, Zenon
<1>4. ~HasTag(DataTag, sc, ph)
  BY <1>1, TagSets DEF DataTag
<1>5. ASSUME NEW tag, NEW tc \in Schemes, NEW tp \in Phases,
             HasTag(tag, sc, ph), HasTag(tag, tc, tp)
      PROVE  tc = sc /\ tp = ph
  <2>1. /\ tc = "FULL" \/ tc = "PARTITIONED" \/ tc = "UNIFY"
        /\ tp = "filter" \/ tp = "index"
    BY DEF Schemes, Phases
  <2> QED
    BY <1>1, <1>5, <2>1, TagSets
<1> QED
  BY <1>2, <1>3, <1>4, <1>5

-----------------------------------------------------------------------------
(* Recording a phase counts one outcome more. *)
LEMMA RecordEffect ==
  ASSUME PhaseTypes, WalkScheme \in Schemes, NEW ph \in Phases, NEW miss \in BOOLEAN,
         RecordPhase(ph, miss)
  PROVE  /\ PhaseTypes'
         /\ \A sc \in Schemes, q \in Phases, o \in Outcomes :
              phase_stats'[sc][q][o] = phase_stats[sc][q][o] +
                One(sc = WalkScheme /\ q = ph /\ o = Outcome(miss))
<1>1. PICK s \in Schemes, out \in Outcomes : s = WalkScheme /\ out = Outcome(miss)
  BY DEF Outcome, Outcomes
<1>2. phase_stats' = [phase_stats EXCEPT ![s][ph][out] = @ + 1]
  BY <1>1 DEF RecordPhase, WalkScheme
<1>3. /\ PhaseTypes'
      /\ phase_stats'[s][ph][out] = phase_stats[s][ph][out] + 1
      /\ \A sc \in Schemes, q \in Phases, o \in Outcomes :
           ~(sc = s /\ q = ph /\ o = out) =>
             phase_stats'[sc][q][o] = phase_stats[sc][q][o]
  BY <1>2 DEF PhaseTypes
<1>4. ASSUME NEW sc \in Schemes, NEW q \in Phases, NEW o \in Outcomes
      PROVE  phase_stats'[sc][q][o] = phase_stats[sc][q][o] +
                One(sc = s /\ q = ph /\ o = out)
  <2>1. phase_stats[sc][q][o] \in Nat
    BY DEF PhaseTypes
  <2>2. CASE sc = s /\ q = ph /\ o = out
    BY <1>3, <2>2 DEF One
  <2>3. CASE ~(sc = s /\ q = ph /\ o = out)
    BY <1>3, <2>1, <2>3 DEF One
  <2> QED
    BY <2>2, <2>3
<1> QED
  BY <1>1, <1>3, <1>4
LEMMA SumTypes ==
  ASSUME PhaseTypes
  PROVE  /\ PhaseTotal("filter") \in Nat /\ PhaseTotal("index") \in Nat
         /\ PhaseReads \in Nat /\ MissedPhases \in Nat /\ MissedReads \in Nat
<1>1. \A sc \in Schemes, q \in Phases :
        /\ PhaseCount(sc, q) \in Nat /\ Missed(sc, q) \in Nat
        /\ BlocksRead(sc, q) \in Nat
  BY PhasesShareNoBlock DEF PhaseTypes, PhaseCount, Missed, Outcomes
<1>2. \A sc \in Schemes, q \in Phases :
        /\ PhaseCount(sc, q) * BlocksRead(sc, q) \in Nat
        /\ Missed(sc, q) * BlocksRead(sc, q) \in Nat
  BY <1>1
<1> QED
  BY <1>1, <1>2
     DEF PhaseTotal, PhaseReads, MissedPhases, MissedReads, OverPhases, OverSchemes,
         Schemes, Phases

(* Recording a phase adds it, its reads and its miss to the sums. *)
LEMMA RecordSums ==
  ASSUME PhaseTypes, WalkScheme \in Schemes, NEW ph \in Phases, NEW miss \in BOOLEAN,
         RecordPhase(ph, miss)
  PROVE  /\ \A q \in Phases : PhaseTotal(q)' = PhaseTotal(q) + One(q = ph)
         /\ PhaseReads' = PhaseReads + BlocksRead(WalkScheme, ph)
         /\ MissedPhases' = MissedPhases + One(miss)
         /\ MissedReads' =
              MissedReads + (IF miss THEN BlocksRead(WalkScheme, ph) ELSE 0)
<1> DEFINE Old(sc, q, o) == phase_stats[sc][q][o]
           New(sc, q, o) == phase_stats'[sc][q][o]
<1>1. PICK s \in Schemes, out \in Outcomes :
        s = WalkScheme /\ out = Outcome(miss) /\ (miss <=> out = "had_miss")
  BY DEF Outcome, Outcomes
<1>2. \A sc \in Schemes, q \in Phases, o \in Outcomes :
        /\ Old(sc, q, o) \in Nat
        /\ New(sc, q, o) = Old(sc, q, o) + One(sc = s /\ q = ph /\ o = out)
  BY <1>1, RecordEffect DEF PhaseTypes
<1>3. /\ \A q : PhaseTotal(q)' =
             (New("FULL", q, "all_hit") + New("FULL", q, "had_miss"))
             + (New("PARTITIONED", q, "all_hit") + New("PARTITIONED", q, "had_miss"))
             + (New("UNIFY", q, "all_hit") + New("UNIFY", q, "had_miss"))
      /\ PhaseReads' =
             ((New("FULL", "filter", "all_hit") + New("FULL", "filter", "had_miss")) * 1
              + (New("FULL", "index", "all_hit") + New("FULL", "index", "had_miss")) * 1)
             + ((New("PARTITIONED", "filter", "all_hit")
                   + New("PARTITIONED", "filter", "had_miss")) * 2
                + (New("PARTITIONED", "index", "all_hit")
                     + New("PARTITIONED", "index", "had_miss")) * 2)
             + ((New("UNIFY", "filter", "all_hit") + New("UNIFY", "filter", "had_miss")) * 2
                + (New("UNIFY", "index", "all_hit")
                     + New("UNIFY", "index", "had_miss")) * 0)
      /\ MissedPhases' =
             (New("FULL", "filter", "had_miss") + New("FULL", "index", "had_miss"))
             + (New("PARTITIONED", "filter", "had_miss")
                  + New("PARTITIONED", "index", "had_miss"))
             + (New("UNIFY", "filter", "had_miss") + New("UNIFY", "index", "had_miss"))
      /\ MissedReads' =
             (New("FULL", "filter", "had_miss") * 1 + New("FULL", "index", "had_miss") * 1)
             + (New("PARTITIONED", "filter", "had_miss") * 2
                  + New("PARTITIONED", "index", "had_miss") * 2)
             + (New("UNIFY", "filter", "had_miss") * 2
                  + New("UNIFY", "index", "had_miss") * 0)
  BY BlockCounts, Zenon
     DEF PhaseTotal, PhaseReads, MissedPhases, MissedReads, Missed, PhaseCount,
         OverPhases, OverSchemes
<1>4. /\ \A q : PhaseTotal(q) =
             (Old("FULL", q, "all_hit") + Old("FULL", q, "had_miss"))
             + (Old("PARTITIONED", q, "all_hit") + Old("PARTITIONED", q, "had_miss"))
             + (Old("UNIFY", q, "all_hit") + Old("UNIFY", q, "had_miss"))
      /\ PhaseReads =
             ((Old("FULL", "filter", "all_hit") + Old("FULL", "filter", "had_miss")) * 1
              + (Old("FULL", "index", "all_hit") + Old("FULL", "index", "had_miss")) * 1)
             + ((Old("PARTITIONED", "filter", "all_hit")
                   + Old("PARTITIONED", "filter", "had_miss")) * 2
                + (Old("PARTITIONED", "index", "all_hit")
                     + Old("PARTITIONED", "index", "had_miss")) * 2)
             + ((Old("UNIFY", "filter", "all_hit") + Old("UNIFY", "filter", "had_miss")) * 2
                + (Old("UNIFY", "index", "all_hit")
                     + Old("UNIFY", "index", "had_miss")) * 0)
      /\ MissedPhases =
             (Old("FULL", "filter", "had_miss") + Old("FULL", "index", "had_miss"))
             + (Old("PARTITIONED", "filter", "had_miss")
                  + Old("PARTITIONED", "index", "had_miss"))
             + (Old("UNIFY", "filter", "had_miss") + Old("UNIFY", "index", "had_miss"))
      /\ MissedReads =
             (Old("FULL", "filter", "had_miss") * 1 + Old("FULL", "index", "had_miss") * 1)
             + (Old("PARTITIONED", "filter", "had_miss") * 2
                  + Old("PARTITIONED", "index", "had_miss") * 2)
             + (Old("UNIFY", "filter", "had_miss") * 2
                  + Old("UNIFY", "index", "had_miss") * 0)
  BY BlockCounts, Zenon
     DEF PhaseTotal, PhaseReads, MissedPhases, MissedReads, Missed, PhaseCount,
         OverPhases, OverSchemes
<1> HIDE DEF Old, New
<1>5. /\ s = "FULL" \/ s = "PARTITIONED" \/ s = "UNIFY"
      /\ ph = "filter" \/ ph = "index"
      /\ out = "all_hit" \/ out = "had_miss"
  BY DEF Schemes, Phases, Outcomes
<1>6. ASSUME NEW q \in Phases
      PROVE  PhaseTotal(q)' = PhaseTotal(q) + One(q = ph)
  BY <1>2, <1>3, <1>4, <1>5 DEF One, Schemes, Phases, Outcomes
<1>7. /\ PhaseReads' = PhaseReads + BlocksRead(s, ph)
      /\ MissedPhases' = MissedPhases + One(miss)
      /\ MissedReads' = MissedReads + (IF miss THEN BlocksRead(s, ph) ELSE 0)
  BY <1>1, <1>2, <1>3, <1>4, <1>5, BlockCounts DEF One, Schemes, Phases, Outcomes
<1> QED
  BY <1>1, <1>6, <1>7
-----------------------------------------------------------------------------
LEMMA MarkOf ==
  ASSUME NEW S, NEW f \in [S -> Nat], NEW p
  PROVE  p \in Marks(f) <=> \E x \in S, n \in Nat : p = <<x, n>> /\ 1 <= n /\ n <= f[x]
<1>1. p \in Marks(f) <=> \E x \in S : \E y \in {x}, n \in 1..f[x] : p = <<y, n>>
  BY DEF Marks
<1>2. \A x \in S : f[x] \in Nat
  OBVIOUS
<1> QED
  BY <1>1, <1>2

(* One more for one argument is one more in the sum. *)
LEMMA OneMark ==
  ASSUME NEW S, NEW f \in [S -> Nat], NEW x \in S, NEW g \in [S -> Nat],
         g[x] = f[x] + 1, \A y \in S \ {x} : g[y] = f[y], IsFiniteSet(Marks(f))
  PROVE  /\ IsFiniteSet(Marks(g))
         /\ Cardinality(Marks(f)) \in Nat
         /\ Cardinality(Marks(g)) = Cardinality(Marks(f)) + 1
<1> DEFINE m == <<x, f[x] + 1>>
<1>1. f[x] \in Nat
  OBVIOUS
<1>2. m \notin Marks(f)
  <2> SUFFICES ASSUME m \in Marks(f) PROVE FALSE
    OBVIOUS
  <2>1. PICK y \in S, n \in Nat : m = <<y, n>> /\ n <= f[y]
    BY MarkOf
  <2>2. y = x /\ n = f[x] + 1
    BY <2>1
  <2> QED
    BY <1>1, <2>1, <2>2
<1>3. ASSUME NEW p
      PROVE  p \in Marks(g) <=> p \in Marks(f) \cup {m}
  <2>1. ASSUME p \in Marks(g) PROVE p \in Marks(f) \cup {m}
    <3>1. PICK y \in S, n \in Nat : p = <<y, n>> /\ 1 <= n /\ n <= g[y]
      BY <2>1, MarkOf
    <3>2. CASE y = x /\ n = f[x] + 1
      BY <3>1, <3>2
    <3>3. CASE ~(y = x /\ n = f[x] + 1)
      <4>1. n <= f[y]
        <5>1. CASE y = x
          BY <1>1, <3>1, <3>3, <5>1
        <5>2. CASE y # x
          BY <3>1, <5>2
        <5> QED
          BY <5>1, <5>2
      <4> QED
        BY <3>1, <4>1, MarkOf
    <3> QED
      BY <3>2, <3>3
  <2>2. ASSUME p \in Marks(f) PROVE p \in Marks(g)
    <3>1. PICK y \in S, n \in Nat : p = <<y, n>> /\ 1 <= n /\ n <= f[y]
      BY <2>2, MarkOf
    <3>2. n <= g[y]
      <4>1. CASE y = x
        BY <1>1, <3>1, <4>1
      <4>2. CASE y # x
        BY <3>1, <4>2
      <4> QED
        BY <4>1, <4>2
    <3> QED
      BY <3>1, <3>2, MarkOf
  <2>3. m \in Marks(g)
    <3>1. f[x] + 1 \in Nat /\ 1 <= f[x] + 1 /\ f[x] + 1 <= g[x]
      BY <1>1
    <3> QED
      BY <3>1, MarkOf
  <2> QED
    BY <2>1, <2>2, <2>3
<1>4. Marks(g) = Marks(f) \cup {m}
  BY <1>3
<1> HIDE DEF m
<1> QED
  BY <1>2, <1>4, FS_AddElement, FS_CardinalityType

LEMMA CountSum ==
  ASSUME SimTypes, NEW s \in SSTs, NEW C, Count(s, C),
         NEW c \in SstCounters, IsFiniteSet(MarksOf(c))
  PROVE  /\ IsFiniteSet(MarksOf(c)')
         /\ SumOfStat(c) \in Nat
         /\ SumOfStat(c)' = SumOfStat(c) + One(c \in C)
<1> DEFINE f == [x \in SSTs |-> sst_stats[x][c]]
           g == [x \in SSTs |-> sst_stats'[x][c]]
<1>1. \A x \in SSTs : /\ sst_stats[x][c] \in Nat /\ sst_stats'[x][c] \in Nat
                      /\ sst_stats'[x][c]
                           = sst_stats[x][c] + (IF x = s /\ c \in C THEN 1 ELSE 0)
  BY CountType DEF SimTypes
<1>2. /\ MarksOf(c) = Marks(f) /\ MarksOf(c)' = Marks(g)
      /\ SumOfStat(c) = Cardinality(Marks(f)) /\ SumOfStat(c)' = Cardinality(Marks(g))
  BY DEF MarksOf, SumOfStat
<1>3. f \in [SSTs -> Nat] /\ g \in [SSTs -> Nat]
  BY <1>1
<1>4. \A x \in SSTs : f[x] = sst_stats[x][c] /\ g[x] = sst_stats'[x][c]
  OBVIOUS
<1>5. CASE c \in C
  <2>1. g[s] = f[s] + 1 /\ \A y \in SSTs \ {s} : g[y] = f[y]
    BY <1>1, <1>4, <1>5
  <2> HIDE DEF f, g
  <2> QED
    BY <1>2, <1>3, <1>5, <2>1, OneMark DEF One
<1>6. CASE c \notin C
  <2>1. f = g
    BY <1>1, <1>6
  <2>2. Cardinality(Marks(f)) \in Nat
    BY <1>2, FS_CardinalityType
  <2> HIDE DEF f, g
  <2> QED
    BY <1>2, <1>6, <2>1, <2>2 DEF One
<1> QED
  BY <1>5, <1>6
-----------------------------------------------------------------------------
(* What a lookup is, and in which phase. *)
LEMMA WalkTypes ==
  ASSUME Inv, walk # None
  PROVE  /\ walk \in Walk /\ walk.sst \in SSTs /\ WalkScheme \in Schemes
         /\ walk.miss0 \in Nat /\ total_io_count \in Nat
         /\ walk.todo \in Seq(1..DataTag) /\ Len(walk.todo) \in Nat
         /\ InMetadata <=> walk.phase \in Phases
         /\ InPhase("data") <=> ~InMetadata
         /\ ~(InPhase("filter") /\ InPhase("index"))
<1>1. /\ walk \in Walk /\ walk.sst \in SSTs /\ WalkScheme \in Schemes
      /\ walk.todo \in Seq(1..DataTag)
  BY WalkFields DEF WalkScheme
<1>2. walk.miss0 \in Nat /\ walk.phase \in Phases \cup {"data"} /\ total_io_count \in Nat
  BY <1>1 DEF Walk, Inv, SimTypes
<1>3. Len(walk.todo) \in Nat
  BY <1>1
<1>4. /\ InMetadata <=> walk.phase \in Phases
      /\ InPhase("data") <=> ~InMetadata
      /\ ~(InPhase("filter") /\ InPhase("index"))
  BY <1>2 DEF InMetadata, InPhase, Phases
<1> QED
  BY <1>1, <1>2, <1>3, <1>4

(* Reading a block takes it from what the phase has to read. *)
LEMMA AccessEffect ==
  ASSUME Inv, AccessHit \/ AccessMiss
  PROVE  /\ walk # None /\ walk' # None /\ walk.todo # <<>>
         /\ walk'.sst = walk.sst /\ walk'.phase = walk.phase /\ walk'.miss0 = walk.miss0
         /\ Len(walk.todo) \in Nat \ {0} /\ Len(walk'.todo) = Len(walk.todo) - 1
         /\ \A n \in DOMAIN walk'.todo :
              n + 1 \in DOMAIN walk.todo /\ walk'.todo[n] = walk.todo[n + 1]
         /\ 1 \in DOMAIN walk.todo /\ NextBlock.tag = walk.todo[1]
         /\ incoming = None /\ UNCHANGED <<cached, active_scheme, phase_stats>>
         /\ WalkScheme' = WalkScheme /\ InMetadata' = InMetadata
         /\ \A ph : InPhase(ph)' = InPhase(ph)
<1>1. /\ walk # None /\ walk.todo # <<>> /\ incoming = None
      /\ walk' = [walk EXCEPT !.todo = Tail(@)]
      /\ UNCHANGED <<cached, active_scheme, phase_stats>>
  BY DEF AccessHit, AccessMiss, AtBlock, Miss, cacheVars
<1>2. /\ walk' # None /\ walk'.todo = Tail(walk.todo)
      /\ walk'.sst = walk.sst /\ walk'.phase = walk.phase /\ walk'.miss0 = walk.miss0
      /\ Len(walk.todo) \in Nat /\ Len(walk'.todo) = Len(walk.todo) - 1
  BY <1>1, TodoTail
<1>3. walk.todo \in Seq(1..DataTag)
  BY <1>1, WalkTypes
<1>4. \A n \in DOMAIN walk'.todo :
        n + 1 \in DOMAIN walk.todo /\ walk'.todo[n] = walk.todo[n + 1]
  BY <1>1, <1>2, <1>3, TailOf
<1>5. 1 \in DOMAIN walk.todo /\ Len(walk.todo) # 0 /\ Head(walk.todo) = walk.todo[1]
  BY <1>1, <1>3
<1>6. NextBlock.tag = Head(walk.todo)
  BY DEF NextBlock, BlockFor, CacheKey
<1>7. /\ WalkScheme' = WalkScheme /\ InMetadata' = InMetadata
      /\ \A ph : InPhase(ph)' = InPhase(ph)
  BY <1>1, <1>2 DEF WalkScheme, InMetadata, InPhase
<1> QED
  BY <1>1, <1>2, <1>4, <1>5, <1>6, <1>7

(* A metadata phase that ends counts a miss if and only if it did I/O; the
   index phase of UNIFY, which reads nothing, has none to hide. *)
LEMMA PhaseRecorded ==
  ASSUME Inv, PhaseInv, FilterRejects \/ FilterPasses \/ EndIndex
  PROVE  /\ walk # None /\ Len(walk.todo) = 0 /\ incoming = None
         /\ InMetadata /\ walk.phase \in Phases
         /\ RecordPhase(walk.phase, HadMiss)
         /\ UNCHANGED <<cacheVars, active_scheme, total_io_count>>
<1>1. /\ walk # None /\ walk.todo = <<>> /\ incoming = None
      /\ UNCHANGED <<cacheVars, active_scheme, total_io_count>>
  BY DEF FilterRejects, FilterPasses, EndIndex, PhaseDone
<1>2. Len(walk.todo) = 0
  BY <1>1
<1>3. CASE FilterRejects \/ FilterPasses
  BY <1>1, <1>2, <1>3
     DEF FilterRejects, FilterPasses, PhaseDone, InMetadata, InPhase, Phases
<1>4. CASE EndIndex
  <2>1. walk.phase = "index" /\ InMetadata /\ walk.phase \in Phases
    BY <1>1, <1>4 DEF EndIndex, PhaseDone, InMetadata, InPhase, Phases
  <2>2. RecordPhase("index", WalkScheme # "UNIFY" /\ HadMiss)
    BY <1>4 DEF EndIndex, WalkScheme
  <2>3. Outcome(WalkScheme # "UNIFY" /\ HadMiss) = Outcome(HadMiss)
    <3>1. CASE WalkScheme = "UNIFY"
      <4>1. total_io_count - walk.miss0 <= 0
        BY <1>1, <1>2, <2>1, <3>1, BlockCounts DEF PhaseInv
      <4>2. ~HadMiss
        BY <1>1, <4>1, WalkTypes DEF HadMiss
      <4> QED
        BY <3>1, <4>2 DEF Outcome
    <3>2. CASE WalkScheme # "UNIFY"
      BY <3>2 DEF Outcome
    <3> QED
      BY <3>1, <3>2
  <2>4. RecordPhase("index", HadMiss)
    BY <2>2, <2>3 DEF RecordPhase
  <2> QED
    BY <1>1, <1>2, <2>1, <2>4
<1> QED
  BY <1>3, <1>4

(* The phases that come after. *)
LEMMA PhaseBegins ==
  ASSUME Inv, FilterPasses \/ EndIndex
  PROVE  /\ walk # None /\ walk' # None
         /\ walk'.sst = walk.sst /\ WalkScheme' = WalkScheme
         /\ FilterPasses =>
              /\ walk.phase = "filter" /\ walk'.phase = "index"
              /\ walk'.miss0 = total_io_count /\ walk'.todo = TagsOf(WalkScheme, "index")
         /\ EndIndex =>
              /\ walk.phase = "index" /\ walk'.phase = "data"
              /\ walk'.miss0 = walk.miss0 /\ walk'.todo = <<DataTag>>
<1>1. /\ walk # None /\ active_scheme' = active_scheme
  BY DEF FilterPasses, EndIndex, PhaseDone
<1>2. walk \in Walk /\ WalkScheme \in Schemes /\ total_io_count \in Nat
  BY <1>1, WalkTypes
<1>3. IndexTags(WalkScheme) \in Seq(1..DataTag) /\ <<DataTag>> \in Seq(1..DataTag)
  <2>1. <<DataTag>> \in Seq(1..DataTag)
    BY DEF DataTag
  <2> QED
    BY <1>2, <2>1, PhaseTags
<1>4. CASE FilterPasses
  <2>1. /\ walk' = [walk EXCEPT !.phase = "index", !.miss0 = total_io_count,
                                !.todo = IndexTags(WalkScheme)]
        /\ walk.phase = "filter"
    BY <1>4 DEF FilterPasses, PhaseDone, WalkScheme, Mark
  <2>2. /\ walk' \in Walk /\ walk'.sst = walk.sst /\ walk'.phase = "index"
        /\ walk'.miss0 = total_io_count /\ walk'.todo = IndexTags(WalkScheme)
    BY <1>2, <1>3, <2>1 DEF Walk, Phases
  <2>3. walk' # None /\ WalkScheme' = WalkScheme
    BY <1>1, <2>2, IOAssumption DEF WalkScheme
  <2>4. TagsOf(WalkScheme, "index") = IndexTags(WalkScheme)
    BY DEF TagsOf
  <2>5. ~EndIndex
    BY <2>1 DEF EndIndex, PhaseDone
  <2> QED
    BY <1>1, <2>1, <2>2, <2>3, <2>4, <2>5
<1>5. CASE EndIndex
  <2>1. /\ walk' = [walk EXCEPT !.phase = "data", !.todo = <<DataTag>>]
        /\ walk.phase = "index"
    BY <1>5 DEF EndIndex, PhaseDone
  <2>2. /\ walk' \in Walk /\ walk'.sst = walk.sst /\ walk'.phase = "data"
        /\ walk'.miss0 = walk.miss0 /\ walk'.todo = <<DataTag>>
    BY <1>2, <1>3, <2>1 DEF Walk, Phases
  <2>3. walk' # None /\ WalkScheme' = WalkScheme
    BY <1>1, <2>2, IOAssumption DEF WalkScheme
  <2>4. ~FilterPasses
    BY <2>1 DEF FilterPasses, PhaseDone
  <2> QED
    BY <1>1, <2>1, <2>2, <2>3, <2>4
<1> QED
  BY <1>4, <1>5
-----------------------------------------------------------------------------
(* A hit is on a block that was missed before, which is counted already or
   will be with the phase that runs. *)
LEMMA PhaseStep ==
  ASSUME Inv, PhaseTypes, PhaseInv, ColdInv, LookupStep
  PROVE  PhaseTypes' /\ PhaseInv'
<1>1. CASE AccessHit \/ AccessMiss
  <2> DEFINE B == BlocksRead(WalkScheme, walk.phase)
  <2>1. /\ walk # None /\ walk' # None
        /\ walk'.sst = walk.sst /\ walk'.phase = walk.phase /\ walk'.miss0 = walk.miss0
        /\ Len(walk.todo) \in Nat \ {0} /\ Len(walk'.todo) = Len(walk.todo) - 1
        /\ \A n \in DOMAIN walk'.todo :
             n + 1 \in DOMAIN walk.todo /\ walk'.todo[n] = walk.todo[n + 1]
        /\ 1 \in DOMAIN walk.todo /\ NextBlock.tag = walk.todo[1]
        /\ phase_stats' = phase_stats
        /\ WalkScheme' = WalkScheme /\ InMetadata' = InMetadata
        /\ InPhase("data")' = InPhase("data")
    BY <1>1, AccessEffect
  <2>2. /\ walk.miss0 \in Nat /\ total_io_count \in Nat /\ WalkScheme \in Schemes
        /\ InMetadata <=> walk.phase \in Phases
    BY <2>1, WalkTypes
  <2>3. \/ AccessHit /\ total_io_count' = total_io_count /\ NextBlock \in cached
        \/ AccessMiss /\ total_io_count' = total_io_count + 1
    BY <1>1 DEF AccessHit, AccessMiss
  <2>4. walk'.miss0 <= total_io_count'
    BY <2>1, <2>2, <2>3 DEF PhaseInv
  <2>5. ASSUME InMetadata
        PROVE  /\ Len(walk'.todo) <= B
               /\ total_io_count' - walk'.miss0 <= B - Len(walk'.todo)
               /\ \A n \in DOMAIN walk'.todo : HasTag(walk'.todo[n], WalkScheme, walk.phase)
               /\ HadMiss' \/ Missed(WalkScheme, walk.phase)' > 0
    <3>1. B \in Nat
      BY <2>2, <2>5, PhasesShareNoBlock
    <3>2. /\ Len(walk.todo) <= B
          /\ total_io_count - walk.miss0 <= B - Len(walk.todo)
          /\ \A n \in DOMAIN walk.todo : HasTag(walk.todo[n], WalkScheme, walk.phase)
      BY <2>1, <2>5 DEF PhaseInv
    <3> HIDE DEF B
    <3>3. /\ Len(walk'.todo) <= B
          /\ total_io_count' - walk'.miss0 <= B - Len(walk'.todo)
      <4>1. PICK b, m, t, n \in Nat :
              b = B /\ m = walk.miss0 /\ t = total_io_count /\ n = Len(walk.todo)
        BY <2>1, <2>2, <3>1
      <4>2. /\ walk'.miss0 = m /\ Len(walk'.todo) = n - 1
            /\ total_io_count' = t \/ total_io_count' = t + 1
        BY <2>1, <2>3, <4>1
      <4>3. n <= b /\ t - m <= b - n
        BY <3>2, <4>1
      <4>4. PICK u \in Nat : u = total_io_count' /\ (u = t \/ u = t + 1)
        BY <4>1, <4>2
      <4>5. n - 1 <= b /\ u - m <= b - (n - 1)
        <5>1. u = t \/ u = t + 1
          BY <4>4
        <5>2. u - m <= (t - m) + 1
          BY <5>1
        <5>3. (b - n) + 1 = b - (n - 1)
          OBVIOUS
        <5> QED
          BY <4>3, <5>2, <5>3
      <4> QED
        BY <4>1, <4>2, <4>4, <4>5
    <3>4. \A n \in DOMAIN walk'.todo : HasTag(walk'.todo[n], WalkScheme, walk.phase)
      BY <2>1, <3>2
    <3>5. CASE AccessMiss /\ total_io_count' = total_io_count + 1
      <4>1. total_io_count' > walk'.miss0
        BY <2>1, <2>2, <3>5 DEF PhaseInv
      <4> QED
        BY <3>3, <3>4, <4>1 DEF HadMiss
    <3>6. CASE total_io_count' = total_io_count /\ NextBlock \in cached
      <4>1. HasTag(NextBlock.tag, WalkScheme, walk.phase)
        BY <2>1, <3>2
      <4>2. WasMissed(NextBlock.tag)
        BY <3>6 DEF ColdInv
      <4>3. HadMiss \/ Missed(WalkScheme, walk.phase) > 0
        BY <2>2, <2>5, <4>1, <4>2 DEF WasMissed
      <4>4. Missed(WalkScheme, walk.phase)' = Missed(WalkScheme, walk.phase)
            /\ HadMiss' = HadMiss
        BY <2>1, <3>6 DEF Missed, HadMiss
      <4> QED
        BY <3>3, <3>4, <4>3, <4>4
    <3> QED
      BY <2>3, <3>5, <3>6
  <2>6. ASSUME InPhase("data")
        PROVE  \A n \in DOMAIN walk'.todo : walk'.todo[n] = DataTag
    BY <2>1, <2>6 DEF PhaseInv
  <2>7. PhaseInv'
    BY <2>1, <2>4, <2>5, <2>6 DEF PhaseInv
  <2> QED
    BY <2>1, <2>7 DEF PhaseTypes
<1>2. CASE CacheInsert
  BY <1>2 DEF CacheInsert, stats, PhaseTypes, PhaseInv, InMetadata, InPhase, WalkScheme,
              HadMiss, Missed
<1>3. CASE FilterRejects \/ FilterPasses \/ EndIndex
  <2>1. /\ walk # None /\ walk.phase \in Phases /\ RecordPhase(walk.phase, HadMiss)
        /\ total_io_count' = total_io_count
    BY <1>3, PhaseRecorded
  <2>2. WalkScheme \in Schemes /\ walk.miss0 \in Nat /\ total_io_count \in Nat
    BY <2>1, WalkTypes
  <2>3. PhaseTypes'
    <3>1. HadMiss \in BOOLEAN
      BY DEF HadMiss
    <3> QED
      BY <2>1, <2>2, <3>1, RecordEffect
  <2>4. CASE FilterRejects
    BY <2>3, <2>4 DEF FilterRejects, PhaseInv
  <2>5. CASE FilterPasses
    <3> DEFINE x == TagsOf(WalkScheme, "index")
    <3>1. /\ walk'.phase = "index" /\ walk'.miss0 = total_io_count /\ walk'.todo = x
          /\ walk' # None /\ WalkScheme' = WalkScheme
      BY <2>5, PhaseBegins
    <3>2. /\ BlocksRead(WalkScheme, "index") \in Nat
          /\ Len(x) = BlocksRead(WalkScheme, "index")
      BY <2>2, PhasesShareNoBlock DEF Phases
    <3>3. \A n \in DOMAIN x : HasTag(x[n], WalkScheme, "index")
      BY DEF HasTag
    <3> HIDE DEF x
    <3>4. ~InPhase("data")'
      BY <3>1 DEF InPhase
    <3> QED
      BY <2>1, <2>2, <2>3, <3>1, <3>2, <3>3, <3>4 DEF PhaseInv
  <2>6. CASE EndIndex
    <3>1. /\ walk'.phase = "data" /\ walk'.miss0 = walk.miss0 /\ walk'.todo = <<DataTag>>
          /\ walk' # None
      BY <2>6, PhaseBegins
    <3>2. ~InMetadata'
      BY <3>1 DEF InMetadata, InPhase
    <3>3. \A n \in DOMAIN <<DataTag>> : <<DataTag>>[n] = DataTag
      OBVIOUS
    <3> QED
      BY <2>1, <2>3, <3>1, <3>2, <3>3 DEF PhaseInv
  <2> QED
    BY <1>3, <2>4, <2>5, <2>6
<1>4. CASE EndLookup
  BY <1>4 DEF EndLookup, stats, PhaseTypes, PhaseInv
<1> QED
  BY <1>1, <1>2, <1>3, <1>4 DEF LookupStep

(* A block comes into the cache in a phase that misses, and in no other. *)
LEMMA ColdStep ==
  ASSUME Inv, PhaseTypes, PhaseInv, ColdInv, LookupStep
  PROVE  ColdInv'
<1>1. CASE AccessHit \/ AccessMiss
  <2>1. /\ walk # None /\ walk' # None
        /\ walk'.sst = walk.sst /\ walk'.phase = walk.phase /\ walk'.miss0 = walk.miss0
        /\ 1 \in DOMAIN walk.todo /\ NextBlock.tag = walk.todo[1]
        /\ incoming = None /\ UNCHANGED <<cached, phase_stats>>
        /\ WalkScheme' = WalkScheme /\ InMetadata' = InMetadata
    BY <1>1, AccessEffect
  <2>2. /\ walk.miss0 \in Nat /\ total_io_count \in Nat /\ WalkScheme \in Schemes
        /\ InMetadata <=> walk.phase \in Phases
        /\ InPhase("data") <=> ~InMetadata
    BY <2>1, WalkTypes
  <2>3. \/ total_io_count' = total_io_count /\ incoming' = None
        \/ total_io_count' = total_io_count + 1 /\ incoming' = NextBlock
    BY <1>1, <2>1 DEF AccessHit, AccessMiss, Miss, cacheVars
  <2>4. HadMiss => HadMiss'
    BY <2>1, <2>2, <2>3 DEF HadMiss
  <2>5. ASSUME NEW tag, WasMissed(tag)
        PROVE  WasMissed(tag)'
    BY <2>1, <2>4, <2>5 DEF WasMissed, Missed
  <2>6. ASSUME incoming' # None
        PROVE  WasMissed(incoming.tag)'
    <3>1. total_io_count' = total_io_count + 1 /\ incoming' = NextBlock
      BY <2>3, <2>6
    <3>2. HadMiss'
      BY <2>1, <2>2, <3>1 DEF HadMiss, PhaseInv
    <3> SUFFICES ASSUME NEW sc \in Schemes, NEW ph \in Phases,
                        HasTag(NextBlock.tag, sc, ph)
                 PROVE  InMetadata /\ WalkScheme = sc /\ walk.phase = ph
      BY <2>1, <3>1, <3>2 DEF WasMissed
    <3>3. CASE InMetadata
      <4>1. HasTag(NextBlock.tag, WalkScheme, walk.phase)
        BY <2>1, <3>3 DEF PhaseInv
      <4> QED
        BY <2>2, <3>3, <4>1, PhasesShareNoBlock
    <3>4. CASE ~InMetadata
      <4>1. NextBlock.tag = DataTag
        BY <2>1, <2>2, <3>4 DEF PhaseInv
      <4> QED
        BY <4>1, PhasesShareNoBlock
    <3> QED
      BY <3>3, <3>4
  <2>7. SchemesStartCold'
    BY <2>1 DEF ColdInv, SchemesStartCold
  <2> QED
    BY <2>1, <2>5, <2>6, <2>7 DEF ColdInv
<1>2. CASE CacheInsert
  <2>1. /\ UNCHANGED <<active_scheme, phase_stats, total_io_count, walk>>
        /\ incoming # None /\ incoming' \in {incoming, None}
        /\ cached' \subseteq cached \cup {incoming}
    BY <1>2 DEF CacheInsert, stats, InsertStep, Drop, Without, Admit, Reject
  <2>2. ASSUME NEW tag, WasMissed(tag)
        PROVE  WasMissed(tag)'
    BY <2>1, <2>2 DEF WasMissed, Missed, InMetadata, InPhase, WalkScheme, HadMiss
  <2>3. SchemesStartCold'
    BY <2>1 DEF ColdInv, SchemesStartCold
  <2>4. \A b \in cached' : WasMissed(b.tag)'
    BY <2>1, <2>2 DEF ColdInv
  <2>5. incoming' # None => WasMissed(incoming.tag)'
    BY <2>1, <2>2 DEF ColdInv
  <2> QED
    BY <2>3, <2>4, <2>5 DEF ColdInv
<1>3. CASE FilterRejects \/ FilterPasses \/ EndIndex
  <2>1. /\ walk # None /\ Len(walk.todo) = 0 /\ incoming = None
        /\ InMetadata /\ walk.phase \in Phases
        /\ RecordPhase(walk.phase, HadMiss)
        /\ UNCHANGED <<cached, incoming>>
    BY <1>3, PhaseRecorded DEF cacheVars
  <2>2. WalkScheme \in Schemes /\ BlocksRead(WalkScheme, walk.phase) \in Nat
    BY <2>1, WalkTypes, PhasesShareNoBlock
  <2> DEFINE here(sc, ph) == sc = WalkScheme /\ ph = walk.phase
  <2>3. HadMiss \in BOOLEAN
    BY DEF HadMiss
  <2>4. \A sc \in Schemes, ph \in Phases, o \in Outcomes :
          /\ phase_stats[sc][ph][o] \in Nat
          /\ phase_stats'[sc][ph][o] = phase_stats[sc][ph][o] +
               One(sc = WalkScheme /\ ph = walk.phase /\ o = Outcome(HadMiss))
    BY <2>1, <2>2, <2>3, RecordEffect DEF PhaseTypes
  <2>5. ASSUME NEW sc \in Schemes, NEW ph \in Phases
        PROVE  /\ Missed(sc, ph) > 0 => Missed(sc, ph)' > 0
               /\ here(sc, ph) /\ HadMiss => Missed(sc, ph)' > 0
               /\ phase_stats'[sc][ph]["all_hit"] > 0 =>
                    phase_stats[sc][ph]["all_hit"] > 0 \/ here(sc, ph)
    BY <2>4 DEF Missed, One, Outcome, Outcomes
  <2>6. ASSUME NEW tag, WasMissed(tag)
        PROVE  WasMissed(tag)'
    BY <2>5, <2>6 DEF WasMissed
  <2>7. SchemesStartCold'
    <3> SUFFICES ASSUME NEW sc \in Schemes, NEW ph \in Phases,
                        BlocksRead(sc, ph) > 0, phase_stats'[sc][ph]["all_hit"] > 0
                 PROVE  Missed(sc, ph)' > 0
      BY DEF SchemesStartCold, Missed
    <3>1. CASE phase_stats[sc][ph]["all_hit"] > 0
      BY <2>5, <3>1 DEF ColdInv, SchemesStartCold, Missed
    <3>2. CASE here(sc, ph)
      <4>1. HadMiss \/ Missed(sc, ph) > 0
        BY <2>1, <3>2 DEF PhaseInv
      <4> QED
        BY <2>5, <3>2, <4>1
    <3> QED
      BY <2>5, <3>1, <3>2
  <2> QED
    BY <2>1, <2>6, <2>7 DEF ColdInv
<1>4. CASE EndLookup
  <2>1. UNCHANGED <<cached, incoming, phase_stats>> /\ ~InMetadata
    BY <1>4 DEF EndLookup, cacheVars, stats, PhaseDone, InMetadata, InPhase
  <2>2. ASSUME NEW tag, WasMissed(tag)
        PROVE  WasMissed(tag)'
    BY <2>1, <2>2 DEF WasMissed, Missed
  <2>3. SchemesStartCold'
    BY <2>1 DEF ColdInv, SchemesStartCold
  <2> QED
    BY <2>1, <2>2, <2>3 DEF ColdInv
<1> QED
  BY <1>1, <1>2, <1>3, <1>4 DEF LookupStep
-----------------------------------------------------------------------------
(* What a count in some of a file's counters adds to the sums. *)
LEMMA CountSums ==
  ASSUME SimTypes, NEW s \in SSTs, NEW C, Count(s, C),
         \A c \in SstCounters : IsFiniteSet(MarksOf(c))
  PROVE  LET new(c) == SumOfStat(c) + One(c \in C)
         IN  /\ \A c \in SstCounters : IsFiniteSet(MarksOf(c)')
             /\ SumOfStat("filter_checked")' = new("filter_checked")
             /\ SumOfStat("filter_rejected")' = new("filter_rejected")
             /\ SumOfStat("point_lookup_count")' = new("point_lookup_count")
             /\ SumOfStat("cache_hits")' = new("cache_hits")
             /\ SumOfStat("cache_misses")' = new("cache_misses")
<1>1. \A c \in SstCounters : /\ IsFiniteSet(MarksOf(c)')
                             /\ SumOfStat(c)' = SumOfStat(c) + One(c \in C)
  BY CountSum
<1> QED
  BY <1>1 DEF SstCounters

LEMMA StatTypes ==
  ASSUME SimTypes, SumsInv
  PROVE  /\ SumOfStat("filter_checked") \in Nat /\ SumOfStat("filter_rejected") \in Nat
         /\ SumOfStat("point_lookup_count") \in Nat
         /\ SumOfStat("cache_hits") \in Nat /\ SumOfStat("cache_misses") \in Nat
<1>1. \A c \in SstCounters : SumOfStat(c) \in Nat
  BY FS_CardinalityType DEF SumsInv, MarksOf, SumOfStat
<1> QED
  BY <1>1 DEF SstCounters

(* The sums that a step leaves alone. *)
LEMMA SumsUnchanged ==
  /\ phase_stats' = phase_stats =>
       /\ UNCHANGED <<PhaseReads, MissedPhases, MissedReads>>
       /\ PhaseTotal("filter")' = PhaseTotal("filter")
       /\ PhaseTotal("index")' = PhaseTotal("index")
  /\ sst_stats' = sst_stats =>
       /\ \A c \in SstCounters : MarksOf(c)' = MarksOf(c)
       /\ SumOfStat("filter_checked")' = SumOfStat("filter_checked")
       /\ SumOfStat("filter_rejected")' = SumOfStat("filter_rejected")
       /\ SumOfStat("point_lookup_count")' = SumOfStat("point_lookup_count")
       /\ SumOfStat("cache_hits")' = SumOfStat("cache_hits")
       /\ SumOfStat("cache_misses")' = SumOfStat("cache_misses")
<1>1. ASSUME phase_stats' = phase_stats
      PROVE  /\ UNCHANGED <<PhaseReads, MissedPhases, MissedReads>>
             /\ PhaseTotal("filter")' = PhaseTotal("filter")
             /\ PhaseTotal("index")' = PhaseTotal("index")
  BY <1>1, Zenon DEF PhaseReads, MissedPhases, MissedReads, Missed, PhaseCount, PhaseTotal,
                     OverPhases, OverSchemes
<1>2. ASSUME sst_stats' = sst_stats
      PROVE  \A c : MarksOf(c)' = MarksOf(c) /\ SumOfStat(c)' = SumOfStat(c)
  BY <1>2 DEF MarksOf, SumOfStat
<1> QED
  BY <1>1, <1>2

LEMMA SumsAccess ==
  ASSUME Inv, PhaseTypes, PhaseInv, SumsInv, AccessHit \/ AccessMiss
  PROVE  SumsInv'
<1>1. /\ walk # None /\ walk' # None
      /\ walk'.sst = walk.sst /\ walk'.phase = walk.phase /\ walk'.miss0 = walk.miss0
      /\ Len(walk.todo) \in Nat \ {0} /\ Len(walk'.todo) = Len(walk.todo) - 1
      /\ phase_stats' = phase_stats
      /\ WalkScheme' = WalkScheme /\ InMetadata' = InMetadata
      /\ \A ph : InPhase(ph)' = InPhase(ph)
  BY AccessEffect
<1>2. /\ walk.sst \in SSTs /\ WalkScheme \in Schemes /\ walk.miss0 \in Nat
      /\ total_io_count \in Nat
      /\ InMetadata <=> walk.phase \in Phases
      /\ InPhase("data") <=> ~InMetadata
  BY <1>1, WalkTypes
<1>3. SimTypes
  BY DEF Inv
<1>4. PICK hit, miss \in 0..1 :
        /\ hit + miss = 1 /\ total_io_count' = total_io_count + miss
        /\ SumOfStat("cache_hits")' = SumOfStat("cache_hits") + hit
        /\ SumOfStat("cache_misses")' = SumOfStat("cache_misses") + miss
        /\ SumOfStat("filter_checked")' = SumOfStat("filter_checked")
        /\ SumOfStat("filter_rejected")' = SumOfStat("filter_rejected")
        /\ SumOfStat("point_lookup_count")' = SumOfStat("point_lookup_count")
        /\ \A c \in SstCounters : IsFiniteSet(MarksOf(c)')
  <2>1. /\ SumOfStat("filter_checked") + 0 = SumOfStat("filter_checked")
        /\ SumOfStat("filter_rejected") + 0 = SumOfStat("filter_rejected")
        /\ SumOfStat("point_lookup_count") + 0 = SumOfStat("point_lookup_count")
        /\ SumOfStat("cache_hits") + 0 = SumOfStat("cache_hits")
        /\ SumOfStat("cache_misses") + 0 = SumOfStat("cache_misses")
        /\ total_io_count + 0 = total_io_count
    BY <1>2, <1>3, StatTypes
  <2>2. CASE AccessHit
    <3>1. Count(walk.sst, {"cache_hits"}) /\ total_io_count' = total_io_count
      BY <2>2 DEF AccessHit
    <3>2. /\ SumOfStat("cache_hits")' = SumOfStat("cache_hits") + 1
          /\ SumOfStat("cache_misses")' = SumOfStat("cache_misses") + 0
          /\ SumOfStat("filter_checked")' = SumOfStat("filter_checked") + 0
          /\ SumOfStat("filter_rejected")' = SumOfStat("filter_rejected") + 0
          /\ SumOfStat("point_lookup_count")' = SumOfStat("point_lookup_count") + 0
          /\ \A c \in SstCounters : IsFiniteSet(MarksOf(c)')
      BY <1>2, <1>3, <3>1, CountSums DEF One, SumsInv
    <3> QED
      BY <2>1, <3>1, <3>2
  <2>3. CASE AccessMiss
    <3>1. Count(walk.sst, {"cache_misses"}) /\ total_io_count' = total_io_count + 1
      BY <2>3 DEF AccessMiss
    <3>2. /\ SumOfStat("cache_hits")' = SumOfStat("cache_hits") + 0
          /\ SumOfStat("cache_misses")' = SumOfStat("cache_misses") + 1
          /\ SumOfStat("filter_checked")' = SumOfStat("filter_checked") + 0
          /\ SumOfStat("filter_rejected")' = SumOfStat("filter_rejected") + 0
          /\ SumOfStat("point_lookup_count")' = SumOfStat("point_lookup_count") + 0
          /\ \A c \in SstCounters : IsFiniteSet(MarksOf(c)')
      BY <1>2, <1>3, <3>1, CountSums DEF One, SumsInv
    <3> QED
      BY <2>1, <3>1, <3>2
  <2> QED
    BY <2>2, <2>3
<1>5. /\ UNCHANGED <<PhaseReads, MissedPhases, MissedReads>>
      /\ PhaseTotal("filter")' = PhaseTotal("filter")
      /\ PhaseTotal("index")' = PhaseTotal("index")
  BY <1>1, SumsUnchanged
<1>6. /\ PhaseTotal("index") \in Nat /\ PhaseReads \in Nat
      /\ MissedPhases \in Nat /\ MissedReads \in Nat
  BY SumTypes
<1>7. /\ SumOfStat("cache_hits") \in Nat /\ SumOfStat("cache_misses") \in Nat
  BY <1>3, StatTypes
<1>8. /\ Reading' = Reading + 1 /\ Reading \in Int
      /\ MissedPhases <= Settled' /\ Settled' <= PhaseTotal("index") + MissedReads - ToRead'
  <2>1. PICK n \in Nat : n = Len(walk.todo) /\ Len(walk'.todo) = n - 1
    BY <1>1
  <2>2. CASE InMetadata
    <3>1. PICK b \in Nat : b = BlocksRead(WalkScheme, walk.phase)
      BY <1>2, <2>2, PhasesShareNoBlock
    <3>2. Reading = b - n /\ Reading' = b - (n - 1)
      BY <1>1, <2>1, <2>2, <3>1 DEF Reading
    <3>3. Settled' = Settled /\ ToRead' = 0 /\ ToRead = 0
      BY <1>1, <1>2, <2>2 DEF Settled, ToRead
    <3> QED
      BY <2>1, <3>1, <3>2, <3>3 DEF SumsInv
  <2>3. CASE ~InMetadata
    <3>1. Reading = 0 - n /\ Reading' = 0 - (n - 1) /\ ToRead = n /\ ToRead' = n - 1
      BY <1>1, <1>2, <2>1, <2>3 DEF Reading, ToRead
    <3>2. Settled = total_io_count /\ Settled' = total_io_count'
      BY <1>1, <2>3 DEF Settled
    <3>3. /\ MissedPhases <= total_io_count
          /\ total_io_count <= PhaseTotal("index") + MissedReads - n
      BY <3>1, <3>2 DEF SumsInv
    <3>4. PICK t, mp, pi, mr \in Nat :
            /\ t = total_io_count /\ mp = MissedPhases
            /\ pi = PhaseTotal("index") /\ mr = MissedReads
      BY <1>2, <1>6
    <3>5. PICK u \in Nat : u = total_io_count' /\ t <= u /\ u <= t + 1
      BY <1>4, <3>4
    <3>6. mp <= t /\ t <= pi + mr - n
      BY <3>3, <3>4
    <3>7. mp <= u /\ u <= pi + mr - (n - 1)
      <4>1. t <= u /\ u <= t + 1
        BY <3>5
      <4>2. pi + mr - (n - 1) = (pi + mr - n) + 1
        OBVIOUS
      <4> QED
        BY <3>6, <4>1, <4>2
    <3>8. 0 - (n - 1) = (0 - n) + 1
      OBVIOUS
    <3> QED
      BY <3>1, <3>2, <3>4, <3>5, <3>7, <3>8
  <2> QED
    BY <2>2, <2>3
<1>9. /\ PhaseTotal("filter")' = SumOfStat("filter_checked")'
      /\ PhaseTotal("index")' + One(InPhase("index"))'
           = SumOfStat("filter_checked")' - SumOfStat("filter_rejected")'
      /\ SumOfStat("filter_checked")' + One(InPhase("filter"))'
           = SumOfStat("point_lookup_count")'
      /\ SumOfStat("cache_misses")' = total_io_count'
  BY <1>1, <1>4, <1>5 DEF SumsInv, One
<1>10. SumOfStat("cache_hits")' + SumOfStat("cache_misses")'
         = PhaseTotal("index")' + PhaseReads' + Reading'
  <2>1. SumOfStat("cache_hits") + SumOfStat("cache_misses")
          = PhaseTotal("index") + PhaseReads + Reading
    BY DEF SumsInv
  <2> QED
    BY <1>4, <1>5, <1>6, <1>7, <1>8, <2>1
<1> QED
  BY <1>4, <1>5, <1>8, <1>9, <1>10 DEF SumsInv
(* The end of a metadata phase accounts for what the phase has read. *)
LEMMA SumsRecorded ==
  ASSUME Inv, PhaseTypes, PhaseInv, SumsInv, FilterRejects \/ FilterPasses \/ EndIndex
  PROVE  SumsInv'
<1>1. /\ walk # None /\ Len(walk.todo) = 0 /\ InMetadata /\ walk.phase \in Phases
      /\ RecordPhase(walk.phase, HadMiss) /\ total_io_count' = total_io_count
  BY PhaseRecorded
<1>2. /\ walk.sst \in SSTs /\ WalkScheme \in Schemes /\ walk.miss0 \in Nat
      /\ total_io_count \in Nat /\ ~InPhase("data")
  BY <1>1, WalkTypes
<1>3. SimTypes /\ HadMiss \in BOOLEAN
  BY DEF Inv, HadMiss
<1>4. PICK b, t, m, pf, pi, pr, mp, mr \in Nat :
        /\ b = BlocksRead(WalkScheme, walk.phase) /\ t = total_io_count /\ m = walk.miss0
        /\ pf = PhaseTotal("filter") /\ pi = PhaseTotal("index") /\ pr = PhaseReads
        /\ mp = MissedPhases /\ mr = MissedReads
  BY <1>1, <1>2, PhasesShareNoBlock, SumTypes
<1>5. /\ PhaseTotal("filter")' = pf + One("filter" = walk.phase)
      /\ PhaseTotal("index")' = pi + One("index" = walk.phase)
      /\ PhaseReads' = pr + b /\ MissedPhases' = mp + One(HadMiss)
      /\ MissedReads' = mr + (IF HadMiss THEN b ELSE 0)
  <2>1. "filter" \in Phases /\ "index" \in Phases
    BY DEF Phases
  <2> QED
    BY <1>1, <1>2, <1>3, <1>4, <2>1, RecordSums
<1>6. PICK f, r, l, h, x \in Nat :
        /\ f = SumOfStat("filter_checked") /\ r = SumOfStat("filter_rejected")
        /\ l = SumOfStat("point_lookup_count")
        /\ h = SumOfStat("cache_hits") /\ x = SumOfStat("cache_misses")
  BY <1>3, StatTypes
<1>7. /\ Settled = m /\ ToRead = 0 /\ Reading = b
  BY <1>1, <1>2, <1>4 DEF Settled, ToRead, Reading
<1>8. /\ m <= t /\ t - m <= b /\ (HadMiss <=> t > m)
      /\ mp <= m /\ m <= pi + mr
      /\ pf = f /\ x = t /\ h + x = pi + pr + b
  <2>1. m <= t /\ t - m <= b - 0 /\ (HadMiss <=> t > m)
    BY <1>1, <1>4 DEF PhaseInv, HadMiss
  <2>2. mp <= m /\ m <= pi + mr - 0 /\ pf = f /\ x = t /\ h + x = pi + pr + b
    BY <1>4, <1>6, <1>7 DEF SumsInv
  <2> QED
    BY <2>1, <2>2
<1>9. /\ mp + One(HadMiss) <= t
      /\ t <= pi + (mr + (IF HadMiss THEN b ELSE 0))
  <2>1. CASE HadMiss
    <3>1. t > m /\ t <= m + b
      BY <1>8, <2>1
    <3> QED
      BY <1>8, <2>1, <3>1 DEF One
  <2>2. CASE ~HadMiss
    <3>1. t = m
      BY <1>8, <2>2
    <3> QED
      BY <1>8, <2>2, <3>1 DEF One
  <2> QED
    BY <2>1, <2>2
<1> DEFINE d == IF HadMiss THEN b ELSE 0
<1>10. d \in Nat /\ One(HadMiss) \in Nat
  BY DEF One
<1> HIDE DEF d
<1>11. CASE FilterRejects \/ FilterPasses
  <2>1. walk.phase = "filter" /\ ~InPhase("index") /\ InPhase("filter")
    BY <1>1, <1>11 DEF FilterRejects, FilterPasses, PhaseDone, InPhase
  <2>2. /\ PhaseTotal("filter")' = pf + 1 /\ PhaseTotal("index")' = pi
    BY <1>4, <1>5, <2>1 DEF One
  <2>3. /\ pi = f - r /\ f + 1 = l
    <3>1. pi + 0 = f - r /\ f + 1 = l
      BY <1>4, <1>6, <2>1 DEF SumsInv, One
    <3> QED
      BY <3>1
  <2>4. PICK rej \in 0..1 :
          /\ SumOfStat("filter_checked")' = f + 1
          /\ SumOfStat("filter_rejected")' = r + rej
          /\ SumOfStat("point_lookup_count")' = l
          /\ SumOfStat("cache_hits")' = h /\ SumOfStat("cache_misses")' = x
          /\ \A c \in SstCounters : IsFiniteSet(MarksOf(c)')
          /\ One(InPhase("index"))' = 1 - rej /\ One(InPhase("filter"))' = 0
          /\ Reading' = 0 /\ Settled' = t /\ ToRead' = 0
    <3>1. CASE FilterRejects
      <4>1. Count(walk.sst, {"filter_checked", "filter_rejected"}) /\ walk' = None
        BY <3>1 DEF FilterRejects, Rejection
      <4>2. /\ SumOfStat("filter_checked")' = f + 1
            /\ SumOfStat("filter_rejected")' = r + 1
            /\ SumOfStat("point_lookup_count")' = l + 0
            /\ SumOfStat("cache_hits")' = h + 0 /\ SumOfStat("cache_misses")' = x + 0
            /\ \A c \in SstCounters : IsFiniteSet(MarksOf(c)')
        BY <1>2, <1>3, <1>6, <4>1, CountSums DEF One, SumsInv
      <4>3. \A ph : ~InPhase(ph)'
        BY <4>1 DEF InPhase
      <4>4. /\ One(InPhase("index"))' = 0 /\ One(InPhase("filter"))' = 0
            /\ Reading' = 0 /\ Settled' = t /\ ToRead' = 0
        BY <1>1, <1>4, <4>3 DEF One, Reading, Settled, ToRead, InMetadata
      <4> QED
        BY <4>2, <4>4
    <3>2. CASE FilterPasses
      <4>1. Count(walk.sst, {"filter_checked"})
        BY <3>2 DEF FilterPasses
      <4>2. /\ SumOfStat("filter_checked")' = f + 1
            /\ SumOfStat("filter_rejected")' = r + 0
            /\ SumOfStat("point_lookup_count")' = l + 0
            /\ SumOfStat("cache_hits")' = h + 0 /\ SumOfStat("cache_misses")' = x + 0
            /\ \A c \in SstCounters : IsFiniteSet(MarksOf(c)')
        BY <1>2, <1>3, <1>6, <4>1, CountSums DEF One, SumsInv
      <4>3. /\ walk' # None /\ walk'.phase = "index" /\ walk'.miss0 = t
            /\ WalkScheme' = WalkScheme /\ walk'.todo = TagsOf(WalkScheme, "index")
        BY <1>4, <3>2, PhaseBegins
      <4>4. InPhase("index")' /\ ~InPhase("filter")' /\ ~InPhase("data")' /\ InMetadata'
        BY <4>3 DEF InPhase, InMetadata
      <4>5. Len(walk'.todo) = BlocksRead(WalkScheme, "index")
            /\ BlocksRead(WalkScheme, "index") \in Nat
        BY <1>2, <4>3, PhasesShareNoBlock DEF Phases
      <4>6. Reading' = 0 /\ Settled' = t /\ ToRead' = 0
        BY <4>3, <4>4, <4>5 DEF Reading, Settled, ToRead
      <4>7. One(InPhase("index"))' = 1 /\ One(InPhase("filter"))' = 0
        BY <4>4 DEF One
      <4> QED
        BY <4>2, <4>6, <4>7
    <3> QED
      BY <1>11, <3>1, <3>2
  <2>5. /\ pf + 1 = f + 1 /\ pi + (1 - rej) = (f + 1) - (r + rej) /\ (f + 1) + 0 = l
        /\ h + x = pi + (pr + b) + 0
        /\ mp + One(HadMiss) <= t /\ t <= pi + (mr + d) - 0
    BY <1>8, <1>9, <1>10, <2>3 DEF d
  <2> QED
    BY <1>1, <1>4, <1>5, <1>8, <2>2, <2>4, <2>5 DEF SumsInv, d
<1>12. CASE EndIndex
  <2>1. /\ walk.phase = "index" /\ InPhase("index") /\ ~InPhase("filter")
        /\ walk' # None /\ walk'.phase = "data" /\ walk'.todo = <<DataTag>>
    BY <1>1, <1>12, PhaseBegins DEF InPhase
  <2>2. /\ PhaseTotal("filter")' = pf /\ PhaseTotal("index")' = pi + 1
    BY <1>4, <1>5, <2>1 DEF One
  <2>3. /\ pi + 1 = f - r /\ f + 0 = l
    BY <1>4, <1>6, <2>1 DEF SumsInv, One
  <2>4. /\ SumOfStat("filter_checked")' = f /\ SumOfStat("filter_rejected")' = r
        /\ SumOfStat("point_lookup_count")' = l
        /\ SumOfStat("cache_hits")' = h /\ SumOfStat("cache_misses")' = x
        /\ \A c \in SstCounters : IsFiniteSet(MarksOf(c)')
    <3>1. sst_stats' = sst_stats
      BY <1>12 DEF EndIndex
    <3> QED
      BY <1>6, <3>1, SumsUnchanged DEF SumsInv
  <2>5. InPhase("data")' /\ ~InPhase("filter")' /\ ~InPhase("index")' /\ ~InMetadata'
    BY <2>1 DEF InPhase, InMetadata
  <2>6. Len(walk'.todo) = 1
    BY <2>1
  <2>7. /\ One(InPhase("index"))' = 0 /\ One(InPhase("filter"))' = 0
        /\ Reading' = 0 - 1 /\ Settled' = t /\ ToRead' = 1
    BY <1>1, <1>4, <2>5, <2>6 DEF One, Reading, Settled, ToRead
  <2>8. /\ (pi + 1) + 0 = f - r /\ f + 0 = l
        /\ h + x = (pi + 1) + (pr + b) + (0 - 1)
        /\ mp + One(HadMiss) <= t /\ t <= (pi + 1) + (mr + d) - 1
    BY <1>8, <1>9, <1>10, <2>3 DEF d
  <2> QED
    BY <1>1, <1>4, <1>5, <1>8, <2>2, <2>4, <2>7, <2>8 DEF SumsInv, d
<1> QED
  BY <1>11, <1>12
LEMMA SumsStep ==
  ASSUME Inv, PhaseTypes, PhaseInv, SumsInv, LookupStep
  PROVE  SumsInv'
<1>1. CASE CacheInsert
  <2>1. UNCHANGED <<active_scheme, phase_stats, sst_stats, total_io_count, walk>>
    BY <1>1 DEF CacheInsert, stats
  <2>2. UNCHANGED <<Reading, Settled, ToRead>>
        /\ \A ph : InPhase(ph)' = InPhase(ph)
    BY <2>1 DEF Reading, Settled, ToRead, InMetadata, InPhase, WalkScheme
  <2> QED
    BY <2>1, <2>2, SumsUnchanged DEF SumsInv, One
<1>2. CASE EndLookup
  <2>1. /\ walk # None /\ walk' = None /\ walk.todo = <<>> /\ walk.phase = "data"
        /\ UNCHANGED <<phase_stats, sst_stats, total_io_count>>
    BY <1>2 DEF EndLookup, PhaseDone, stats
  <2>2. /\ InPhase("data") /\ ~InMetadata /\ ~InPhase("filter") /\ ~InPhase("index")
        /\ ~InMetadata' /\ \A ph : ~InPhase(ph)'
    BY <2>1 DEF InPhase, InMetadata
  <2>3. Len(walk.todo) = 0
    BY <2>1
  <2>3a. /\ ~InPhase("data")' /\ ~InPhase("index")' /\ ~InPhase("filter")' /\ walk' = None
         /\ total_io_count' = total_io_count
    BY <2>1, <2>2
  <2>3b. walk' = None => ~(walk' # None)
    OBVIOUS
  <2>3c. /\ Reading = 0 /\ ToRead = 0 /\ Settled = total_io_count
    BY <2>2, <2>3 DEF Reading, ToRead, Settled
  <2>3d. Reading' = 0
    BY <2>2, <2>3a DEF Reading
  <2>3e. ToRead' = 0
    BY <2>3a DEF ToRead
  <2>3f. Settled' = total_io_count
    BY <2>2, <2>3a DEF Settled
  <2>3g. /\ One(InPhase("index")) = 0 /\ One(InPhase("filter")) = 0
    BY <2>2 DEF One
  <2>3h. /\ One(InPhase("index"))' = 0 /\ One(InPhase("filter"))' = 0
    BY <2>3a DEF One
  <2>4. /\ Reading = 0 /\ Reading' = 0 /\ ToRead = 0 /\ ToRead' = 0
        /\ Settled = total_io_count /\ Settled' = total_io_count
        /\ One(InPhase("index"))' = One(InPhase("index"))
        /\ One(InPhase("filter"))' = One(InPhase("filter"))
    BY <2>3c, <2>3d, <2>3e, <2>3f, <2>3g, <2>3h
  <2> QED
    BY <2>1, <2>4, SumsUnchanged DEF SumsInv
<1> QED
  BY <1>1, <1>2, SumsAccess, SumsRecorded DEF LookupStep

-----------------------------------------------------------------------------
(* Between lookups the loop counts lookups and seeks, and nothing else. *)
LEMMA LoopEffect ==
  ASSUME Inv, SimNext, ~InLookup
  PROVE  /\ walk = None /\ UNCHANGED <<cached, incoming, phase_stats, total_io_count>>
         /\ \/ /\ walk' # None /\ walk'.phase = "filter"
               /\ walk'.miss0 = total_io_count
               /\ WalkScheme' \in Schemes /\ walk'.todo = TagsOf(WalkScheme', "filter")
               /\ \E s \in SSTs : Count(s, {"access_count", "point_lookup_count"})
            \/ /\ walk' = None
               /\ sst_stats' = sst_stats \/ \E s \in SSTs, C \in SUBSET {"scan_count"} :
                                               Count(s, C)
<1>1. CASE LookupCandidate
  <2>1. /\ walk = None /\ walk' \in Walk /\ walk'.sst = Head(op.cand)
        /\ walk'.phase = "filter" /\ walk'.miss0 = total_io_count
        /\ walk'.todo = FilterTags(active_scheme[walk'.sst])
        /\ Head(op.cand) \in SSTs
        /\ Count(Head(op.cand), {"access_count", "point_lookup_count"})
        /\ UNCHANGED <<cached, incoming, active_scheme, total_io_count>>
    BY <1>1, LookupBegins DEF cacheVars
  <2>2. walk' # None /\ phase_stats' = phase_stats
    BY <1>1, <2>1, IOAssumption DEF LookupCandidate, BeginLookup
  <2>3. WalkScheme' = active_scheme[walk'.sst] /\ WalkScheme' \in Schemes
    BY <2>1, IOAssumption DEF WalkScheme, Inv, SimTypes
  <2>4. walk'.todo = TagsOf(WalkScheme', "filter")
    BY <2>1, <2>3 DEF TagsOf
  <2> QED
    BY <2>1, <2>2, <2>3, <2>4
<1>2. CASE AfterLookup
  <2>1. /\ walk = None /\ walk' = None
        /\ UNCHANGED <<cached, incoming, phase_stats, total_io_count>>
        /\ Count(Head(op.cand), IF op.seek THEN {"scan_count"} ELSE {})
    BY <1>2 DEF AfterLookup, cacheVars
  <2>2. Head(op.cand) \in SSTs
    <3>1. op.cand # <<>> /\ op.cand \in Seq(SSTs)
      BY <1>2 DEF AfterLookup, Inv, OpInv, SimTypes
    <3> QED
      BY <3>1
  <2>3. (IF op.seek THEN {"scan_count"} ELSE {}) \in SUBSET {"scan_count"}
    OBVIOUS
  <2> QED
    BY <2>1, <2>2, <2>3
<1>3. ASSUME NEW k \in Keys, NEW present \in BOOLEAN, NEW seek \in BOOLEAN,
             NextOp(k, present, seek)
      PROVE  walk = None /\ UNCHANGED <<cached, incoming, stats, walk>>
  BY <1>3 DEF NextOp, vars, cacheVars, Inv, WalkInv
<1>4. ASSUME EndOp \/ Report \/ Stopped \/ \E chosen \in Policies : Reapply(chosen)
      PROVE  walk = None /\ UNCHANGED <<cached, incoming, stats, walk>>
  BY <1>4 DEF EndOp, Report, Stopped, Reapply, ApplyPolicy, allVars, vars, cacheVars,
              Inv, WalkInv
<1> QED
  BY <1>1, <1>2, <1>3, <1>4 DEF SimNext, SimStep, stats

StatsInv == PhaseTypes /\ PhaseInv /\ ColdInv /\ SumsInv

LEMMA LoopKeepsStats ==
  ASSUME Inv, StatsInv, SimNext, ~InLookup
  PROVE  StatsInv'
<1>1. walk = None /\ UNCHANGED <<cached, incoming, phase_stats, total_io_count>>
  BY LoopEffect
<1>2. ~InMetadata /\ \A ph : ~InPhase(ph)
  BY <1>1 DEF InMetadata, InPhase
<1>3. SimTypes /\ total_io_count \in Nat
  BY DEF Inv, SimTypes
<1>4. PhaseTypes'
  BY <1>1 DEF StatsInv, PhaseTypes
<1>5. ColdInv'
  <2>1. ASSUME NEW tag, WasMissed(tag)
        PROVE  WasMissed(tag)'
    BY <1>1, <1>2, <2>1 DEF WasMissed, Missed
  <2>2. SchemesStartCold'
    BY <1>1 DEF StatsInv, ColdInv, SchemesStartCold
  <2> QED
    BY <1>1, <2>1, <2>2 DEF StatsInv, ColdInv
<1>6. /\ UNCHANGED <<PhaseReads, MissedPhases, MissedReads>>
      /\ PhaseTotal("filter")' = PhaseTotal("filter")
      /\ PhaseTotal("index")' = PhaseTotal("index")
  BY <1>1, SumsUnchanged
<1>7. /\ Reading = 0 /\ Settled = total_io_count /\ ToRead = 0
      /\ One(InPhase("index")) = 0 /\ One(InPhase("filter")) = 0
  BY <1>2 DEF Reading, Settled, ToRead, One
<1>8. /\ SumOfStat("filter_checked") \in Nat /\ SumOfStat("filter_rejected") \in Nat
      /\ SumOfStat("point_lookup_count") \in Nat
      /\ SumOfStat("cache_hits") \in Nat /\ SumOfStat("cache_misses") \in Nat
  BY <1>3, StatTypes DEF StatsInv
<1>9. CASE /\ walk' # None /\ walk'.phase = "filter" /\ walk'.miss0 = total_io_count
           /\ WalkScheme' \in Schemes /\ walk'.todo = TagsOf(WalkScheme', "filter")
           /\ \E s \in SSTs : Count(s, {"access_count", "point_lookup_count"})
  <2> DEFINE x == TagsOf(WalkScheme', "filter")
  <2>1. InPhase("filter")' /\ ~InPhase("index")' /\ ~InPhase("data")' /\ InMetadata'
    BY <1>9 DEF InPhase, InMetadata
  <2>2. /\ BlocksRead(WalkScheme', "filter") \in Nat
        /\ Len(x) = BlocksRead(WalkScheme', "filter")
        /\ \A n \in DOMAIN x : HasTag(x[n], WalkScheme', "filter")
    BY <1>9, PhasesShareNoBlock DEF Phases, HasTag
  <2> HIDE DEF x
  <2>3. PhaseInv'
    BY <1>1, <1>3, <1>9, <2>1, <2>2 DEF PhaseInv, x
  <2>4. /\ Reading' = 0 /\ Settled' = total_io_count /\ ToRead' = 0
        /\ One(InPhase("index"))' = 0 /\ One(InPhase("filter"))' = 1
    BY <1>1, <1>9, <2>1, <2>2 DEF Reading, Settled, ToRead, One, x
  <2>5. /\ SumOfStat("filter_checked")' = SumOfStat("filter_checked") + 0
        /\ SumOfStat("filter_rejected")' = SumOfStat("filter_rejected") + 0
        /\ SumOfStat("point_lookup_count")' = SumOfStat("point_lookup_count") + 1
        /\ SumOfStat("cache_hits")' = SumOfStat("cache_hits") + 0
        /\ SumOfStat("cache_misses")' = SumOfStat("cache_misses") + 0
        /\ \A c \in SstCounters : IsFiniteSet(MarksOf(c)')
    BY <1>3, <1>9, CountSums DEF One, StatsInv, SumsInv
  <2>6. SumsInv'
    BY <1>1, <1>6, <1>7, <1>8, <2>4, <2>5 DEF StatsInv, SumsInv
  <2> QED
    BY <1>4, <1>5, <2>3, <2>6 DEF StatsInv
<1>10. CASE /\ walk' = None
            /\ sst_stats' = sst_stats \/ \E s \in SSTs, C \in SUBSET {"scan_count"} :
                                            Count(s, C)
  <2>1. PhaseInv' /\ ~InMetadata' /\ \A ph : ~InPhase(ph)'
    BY <1>10 DEF PhaseInv, InMetadata, InPhase
  <2>2. /\ Reading' = 0 /\ Settled' = total_io_count /\ ToRead' = 0
        /\ One(InPhase("index"))' = 0 /\ One(InPhase("filter"))' = 0
    BY <1>1, <2>1 DEF Reading, Settled, ToRead, One
  <2>3. /\ SumOfStat("filter_checked")' = SumOfStat("filter_checked")
        /\ SumOfStat("filter_rejected")' = SumOfStat("filter_rejected")
        /\ SumOfStat("point_lookup_count")' = SumOfStat("point_lookup_count")
        /\ SumOfStat("cache_hits")' = SumOfStat("cache_hits")
        /\ SumOfStat("cache_misses")' = SumOfStat("cache_misses")
        /\ \A c \in SstCounters : IsFiniteSet(MarksOf(c)')
    <3>1. CASE sst_stats' = sst_stats
      BY <3>1, SumsUnchanged DEF StatsInv, SumsInv
    <3>2. ASSUME NEW s \in SSTs, NEW C \in SUBSET {"scan_count"}, Count(s, C)
          PROVE  /\ SumOfStat("filter_checked")' = SumOfStat("filter_checked") + 0
                 /\ SumOfStat("filter_rejected")' = SumOfStat("filter_rejected") + 0
                 /\ SumOfStat("point_lookup_count")' = SumOfStat("point_lookup_count") + 0
                 /\ SumOfStat("cache_hits")' = SumOfStat("cache_hits") + 0
                 /\ SumOfStat("cache_misses")' = SumOfStat("cache_misses") + 0
                 /\ \A c \in SstCounters : IsFiniteSet(MarksOf(c)')
      BY <1>3, <3>2, CountSums DEF One, StatsInv, SumsInv
    <3> QED
      BY <1>8, <1>10, <3>1, <3>2
  <2>4. SumsInv'
    BY <1>1, <1>6, <1>7, <2>2, <2>3 DEF StatsInv, SumsInv
  <2> QED
    BY <1>4, <1>5, <2>1, <2>4 DEF StatsInv
<1> QED
  BY <1>9, <1>10, LoopEffect

LEMMA StatsStep ==
  ASSUME Inv, StatsInv, [SimNext]_allVars
  PROVE  StatsInv'
<1>1. CASE InLookup
  BY <1>1, PhaseStep, ColdStep, SumsStep DEF InLookup, StatsInv
<1>2. CASE SimNext /\ ~InLookup
  BY <1>2, LoopKeepsStats
<1>3. CASE UNCHANGED allVars
  <2>1. UNCHANGED <<cached, incoming, active_scheme, phase_stats, sst_stats,
                    total_io_count, walk>>
    BY <1>3 DEF allVars, vars, cacheVars, stats
  <2>2. /\ UNCHANGED <<Reading, Settled, ToRead, InMetadata, HadMiss, WalkScheme>>
        /\ \A ph : InPhase(ph)' = InPhase(ph)
        /\ \A sc, ph : Missed(sc, ph)' = Missed(sc, ph)
    BY <2>1 DEF Reading, Settled, ToRead, InMetadata, InPhase, WalkScheme, HadMiss, Missed
  <2>3. PhaseTypes' /\ PhaseInv'
    BY <2>1, <2>2 DEF StatsInv, PhaseTypes, PhaseInv
  <2>4. ColdInv'
    BY <2>1, <2>2 DEF StatsInv, ColdInv, WasMissed, SchemesStartCold
  <2>5. SumsInv'
    BY <2>1, <2>2, SumsUnchanged DEF StatsInv, SumsInv, One
  <2> QED
    BY <2>3, <2>4, <2>5 DEF StatsInv
<1> QED
  BY <1>1, <1>2, <1>3

LEMMA StatsInit ==
  ASSUME SimInit
  PROVE  StatsInv
<1>1. /\ cached = {} /\ incoming = None /\ walk = None /\ total_io_count = 0
      /\ sst_stats = [s \in SSTs |-> [c \in SstCounters |-> 0]]
      /\ phase_stats = [sc \in Schemes |-> [ph \in Phases |-> [o \in Outcomes |-> 0]]]
  BY DEF SimInit, Init, CacheInit
<1>2. PhaseTypes /\ PhaseInv /\ ColdInv
  BY <1>1 DEF PhaseTypes, PhaseInv, ColdInv, SchemesStartCold, Outcomes
<1>3. \A sc \in Schemes, ph \in Phases, o \in Outcomes : phase_stats[sc][ph][o] = 0
  BY <1>1
<1>4. /\ PhaseTotal("filter") = 0 /\ PhaseTotal("index") = 0
      /\ PhaseReads = 0 /\ MissedPhases = 0 /\ MissedReads = 0
  <2>1. \A sc \in Schemes, ph \in Phases :
          /\ PhaseCount(sc, ph) = 0 /\ Missed(sc, ph) = 0 /\ BlocksRead(sc, ph) \in Nat
    BY <1>3, PhasesShareNoBlock DEF PhaseCount, Missed, Outcomes
  <2>2. \A sc \in Schemes, ph \in Phases :
          /\ PhaseCount(sc, ph) * BlocksRead(sc, ph) = 0
          /\ Missed(sc, ph) * BlocksRead(sc, ph) = 0
    BY <2>1
  <2> QED
    BY <2>1, <2>2 DEF PhaseTotal, PhaseReads, MissedPhases, MissedReads, OverPhases,
                      OverSchemes, Schemes, Phases
<1>5. ASSUME NEW c \in SstCounters
      PROVE  MarksOf(c) = {} /\ SumOfStat(c) = 0
  <2> DEFINE f == [s \in SSTs |-> sst_stats[s][c]]
  <2>1. f \in [SSTs -> Nat] /\ \A s \in SSTs : f[s] = 0
    BY <1>1
  <2>2. MarksOf(c) = Marks(f) /\ SumOfStat(c) = Cardinality(Marks(f))
    BY DEF MarksOf, SumOfStat
  <2> HIDE DEF f
  <2>3. Marks(f) = {}
    BY <2>1, MarkOf
  <2> QED
    BY <2>2, <2>3, FS_EmptySet
<1>6. /\ Reading = 0 /\ Settled = 0 /\ ToRead = 0
      /\ One(InPhase("index")) = 0 /\ One(InPhase("filter")) = 0
  BY <1>1 DEF Reading, Settled, ToRead, InMetadata, InPhase, One
<1>7. SumsInv
  <2>1. /\ SumOfStat("filter_checked") = 0 /\ SumOfStat("filter_rejected") = 0
        /\ SumOfStat("point_lookup_count") = 0
        /\ SumOfStat("cache_hits") = 0 /\ SumOfStat("cache_misses") = 0
    BY <1>5 DEF SstCounters
  <2>2. \A c \in SstCounters : IsFiniteSet(MarksOf(c))
    BY <1>5, FS_EmptySet
  <2> QED
    BY <1>1, <1>4, <1>6, <2>1, <2>2, SMT DEF SumsInv
<1> QED
  BY <1>2, <1>7 DEF StatsInv

LEMMA StatsCorrect == SimSpec => [](Inv /\ StatsInv)
<1>1. SimInit => Inv /\ StatsInv
  BY InitInv, StatsInit
<1>2. Inv /\ StatsInv /\ [SimNext]_allVars => Inv' /\ StatsInv'
  BY InvStep, StatsStep
<1> QED
  BY <1>1, <1>2, PTL DEF SimSpec

(* The phases counted per scheme and the filter counters kept per file
   describe the same lookups, whatever the policies do. *)
THEOREM PhasesCorrect == SimSpec => []PhasesMatchFilterCounters
<1>1. ASSUME Inv, StatsInv
      PROVE  PhasesMatchFilterCounters
  <2> SUFFICES ASSUME walk = None PROVE PhasesMatchFilterCounters
    BY DEF PhasesMatchFilterCounters
  <2>1. One(InPhase("index")) = 0 /\ One(InPhase("filter")) = 0
    BY DEF InPhase, One
  <2>2. /\ SumOfStat("filter_checked") \in Nat
        /\ PhaseTotal("filter") \in Nat /\ PhaseTotal("index") \in Nat
    BY <1>1, StatTypes, SumTypes DEF Inv, StatsInv
  <2> QED
    BY <1>1, <2>1, <2>2 DEF StatsInv, SumsInv, PhasesMatchFilterCounters
<1> QED
  BY <1>1, StatsCorrect, PTL

(* The hits and misses that the policies see add up to what the phases, and
   the data blocks of the lookups that passed, have read. *)
THEOREM TrafficCorrect == SimSpec => []TrafficMatchesPhases
<1>1. ASSUME Inv, StatsInv
      PROVE  TrafficMatchesPhases
  <2> SUFFICES ASSUME walk = None PROVE TrafficMatchesPhases
    BY DEF TrafficMatchesPhases
  <2>1. Reading = 0
    BY DEF Reading, InMetadata, InPhase
  <2>2. PhaseTotal("index") \in Nat /\ PhaseReads \in Nat
    BY <1>1, SumTypes DEF StatsInv
  <2>3. SumOfStat("cache_hits") + SumOfStat("cache_misses")
          = PhaseTotal("index") + PhaseReads
    BY <1>1, <2>1, <2>2 DEF StatsInv, SumsInv
  <2> QED
    BY <2>3 DEF TrafficMatchesPhases, PhaseReads
<1> QED
  BY <1>1, StatsCorrect, PTL

(* The phases that count a miss are those that did I/O, within what a phase
   and the data blocks can read. *)
THEOREM MissPhasesCorrect == SimSpec => []MissPhasesMatchIO
<1>1. ASSUME Inv, StatsInv
      PROVE  MissPhasesMatchIO
  <2> SUFFICES ASSUME walk = None PROVE MissPhasesMatchIO
    BY DEF MissPhasesMatchIO
  <2>1. Settled = total_io_count /\ ToRead = 0
    BY DEF Settled, ToRead, InMetadata, InPhase
  <2>2. PhaseTotal("index") \in Nat /\ MissedReads \in Nat
    BY <1>1, SumTypes DEF StatsInv
  <2>3. /\ MissedPhases <= total_io_count
        /\ total_io_count <= PhaseTotal("index") + MissedReads
        /\ total_io_count = SumOfStat("cache_misses")
    BY <1>1, <2>1, <2>2 DEF StatsInv, SumsInv
  <2> QED
    BY <2>3
    DEF MissPhasesMatchIO, MissedPhases, MissedReads, Missed, OverPhases, OverSchemes
<1> QED
  BY <1>1, StatsCorrect, PTL

(* The schemes share no metadata block, so that none starts with hits on
   what another has read, however the files change schemes and whatever the
   cache keeps of the old ones. *)
THEOREM ColdCorrect == SimSpec => []SchemesStartCold
<1>1. Inv /\ StatsInv => SchemesStartCold
  BY DEF StatsInv, ColdInv
<1> QED
  BY <1>1, StatsCorrect, PTL

-----------------------------------------------------------------------------
(* Products of naturals, for the solver. *)
LEMMA TimesMonotonic ==
  ASSUME NEW a \in Nat, NEW b \in Nat, NEW c \in Nat, a <= b
  PROVE  a * c <= b * c /\ c * a <= c * b
<1>1. PICK d \in Nat : b = a + d
  <2>1. b - a \in Nat /\ b = a + (b - a)
    OBVIOUS
  <2> QED
    BY <2>1
<1>2. b * c = a * c + d * c /\ a * c \in Nat /\ d * c \in Nat
  BY <1>1
<1>3. c * b = b * c /\ c * a = a * c
  OBVIOUS
<1> QED
  BY <1>2, <1>3

LEMMA TimesCancels ==
  ASSUME NEW a \in Nat, NEW b \in Nat, NEW c \in Nat \ {0}, a * c <= b * c
  PROVE  a <= b
<1> SUFFICES ASSUME b < a PROVE FALSE
  OBVIOUS
<1>1. (b + 1) * c <= a * c
  BY TimesMonotonic
<1>2. (b + 1) * c = b * c + c /\ b * c \in Nat /\ a * c \in Nat
  OBVIOUS
<1> QED
  BY <1>1, <1>2

(* The order of ratios is transitive. *)
LEMMA RatiosChain ==
  ASSUME NEW a \in Nat, NEW b \in Nat \ {0}, NEW c \in Nat, NEW d \in Nat \ {0},
         NEW e \in Nat, NEW f \in Nat \ {0},
         a * d <= b * c, c * f <= d * e
  PROVE  a * f <= b * e
<1>1. /\ a * d \in Nat /\ b * c \in Nat /\ c * f \in Nat /\ d * e \in Nat
      /\ a * f \in Nat /\ b * e \in Nat
  OBVIOUS
<1>2. (a * d) * f <= (b * c) * f
  BY <1>1, TimesMonotonic
<1>3. b * (c * f) <= b * (d * e)
  BY <1>1, TimesMonotonic
<1>4. (a * d) * f = (a * f) * d /\ (b * c) * f = b * (c * f) /\ b * (d * e) = (b * e) * d
  OBVIOUS
<1>5. (a * f) * d <= (b * e) * d
  <2>1. (a * f) * d \in Nat /\ (b * e) * d \in Nat /\ b * (c * f) \in Nat
    OBVIOUS
  <2> QED
    BY <1>2, <1>3, <1>4, <2>1
<1> QED
  BY <1>1, <1>5, TimesCancels

-----------------------------------------------------------------------------
(* Between two entries of the table, <<s, r>> and <<s + w, r + h>>, a size
   that is n / d, or s + u / d, has the rate (r * d * w + u * h) / (d * w).
   Larger entries take no less time: s * h <= r * w. *)
LEMMA AboveLower ==
  ASSUME NEW s \in Nat, NEW r \in Nat, NEW w \in Nat, NEW h \in Nat,
         NEW d \in Nat, NEW u \in Nat, s * h <= r * w
  PROVE  /\ r * (d * w) <= r * d * w + u * h
         /\ s * (r * d * w + u * h) <= (s * d + u) * w * r
<1>1. PICK a, b \in Nat : a = s * h /\ b = r * w
  <2>1. s * h \in Nat /\ r * w \in Nat
    OBVIOUS
  <2> QED
    BY <2>1
<1>2. u * a <= u * b
  BY <1>1, TimesMonotonic
<1>3. /\ s * (r * d * w + u * h) = s * r * d * w + u * (s * h)
      /\ (s * d + u) * w * r = s * r * d * w + u * (r * w)
  OBVIOUS
<1>4. r * (d * w) = r * d * w /\ u * h \in Nat /\ r * d * w \in Nat
      /\ s * r * d * w \in Nat /\ u * a \in Nat /\ u * b \in Nat
  OBVIOUS
<1> QED
  BY <1>1, <1>2, <1>3, <1>4

LEMMA BelowUpper ==
  ASSUME NEW s \in Nat, NEW r \in Nat, NEW w \in Nat, NEW h \in Nat,
         NEW d \in Nat, NEW u \in Nat, s * h <= r * w, u <= d * w
  PROVE  /\ r * d * w + u * h <= (r + h) * (d * w)
         /\ (s * d + u) * w * (r + h) <= (s + w) * (r * d * w + u * h)
<1>1. PICK k, v \in Nat : r * w = s * h + k /\ d * w = u + v
  <2>1. r * w - s * h \in Nat /\ d * w - u \in Nat
    OBVIOUS
  <2> QED
    BY <2>1
<1>2. u * h <= (d * w) * h
  BY TimesMonotonic
<1>3. /\ (r + h) * (d * w) = r * d * w + (d * w) * h
      /\ r * d * w \in Nat /\ u * h \in Nat /\ (d * w) * h \in Nat
  OBVIOUS
<1>4. (s + w) * (r * d * w + u * h) + u * (r * w) + (d * w) * (s * h)
        = (s * d + u) * w * (r + h) + (d * w) * (r * w) + u * (s * h)
  OBVIOUS
<1>5. (d * w) * (r * w) + u * (s * h) = u * (r * w) + (d * w) * (s * h) + v * k
  <2>1. PICK a \in Nat : a = s * h
    OBVIOUS
  <2>2. (u + v) * (a + k) + u * a = u * (a + k) + (u + v) * a + v * k
    OBVIOUS
  <2> QED
    BY <1>1, <2>1, <2>2
<1>6. (s + w) * (r * d * w + u * h) = (s * d + u) * w * (r + h) + v * k
  <2>1. /\ (s + w) * (r * d * w + u * h) \in Nat /\ (s * d + u) * w * (r + h) \in Nat
        /\ u * (r * w) \in Nat /\ (d * w) * (s * h) \in Nat /\ v * k \in Nat
        /\ (d * w) * (r * w) \in Nat /\ u * (s * h) \in Nat
    OBVIOUS
  <2> QED
    BY <1>4, <1>5, <2>1
<1>7. v * k \in Nat /\ (s * d + u) * w * (r + h) \in Nat
  OBVIOUS
<1> QED
  BY <1>2, <1>3, <1>6, <1>7

LEMMA InOneInterval ==
  ASSUME NEW s \in Nat, NEW r \in Nat, NEW w \in Nat, NEW h \in Nat,
         NEW d \in Nat, NEW u \in Nat, NEW e \in Nat, NEW v \in Nat,
         s * h <= r * w, u * e <= v * d
  PROVE  /\ (r * d * w + u * h) * e <= (r * e * w + v * h) * d
         /\ (s * d + u) * (r * e * w + v * h) <= (s * e + v) * (r * d * w + u * h)
<1>1. PICK k, f, a, b \in Nat :
        a = s * h /\ r * w = a + k /\ b = u * e /\ v * d = b + f
  <2>1. r * w - s * h \in Nat /\ v * d - u * e \in Nat /\ s * h \in Nat /\ u * e \in Nat
    OBVIOUS
  <2>2. r * w = s * h + (r * w - s * h) /\ v * d = u * e + (v * d - u * e)
    OBVIOUS
  <2> QED
    BY <2>1, <2>2
<1>2. /\ (r * d * w + u * h) * e = r * d * e * w + (u * e) * h
      /\ (r * e * w + v * h) * d = r * d * e * w + (v * d) * h
      /\ (u * e) * h <= (v * d) * h
      /\ r * d * e * w \in Nat /\ (u * e) * h \in Nat /\ (v * d) * h \in Nat
  BY TimesMonotonic
<1>3. (s * d + u) * (r * e * w + v * h) + (s * h) * (u * e) + (r * w) * (v * d)
        = (s * e + v) * (r * d * w + u * h) + (s * h) * (v * d) + (r * w) * (u * e)
  OBVIOUS
<1>4. (s * h) * (u * e) + (r * w) * (v * d)
        = (s * h) * (v * d) + (r * w) * (u * e) + k * f
  <2>1. a * b + (a + k) * (b + f) = a * (b + f) + (a + k) * b + k * f
    OBVIOUS
  <2> QED
    BY <1>1, <2>1
<1>5. (s * d + u) * (r * e * w + v * h) + k * f = (s * e + v) * (r * d * w + u * h)
  <2>1. /\ (s * d + u) * (r * e * w + v * h) \in Nat
        /\ (s * e + v) * (r * d * w + u * h) \in Nat
        /\ (s * h) * (u * e) \in Nat /\ (r * w) * (v * d) \in Nat
        /\ (s * h) * (v * d) \in Nat /\ (r * w) * (u * e) \in Nat /\ k * f \in Nat
    OBVIOUS
  <2> QED
    BY <1>3, <1>4, <2>1
<1>6. /\ (s * d + u) * (r * e * w + v * h) \in Nat /\ k * f \in Nat
      /\ (s * e + v) * (r * d * w + u * h) \in Nat
  OBVIOUS
<1> QED
  BY <1>2, <1>5, <1>6

-----------------------------------------------------------------------------
(* Average sizes and rates are ratios.  NoLess: a request of size y at rate q
   is served at no lower a rate than one of size x at rate p, and takes no
   less time. *)
AverageSizes == Nat \X (Nat \ {0})
Rates == (Nat \ {0}) \X (Nat \ {0})
Time(x, p) == <<x[1] * p[2], x[2] * p[1]>>
NoLess(x, p, y, q) == AtMost(p, q) /\ AtMost(Time(x, p), Time(y, q))

len == Len(disk_bandwidth_table)
SizeOf(n) == disk_bandwidth_table[n][1]
RateOf(n) == disk_bandwidth_table[n][2]
Entry(n) == <<SizeOf(n), 1>>
EntryRate(n) == <<RateOf(n), 1>>
RateAt(x) == bandwidth_for_size(x[1], x[2])

(* Where a size is in the table: before it, beyond it, or from entry n up to
   the next. *)
Before(x) == x[1] <= First[1] * x[2]
After(x) == ~Before(x) /\ Last[1] * x[2] <= x[1]
From(x, n) == SizeOf(n) * x[2] <= x[1]
Within(x, n) == ~Before(x) /\ ~After(x) /\ From(x, n) /\ ~From(x, n + 1)

LEMMA NoLessChain ==
  ASSUME NEW x \in AverageSizes, NEW y \in AverageSizes, NEW z \in AverageSizes,
         NEW p \in Rates, NEW q \in Rates, NEW r \in Rates,
         NoLess(x, p, y, q), NoLess(y, q, z, r)
  PROVE  NoLess(x, p, z, r)
<1>1. /\ p[1] \in Nat /\ p[2] \in Nat \ {0} /\ q[1] \in Nat /\ q[2] \in Nat \ {0}
      /\ r[1] \in Nat /\ r[2] \in Nat \ {0}
      /\ p[1] # 0 /\ q[1] # 0 /\ r[1] # 0
      /\ x[1] \in Nat /\ x[2] \in Nat \ {0} /\ y[1] \in Nat /\ y[2] \in Nat \ {0}
      /\ z[1] \in Nat /\ z[2] \in Nat \ {0}
  BY DEF Rates, AverageSizes
<1>2. ASSUME NEW a1 \in Nat, NEW a2 \in Nat \ {0}, NEW b1 \in Nat, NEW b2 \in Nat \ {0},
             NEW c1 \in Nat, NEW c2 \in Nat \ {0},
             a1 * b2 <= b1 * a2, b1 * c2 <= c1 * b2
      PROVE  a1 * c2 <= c1 * a2
  <2>1. a1 * b2 <= a2 * b1 /\ b1 * c2 <= b2 * c1
    BY <1>2
  <2>2. a1 * c2 <= a2 * c1
    BY <2>1, RatiosChain
  <2> QED
    BY <2>2
<1>3. p[1] * r[2] <= r[1] * p[2]
  <2>1. p[1] * q[2] <= q[1] * p[2] /\ q[1] * r[2] <= r[1] * q[2]
    BY DEF NoLess, AtMost
  <2> QED
    BY <1>1, <1>2, <2>1
<1>4. (x[1] * p[2]) * (z[2] * r[1]) <= (z[1] * r[2]) * (x[2] * p[1])
  <2>1. /\ x[1] * p[2] \in Nat /\ y[1] * q[2] \in Nat /\ z[1] * r[2] \in Nat
        /\ x[2] * p[1] \in Nat \ {0} /\ y[2] * q[1] \in Nat \ {0}
        /\ z[2] * r[1] \in Nat \ {0}
    <3>1. \A a, b \in Nat : a * b \in Nat
      OBVIOUS
    <3>2. \A a, b \in Nat \ {0} : a * b \in Nat \ {0}
      OBVIOUS
    <3> QED
      BY <1>1, <3>1, <3>2
  <2>2. /\ (x[1] * p[2]) * (y[2] * q[1]) <= (y[1] * q[2]) * (x[2] * p[1])
        /\ (y[1] * q[2]) * (z[2] * r[1]) <= (z[1] * r[2]) * (y[2] * q[1])
    BY DEF NoLess, AtMost, Time
  <2> QED
    BY <1>2, <2>1, <2>2
<1> QED
  BY <1>3, <1>4 DEF NoLess, AtMost, Time

(* The table's entries. *)
LEMMA Entries ==
  /\ len \in Nat \ {0} /\ First = disk_bandwidth_table[1]
  /\ First[1] = SizeOf(1) /\ First[2] = RateOf(1)
  /\ Last[1] = SizeOf(len) /\ Last[2] = RateOf(len)
  /\ \A n \in 1..len : SizeOf(n) \in Nat \ {0} /\ RateOf(n) \in Nat \ {0}
  /\ \A m, n \in 1..len :
       m < n => /\ SizeOf(m) < SizeOf(n) /\ RateOf(m) <= RateOf(n)
                /\ SizeOf(m) * RateOf(n) <= SizeOf(n) * RateOf(m)
<1> DEFINE tbl == disk_bandwidth_table
<1>1. tbl \in Seq((Nat \ {0}) \X (Nat \ {0})) /\ tbl # <<>>
  BY TableAssumption DEF BandwidthShape
<1>2. Len(tbl) \in Nat \ {0} /\ DOMAIN tbl = 1..Len(tbl)
  BY <1>1
<1>3. ASSUME NEW n \in 1..Len(tbl)
      PROVE  SizeOf(n) \in Nat \ {0} /\ RateOf(n) \in Nat \ {0}
  <2>1. tbl[n] \in (Nat \ {0}) \X (Nat \ {0})
    BY <1>1
  <2> QED
    BY <2>1 DEF SizeOf, RateOf
<1>4. ASSUME NEW m \in 1..Len(tbl), NEW n \in 1..Len(tbl), m < n
      PROVE  /\ SizeOf(m) < SizeOf(n) /\ RateOf(m) <= RateOf(n)
             /\ SizeOf(m) * RateOf(n) <= SizeOf(n) * RateOf(m)
  BY <1>2, <1>4, TableAssumption DEF BandwidthShape, SizeOf, RateOf
<1> QED
  BY <1>2, <1>3, <1>4 DEF len, First, Last, SizeOf, RateOf

LEMMA EntryTypes ==
  ASSUME NEW n \in 1..len
  PROVE  Entry(n) \in AverageSizes /\ EntryRate(n) \in Rates
  BY Entries DEF Entry, EntryRate, AverageSizes, Rates

LEMMA EntriesInOrder ==
  ASSUME NEW m \in 1..len, NEW n \in 1..len, m <= n
  PROVE  NoLess(Entry(m), EntryRate(m), Entry(n), EntryRate(n))
<1>1. PICK s, t, p, q \in Nat :
        s = SizeOf(m) /\ t = SizeOf(n) /\ p = RateOf(m) /\ q = RateOf(n)
  BY Entries
<1>2. p <= q /\ s * q <= t * p
  <2>1. CASE m = n
    BY <1>1, <2>1
  <2>2. CASE m < n
    BY <1>1, <2>2, Entries
  <2> QED
    BY <2>1, <2>2, Entries
<1>3. (p * 1) <= q * 1 /\ (s * 1) * (1 * q) <= (t * 1) * (1 * p)
  BY <1>2
<1> QED
  BY <1>1, <1>3 DEF NoLess, AtMost, Time, Entry, EntryRate

(* Every size is in one of the places, which says what its rate is. *)
LEMMA Places ==
  ASSUME NEW x \in AverageSizes
  PROVE  /\ Before(x) => RateAt(x) = EntryRate(1)
         /\ After(x) => RateAt(x) = EntryRate(len)
         /\ ~Before(x) /\ ~After(x) =>
              \E n \in 1..len - 1 :
                /\ Within(x, n)
                /\ RateAt(x) = Between(disk_bandwidth_table[n],
                                       disk_bandwidth_table[n + 1], x[1], x[2])
<1>0. x[1] \in Nat /\ x[2] \in Nat \ {0}
  BY DEF AverageSizes
<1>1. ASSUME Before(x)
      PROVE  RateAt(x) = EntryRate(1)
  BY <1>1, Entries DEF Before, RateAt, bandwidth_for_size, EntryRate
<1>2. ASSUME After(x)
      PROVE  RateAt(x) = EntryRate(len)
  <2>1. /\ ~(x[1] <= First[1] * x[2])
        /\ x[1] >= Last[1] * x[2]
    <3>1. Last[1] * x[2] <= x[1] <=> x[1] >= Last[1] * x[2]
      OBVIOUS
    <3> QED
      BY <1>2, <3>1 DEF After, Before
  <2>2. RateAt(x) = Beyond(x[1], x[2])
    BY <2>1 DEF RateAt, bandwidth_for_size
  <2> QED
    BY <2>2, Entries DEF Beyond, EntryRate
<1>3. ASSUME ~Before(x), ~After(x)
      PROVE  \E n \in 1..len - 1 :
                /\ Within(x, n)
                /\ RateAt(x) = Between(disk_bandwidth_table[n],
                                       disk_bandwidth_table[n + 1], x[1], x[2])
  <2> DEFINE T == {n \in 1..len : ~From(x, n)}
             Fit(n) == /\ disk_bandwidth_table[n][1] * x[2] <= x[1]
                       /\ x[1] < disk_bandwidth_table[n + 1][1] * x[2]
             m == CHOOSE n \in 1..len - 1 : Fit(n)
  <2>0. \A n \in 1..len : SizeOf(n) * x[2] \in Nat
    <3>1. \A a, b \in Nat : a * b \in Nat
      OBVIOUS
    <3> QED
      BY <1>0, <3>1, Entries
  <2>1. len \in T /\ T \in SUBSET Nat /\ 1 \notin T
    <3>1. len \in 1..len /\ 1 \in 1..len
      BY Entries
    <3>2. ~From(x, len)
      BY <1>3, Entries DEF From, After
    <3>3. From(x, 1)
      BY <1>0, <1>3, <2>0, <3>1, Entries DEF From, Before
    <3> QED
      BY <3>1, <3>2, <3>3
  <2>2. PICK k \in T : \A n \in T : k <= n
    BY <2>1, LeastOf
  <2>3. k \in 1..len /\ k # 1 /\ k - 1 \in 1..len - 1 /\ k - 1 \in 1..len /\ k - 1 + 1 = k
    BY <2>1, <2>2, Entries
  <2>4. From(x, k - 1)
    <3>1. k - 1 \notin T
      BY <2>2, <2>3
    <3> QED
      BY <2>3, <3>1
  <2>5. Fit(k - 1)
    <3>1. SizeOf(k - 1) * x[2] <= x[1]
      BY <2>4 DEF From
    <3>2. x[1] < SizeOf(k) * x[2]
      <4>1. ~(SizeOf(k) * x[2] <= x[1])
        BY <2>2 DEF From
      <4> QED
        BY <1>0, <2>0, <2>3, <4>1
    <3> QED
      BY <2>3, <3>1, <3>2 DEF SizeOf
  <2>6. m \in 1..len - 1 /\ Fit(m)
    BY <2>3, <2>5
  <2>7. /\ ~(x[1] <= First[1] * x[2]) /\ ~(x[1] >= Last[1] * x[2])
    <3>1. Last[1] * x[2] <= x[1] <=> x[1] >= Last[1] * x[2]
      OBVIOUS
    <3> QED
      BY <1>3, <3>1 DEF Before, After
  <2>8. RateAt(x) = Between(disk_bandwidth_table[m], disk_bandwidth_table[m + 1],
                            x[1], x[2])
    BY <2>7 DEF RateAt, bandwidth_for_size, len
  <2> HIDE DEF m
  <2>9. Within(x, m)
    <3>1. m + 1 \in 1..len
      BY <2>6, Entries
    <3>2. From(x, m)
      BY <2>6 DEF From, SizeOf
    <3>3. ~From(x, m + 1)
      <4>1. x[1] < SizeOf(m + 1) * x[2]
        BY <2>6 DEF SizeOf
      <4> QED
        BY <1>0, <2>0, <3>1, <4>1 DEF From
    <3> QED
      BY <1>3, <3>2, <3>3 DEF Within
  <2> QED
    BY <2>6, <2>8, <2>9
<1> QED
  BY <1>1, <1>2, <1>3

(* What the rate at size z / d between two entries is made of. *)
Interpolates(z, d, n, s, r, w, h, u, rate) ==
  /\ w # 0 /\ r # 0 /\ s * h <= r * w /\ u <= d * w
  /\ s = SizeOf(n) /\ s + w = SizeOf(n + 1)
  /\ r = RateOf(n) /\ r + h = RateOf(n + 1)
  /\ z = s * d + u
  /\ rate = <<r * d * w + u * h, d * w>>

LEMMA BetweenEntries ==
  ASSUME NEW x \in AverageSizes, ~Before(x), ~After(x)
  PROVE  \E n \in 1..len - 1 :
           /\ Within(x, n)
           /\ \E s, r, w, h, u \in Nat :
                Interpolates(x[1], x[2], n, s, r, w, h, u, RateAt(x))
<1>0. PICK n \in 1..len - 1 :
        /\ Within(x, n)
        /\ RateAt(x) = Between(disk_bandwidth_table[n],
                               disk_bandwidth_table[n + 1], x[1], x[2])
  BY Places
<1>1. PICK d \in Nat \ {0} : d = x[2]
  BY DEF AverageSizes
<1>2. n \in 1..len /\ n + 1 \in 1..len /\ n < n + 1
  BY Entries
<1>3. PICK s, r, t, q \in Nat \ {0} :
        s = SizeOf(n) /\ t = SizeOf(n + 1) /\ r = RateOf(n) /\ q = RateOf(n + 1)
  BY <1>2, Entries
<1>4. s < t /\ r <= q /\ s * q <= t * r
  BY <1>2, <1>3, Entries
<1>5. PICK z \in Nat : z = x[1] /\ s * d <= z /\ ~(t * d <= z)
  BY <1>0, <1>1, <1>3 DEF AverageSizes, Within, From
<1>6. PICK w, h, u \in Nat : t = s + w /\ q = r + h /\ z = s * d + u
  <2>1. t - s \in Nat /\ q - r \in Nat /\ z - s * d \in Nat
    BY <1>4, <1>5
  <2>2. t = s + (t - s) /\ q = r + (q - r) /\ z = s * d + (z - s * d)
    OBVIOUS
  <2> QED
    BY <2>1, <2>2
<1>7. w # 0 /\ s * h <= r * w /\ u <= d * w
  <2>1. s * (r + h) = s * r + s * h /\ (s + w) * r = s * r + r * w
        /\ (s + w) * d = s * d + d * w
    OBVIOUS
  <2> QED
    BY <1>4, <1>5, <1>6, <2>1
<1>8. /\ r * d * (t - s) + (z - s * d) * (q - r) = r * d * w + u * h
      /\ d * (t - s) = d * w
  BY <1>6
<1>9. Between(disk_bandwidth_table[n], disk_bandwidth_table[n + 1], x[1], x[2])
        = <<r * d * w + u * h, d * w>>
  BY <1>1, <1>3, <1>5, <1>8 DEF Between, SizeOf, RateOf
<1>10. Interpolates(x[1], x[2], n, s, r, w, h, u, RateAt(x))
  BY <1>0, <1>1, <1>3, <1>5, <1>6, <1>7, <1>9 DEF Interpolates
<1> QED
  BY <1>0, <1>10

LEMMA WithinTypes ==
  ASSUME NEW r \in Nat \ {0}, NEW d \in Nat \ {0}, NEW w \in Nat \ {0},
         NEW u \in Nat, NEW h \in Nat
  PROVE  r * d * w + u * h \in Nat \ {0} /\ d * w \in Nat \ {0}
<1>1. \A a, b \in Nat \ {0} : a * b \in Nat \ {0}
  OBVIOUS
<1>2. r * d \in Nat \ {0} /\ u * h \in Nat
  BY <1>1
<1>3. r * d * w \in Nat \ {0} /\ d * w \in Nat \ {0}
  BY <1>1, <1>2
<1> QED
  BY <1>2, <1>3

LEMMA RateTypes ==
  ASSUME NEW x \in AverageSizes
  PROVE  RateAt(x) \in Rates
<1>1. CASE Before(x) \/ After(x)
  <2>1. 1 \in 1..len /\ len \in 1..len
    BY Entries
  <2> QED
    BY <1>1, <2>1, Places, EntryTypes
<1>2. CASE ~Before(x) /\ ~After(x)
  <2>1. PICK n \in 1..len - 1 :
          \E s, r, w, h, u \in Nat :
            Interpolates(x[1], x[2], n, s, r, w, h, u, RateAt(x))
    BY <1>2, BetweenEntries
  <2>2. PICK s, r, w, h, u \in Nat :
          Interpolates(x[1], x[2], n, s, r, w, h, u, RateAt(x))
    BY <2>1
  <2>3. x[2] \in Nat \ {0}
    BY DEF AverageSizes
  <2>4. r * x[2] * w + u * h \in Nat \ {0} /\ x[2] * w \in Nat \ {0}
    BY <2>2, <2>3, WithinTypes DEF Interpolates
  <2> QED
    BY <2>2, <2>4 DEF Rates, Interpolates
<1> QED
  BY <1>1, <1>2

(* An entry is no larger than the sizes from it on. *)
LEMMA EntryThenSize ==
  ASSUME NEW x \in AverageSizes, NEW k \in 1..len, From(x, k)
  PROVE  NoLess(Entry(k), EntryRate(k), x, RateAt(x))
<1>1. PICK z \in Nat, d \in Nat \ {0} : z = x[1] /\ d = x[2]
  BY DEF AverageSizes
<1>2. /\ len \in Nat \ {0} /\ 1 \in 1..len /\ len \in 1..len
  BY Entries
<1>3. PICK s \in Nat \ {0}, p \in Nat \ {0} :
        s = SizeOf(k) /\ p = RateOf(k) /\ s * d <= z
  BY <1>1, Entries DEF From
<1>4. CASE Before(x)
  <2>1. PICK f \in Nat \ {0} : f = SizeOf(1) /\ z <= f * d
    BY <1>1, <1>2, <1>4, Entries DEF Before
  <2>2. s <= f
    BY <1>3, <2>1, TimesCancels
  <2>3. k = 1
    BY <1>2, <1>3, <2>1, <2>2, Entries
  <2>4. p * 1 <= p * 1 /\ (s * 1) * (d * p) <= (z * 1) * (1 * p)
    <3>1. (s * d) * p <= z * p
      BY <1>3, TimesMonotonic
    <3> QED
      BY <3>1
  <2>5. RateAt(x) = EntryRate(k)
    BY <1>4, <2>3, Places
  <2> QED
    BY <1>1, <1>3, <2>4, <2>5 DEF NoLess, AtMost, Time, Entry, EntryRate
<1>5. CASE After(x)
  <2>1. NoLess(Entry(k), EntryRate(k), Entry(len), EntryRate(len))
    BY <1>2, EntriesInOrder
  <2>2. PICK f \in Nat \ {0}, q \in Nat \ {0} :
          f = SizeOf(len) /\ q = RateOf(len) /\ f * d <= z
    BY <1>1, <1>2, <1>5, Entries DEF After
  <2>3. q * 1 <= q * 1 /\ (f * 1) * (d * q) <= (z * 1) * (1 * q)
    <3>1. (f * d) * q <= z * q
      BY <2>2, TimesMonotonic
    <3> QED
      BY <3>1
  <2>4. NoLess(Entry(len), EntryRate(len), x, EntryRate(len))
    BY <1>1, <2>2, <2>3 DEF NoLess, AtMost, Time, Entry, EntryRate
  <2> QED
    BY <1>2, <1>5, <2>1, <2>4, Places, EntryTypes, NoLessChain
<1>6. CASE ~Before(x) /\ ~After(x)
  <2>1. PICK n \in 1..len - 1 :
          /\ Within(x, n)
          /\ \E a, r, w, h, u \in Nat : Interpolates(z, d, n, a, r, w, h, u, RateAt(x))
    BY <1>1, <1>6, BetweenEntries
  <2>2. n \in 1..len /\ n + 1 \in 1..len
    BY <1>2, <2>1
  <2>3. k <= n
    <3> SUFFICES ASSUME n + 1 <= k PROVE FALSE
      BY <1>2, <2>1
    <3>1. PICK t \in Nat : t = SizeOf(n + 1) /\ ~(t * d <= z)
      BY <1>1, <2>1, <2>2, Entries DEF Within, From
    <3>2. t <= s
      BY <1>3, <2>2, <3>1, Entries
    <3>3. t * d <= s * d /\ t * d \in Nat /\ s * d \in Nat
      BY <3>2, TimesMonotonic
    <3> QED
      BY <1>3, <3>1, <3>3
  <2>4. PICK a, r, w, h, u \in Nat : Interpolates(z, d, n, a, r, w, h, u, RateAt(x))
    BY <2>1
  <2>5. /\ r * (d * w) <= r * d * w + u * h
        /\ a * (r * d * w + u * h) <= (a * d + u) * w * r
    BY <2>4, AboveLower DEF Interpolates
  <2>6. /\ r * (d * w) <= (r * d * w + u * h) * 1
        /\ (a * 1) * (d * (r * d * w + u * h)) <= (z * (d * w)) * (1 * r)
    <3>1. PICK c, e \in Nat : c = r * d * w + u * h /\ e = (a * d + u) * w * r
      OBVIOUS
    <3>2. d * (a * c) <= d * e
      <4>1. a * c \in Nat
        OBVIOUS
      <4> QED
        BY <2>5, <3>1, <4>1, TimesMonotonic
    <3>3. d * e = (z * (d * w)) * (1 * r)
      BY <2>4, <3>1 DEF Interpolates
    <3> QED
      BY <2>5, <3>1, <3>2, <3>3
  <2>7. NoLess(Entry(n), EntryRate(n), x, RateAt(x))
    BY <1>1, <2>4, <2>6 DEF NoLess, AtMost, Time, Entry, EntryRate, Interpolates
  <2>8. NoLess(Entry(k), EntryRate(k), Entry(n), EntryRate(n))
    BY <2>2, <2>3, EntriesInOrder
  <2> QED
    BY <2>2, <2>7, <2>8, RateTypes, EntryTypes, NoLessChain
<1> QED
  BY <1>4, <1>5, <1>6

(* An entry is no smaller than the sizes up to it. *)
LEMMA SizeThenEntry ==
  ASSUME NEW x \in AverageSizes, NEW k \in 1..len, Before(x) \/ ~From(x, k)
  PROVE  NoLess(x, RateAt(x), Entry(k), EntryRate(k))
<1>1. PICK z \in Nat, d \in Nat \ {0} : z = x[1] /\ d = x[2]
  BY DEF AverageSizes
<1>2. len \in Nat \ {0} /\ 1 \in 1..len /\ len \in 1..len
  BY Entries
<1>3. CASE Before(x)
  <2>1. PICK f \in Nat \ {0}, p \in Nat \ {0} :
          f = SizeOf(1) /\ p = RateOf(1) /\ z <= f * d
    BY <1>1, <1>2, <1>3, Entries DEF Before
  <2>2. p * 1 <= p * 1 /\ (z * 1) * (1 * p) <= (f * 1) * (d * p)
    <3>1. z * p <= (f * d) * p
      BY <2>1, TimesMonotonic
    <3> QED
      BY <3>1
  <2>3. NoLess(x, EntryRate(1), Entry(1), EntryRate(1))
    BY <1>1, <2>1, <2>2 DEF NoLess, AtMost, Time, Entry, EntryRate
  <2>4. NoLess(Entry(1), EntryRate(1), Entry(k), EntryRate(k))
    BY <1>2, EntriesInOrder
  <2> QED
    BY <1>2, <1>3, <2>3, <2>4, Places, EntryTypes, NoLessChain
<1>4. PICK s \in Nat \ {0} : s = SizeOf(k)
  BY Entries
<1>5. CASE After(x)
  <2>1. ~(s * d <= z)
    BY <1>1, <1>4, <1>5 DEF After, From
  <2>2. PICK f \in Nat \ {0} : f = SizeOf(len) /\ f * d <= z
    BY <1>1, <1>2, <1>5, Entries DEF After
  <2>3. s <= f
    BY <1>2, <1>4, <2>2, Entries
  <2>4. s * d <= f * d /\ s * d \in Nat /\ f * d \in Nat
    BY <2>3, TimesMonotonic
  <2> QED
    BY <2>1, <2>2, <2>4
<1>6. CASE ~Before(x) /\ ~After(x)
  <2>1. PICK n \in 1..len - 1 :
          /\ Within(x, n)
          /\ \E a, r, w, h, u \in Nat : Interpolates(z, d, n, a, r, w, h, u, RateAt(x))
    BY <1>1, <1>6, BetweenEntries
  <2>2. n \in 1..len /\ n + 1 \in 1..len
    BY <1>2, <2>1
  <2>3. n + 1 <= k
    <3> SUFFICES ASSUME k <= n PROVE FALSE
      BY <1>2, <2>1
    <3>1. PICK t \in Nat : t = SizeOf(n) /\ t * d <= z
      BY <1>1, <2>1, <2>2, Entries DEF Within, From
    <3>2. s <= t
      BY <1>4, <2>2, <3>1, Entries
    <3>3. s * d <= t * d /\ t * d \in Nat /\ s * d \in Nat
      BY <3>2, TimesMonotonic
    <3>4. ~(s * d <= z)
      BY <1>1, <1>4, <1>6 DEF From
    <3> QED
      BY <3>1, <3>3, <3>4
  <2>4. PICK a, r, w, h, u \in Nat : Interpolates(z, d, n, a, r, w, h, u, RateAt(x))
    BY <2>1
  <2>5. /\ r * d * w + u * h <= (r + h) * (d * w)
        /\ (a * d + u) * w * (r + h) <= (a + w) * (r * d * w + u * h)
    BY <2>4, BelowUpper DEF Interpolates
  <2>6. /\ (r * d * w + u * h) * 1 <= (r + h) * (d * w)
        /\ (z * (d * w)) * (1 * (r + h)) <= ((a + w) * 1) * (d * (r * d * w + u * h))
    <3>1. PICK c, e \in Nat :
            c = (a + w) * (r * d * w + u * h) /\ e = (a * d + u) * w * (r + h)
      OBVIOUS
    <3>2. d * e <= d * c
      BY <2>5, <3>1, TimesMonotonic
    <3>3. d * e = (z * (d * w)) * (1 * (r + h))
      BY <2>4, <3>1 DEF Interpolates
    <3>4. d * c = ((a + w) * 1) * (d * (r * d * w + u * h))
      BY <3>1
    <3> QED
      BY <2>5, <3>2, <3>3, <3>4
  <2>7. NoLess(x, RateAt(x), Entry(n + 1), EntryRate(n + 1))
    BY <1>1, <2>4, <2>6 DEF NoLess, AtMost, Time, Entry, EntryRate, Interpolates
  <2>8. NoLess(Entry(n + 1), EntryRate(n + 1), Entry(k), EntryRate(k))
    BY <2>2, <2>3, EntriesInOrder
  <2> QED
    BY <2>2, <2>7, <2>8, RateTypes, EntryTypes, NoLessChain
<1> QED
  BY <1>3, <1>5, <1>6

(* Larger sizes are from the same entries on, and maybe from more. *)
LEMMA LargerIsFrom ==
  ASSUME NEW x \in AverageSizes, NEW y \in AverageSizes, AtMost(x, y),
         NEW s \in Nat, s * x[2] <= x[1]
  PROVE  s * y[2] <= y[1]
<1>1. PICK z, b \in Nat, d, e \in Nat \ {0} :
        z = x[1] /\ d = x[2] /\ b = y[1] /\ e = y[2]
  BY DEF AverageSizes
<1>2. z * e <= b * d /\ s * d <= z
  BY <1>1 DEF AtMost
<1>3. (s * d) * e <= z * e
  BY <1>2, TimesMonotonic
<1>4. (s * e) * d <= b * d
  <2>1. (s * d) * e = (s * e) * d /\ (s * d) * e \in Nat /\ z * e \in Nat /\ b * d \in Nat
    OBVIOUS
  <2> QED
    BY <1>2, <1>3, <2>1
<1>5. s * e <= b
  BY <1>4, TimesCancels
<1> QED
  BY <1>1, <1>5

LEMMA OneInterval ==
  ASSUME NEW x \in AverageSizes, NEW m \in 1..len - 1, NEW n \in 1..len - 1,
         From(x, m), ~From(x, n + 1)
  PROVE  m <= n
<1> SUFFICES ASSUME n + 1 <= m PROVE FALSE
  BY Entries
<1>1. m \in 1..len /\ n + 1 \in 1..len
  BY Entries
<1>2. PICK z \in Nat, d \in Nat \ {0} : z = x[1] /\ d = x[2]
  BY DEF AverageSizes
<1>3. PICK s, t \in Nat : s = SizeOf(m) /\ t = SizeOf(n + 1)
  BY <1>1, Entries
<1>4. t <= s
  BY <1>1, <1>3, Entries
<1>5. t * d <= s * d /\ t * d \in Nat /\ s * d \in Nat
  BY <1>4, TimesMonotonic
<1>6. s * d <= z /\ ~(t * d <= z)
  BY <1>2, <1>3 DEF From
<1> QED
  BY <1>5, <1>6

(* Two sizes between the same entries. *)
LEMMA SizesOfInterval ==
  ASSUME NEW x \in AverageSizes, NEW y \in AverageSizes, AtMost(x, y),
         ~Before(x), ~After(x), ~Before(y), ~After(y),
         \A k \in 1..len : From(y, k) => From(x, k)
  PROVE  NoLess(x, RateAt(x), y, RateAt(y))
<1>1. PICK z, b \in Nat, d, e \in Nat \ {0} :
        z = x[1] /\ d = x[2] /\ b = y[1] /\ e = y[2]
  BY DEF AverageSizes
<1>2. PICK n \in 1..len - 1 :
        /\ Within(x, n)
        /\ \E s, r, w, h, u \in Nat : Interpolates(z, d, n, s, r, w, h, u, RateAt(x))
  BY <1>1, BetweenEntries
<1>3. PICK m \in 1..len - 1 :
        /\ Within(y, m)
        /\ \E s, r, w, h, u \in Nat : Interpolates(b, e, m, s, r, w, h, u, RateAt(y))
  BY <1>1, BetweenEntries
<1>4. m = n
  <2>1. m \in 1..len /\ n \in 1..len /\ n + 1 \in 1..len /\ m + 1 \in 1..len
    BY Entries
  <2>2. From(x, m) /\ ~From(x, n + 1)
    BY <1>2, <1>3, <2>1 DEF Within
  <2>3. From(y, n) /\ ~From(y, m + 1)
    BY <1>2, <1>3, <2>1, LargerIsFrom, Entries DEF Within, From
  <2>4. m <= n /\ n <= m
    BY <2>2, <2>3, OneInterval
  <2> QED
    BY <2>1, <2>4, Entries
<1>5. PICK s, r, w, h, u \in Nat : Interpolates(z, d, n, s, r, w, h, u, RateAt(x))
  BY <1>2
<1>6. PICK v \in Nat : Interpolates(b, e, n, s, r, w, h, v, RateAt(y))
  <2>1. PICK s2, r2, w2, h2, v \in Nat :
          Interpolates(b, e, n, s2, r2, w2, h2, v, RateAt(y))
    BY <1>3, <1>4
  <2>2. s2 = s /\ r2 = r /\ w2 = w /\ h2 = h
    BY <1>5, <2>1 DEF Interpolates
  <2> QED
    BY <2>1, <2>2
<1>7. u * e <= v * d
  <2>1. (s * d + u) * e <= (s * e + v) * d
    BY <1>1, <1>5, <1>6 DEF AtMost, Interpolates
  <2>2. /\ (s * d + u) * e = s * d * e + u * e /\ (s * e + v) * d = s * d * e + v * d
        /\ s * d * e \in Nat /\ u * e \in Nat /\ v * d \in Nat
    OBVIOUS
  <2> QED
    BY <2>1, <2>2
<1>8. PICK f, g \in Nat : f = r * d * w + u * h /\ g = r * e * w + v * h
  OBVIOUS
<1>9. f * e <= g * d /\ z * g <= b * f
  BY <1>5, <1>6, <1>7, <1>8, InOneInterval DEF Interpolates
<1>10. f * (e * w) <= g * (d * w)
  <2>1. (f * e) * w <= (g * d) * w
    <3>1. f * e \in Nat /\ g * d \in Nat
      OBVIOUS
    <3> QED
      BY <1>9, <3>1, TimesMonotonic
  <2> QED
    BY <2>1
<1>11. (z * (d * w)) * (e * g) <= (b * (e * w)) * (d * f)
  <2>1. (z * g) * (d * w * e) <= (b * f) * (d * w * e)
    <3>1. z * g \in Nat /\ b * f \in Nat /\ d * w * e \in Nat
      OBVIOUS
    <3> QED
      BY <1>9, <3>1, TimesMonotonic
  <2>2. /\ (z * g) * (d * w * e) = (z * (d * w)) * (e * g)
        /\ (b * f) * (d * w * e) = (b * (e * w)) * (d * f)
    OBVIOUS
  <2> QED
    BY <2>1, <2>2
<1>12. RateAt(x) = <<f, d * w>> /\ RateAt(y) = <<g, e * w>>
  BY <1>5, <1>6, <1>8 DEF Interpolates
<1> QED
  BY <1>1, <1>10, <1>11, <1>12 DEF NoLess, AtMost, Time

(* The larger the average size, the higher the rate, and the longer each
   request takes. *)
LEMMA RateGrows ==
  ASSUME NEW x \in AverageSizes, NEW y \in AverageSizes, AtMost(x, y)
  PROVE  NoLess(x, RateAt(x), y, RateAt(y))
<1>1. PICK z, b \in Nat, d, e \in Nat \ {0} :
        z = x[1] /\ d = x[2] /\ b = y[1] /\ e = y[2]
  BY DEF AverageSizes
<1>2. RateAt(x) \in Rates /\ RateAt(y) \in Rates /\ len \in Nat \ {0}
      /\ 1 \in 1..len /\ len \in 1..len
  BY RateTypes, Entries
<1>3. ASSUME NEW k \in 1..len, Before(x) \/ ~From(x, k), From(y, k)
      PROVE  NoLess(x, RateAt(x), y, RateAt(y))
  BY <1>2, <1>3, SizeThenEntry, EntryThenSize, EntryTypes, NoLessChain
<1>4. ASSUME Before(y)
      PROVE  Before(x)
  <2>1. PICK g \in Nat \ {0} : g = First[1]
    BY <1>2, Entries
  <2>2. z * e <= b * d /\ b <= g * e
    BY <1>1, <1>4, <2>1 DEF AtMost, Before
  <2>3. z * e <= (g * d) * e
    <3>1. b * d <= (g * e) * d
      BY <2>2, TimesMonotonic
    <3>2. /\ z * e \in Nat /\ b * d \in Nat /\ (g * d) * e \in Nat
          /\ (g * e) * d = (g * d) * e
      OBVIOUS
    <3> QED
      BY <2>2, <3>1, <3>2
  <2>4. z <= g * d
    BY <2>3, TimesCancels
  <2> QED
    BY <1>1, <2>1, <2>4 DEF Before
<1>5. CASE Before(x)
  <2>1. CASE From(y, 1)
    BY <1>2, <1>3, <1>5, <2>1
  <2>2. CASE ~From(y, 1)
    <3>1. PICK f \in Nat \ {0}, p \in Nat \ {0} :
            f = SizeOf(1) /\ p = RateOf(1) /\ ~(f * e <= b)
      BY <1>1, <1>2, <2>2, Entries DEF From
    <3>2. Before(y)
      <4>1. f * e \in Nat
        OBVIOUS
      <4> QED
        BY <1>1, <3>1, <4>1, Entries DEF Before
    <3>3. RateAt(x) = <<p, 1>> /\ RateAt(y) = <<p, 1>>
      BY <1>5, <3>1, <3>2, Places DEF EntryRate
    <3>4. z * e <= b * d
      BY <1>1 DEF AtMost
    <3>5. p * 1 <= p * 1 /\ (z * 1) * (e * p) <= (b * 1) * (d * p)
      <4>1. (z * e) * p <= (b * d) * p
        BY <3>4, TimesMonotonic
      <4> QED
        BY <4>1
    <3> QED
      BY <1>1, <3>3, <3>5 DEF NoLess, AtMost, Time
  <2> QED
    BY <2>1, <2>2
<1>6. CASE ~Before(x) /\ After(x)
  <2>1. PICK f \in Nat \ {0}, p \in Nat \ {0} :
          f = SizeOf(len) /\ p = RateOf(len) /\ f * d <= z
    BY <1>1, <1>2, <1>6, Entries DEF After
  <2>2. f * e <= b
    BY <1>1, <2>1, LargerIsFrom
  <2>3. RateAt(x) = <<p, 1>>
    BY <1>6, <2>1, Places DEF EntryRate
  <2>4. z * e <= b * d
    BY <1>1 DEF AtMost
  <2>5. ~Before(y)
    BY <1>4, <1>6
  <2>6. RateAt(y) = <<p, 1>>
    <3>1. After(y)
      BY <1>1, <2>1, <2>2, <2>5, Entries DEF After
    <3> QED
      BY <2>1, <3>1, Places DEF EntryRate
  <2>7. p * 1 <= p * 1 /\ (z * 1) * (e * p) <= (b * 1) * (d * p)
    <3>1. (z * e) * p <= (b * d) * p
      BY <2>4, TimesMonotonic
    <3> QED
      BY <3>1
  <2> QED
    BY <1>1, <2>3, <2>6, <2>7 DEF NoLess, AtMost, Time
<1>7. CASE ~Before(x) /\ ~After(x)
  <2>1. CASE \E k \in 1..len : ~From(x, k) /\ From(y, k)
    BY <1>3, <2>1
  <2>2. CASE \A k \in 1..len : From(y, k) => From(x, k)
    <3>1. ~After(y)
      <4> SUFFICES ASSUME After(y) PROVE FALSE
        OBVIOUS
      <4>1. From(y, len)
        BY <1>2, Entries DEF After, From
      <4>2. From(x, len)
        BY <1>2, <2>2, <4>1
      <4> QED
        BY <1>2, <1>7, <4>2, Entries DEF After, From
    <3>2. ~Before(y)
      BY <1>4, <1>7
    <3> QED
      BY <1>7, <2>2, <3>1, <3>2, SizesOfInterval
  <2> QED
    BY <2>1, <2>2
<1> QED
  BY <1>5, <1>6, <1>7

(* One more request, of any size, does not lower the time that the disk needs
   for all of them. *)
LEMMA MoreTakesLonger ==
  ASSUME NEW bytes \in Nat, NEW ios \in Nat \ {0}, NEW more \in Nat
  PROVE  AtMost(<<bytes * RateAt(<<bytes, ios>>)[2], RateAt(<<bytes, ios>>)[1]>>,
                <<(bytes + more) * RateAt(<<bytes + more, ios + 1>>)[2],
                  RateAt(<<bytes + more, ios + 1>>)[1]>>)
<1> DEFINE x == <<bytes, ios>>
           y == <<bytes + more, ios + 1>>
<1>1. x \in AverageSizes /\ y \in AverageSizes
  BY DEF AverageSizes
<1>2. PICK p, q, r, s \in Nat \ {0} :
        p = RateAt(x)[1] /\ q = RateAt(x)[2] /\ r = RateAt(y)[1] /\ s = RateAt(y)[2]
  BY <1>1, RateTypes DEF Rates
<1>3. x[1] = bytes /\ x[2] = ios /\ y[1] = bytes + more /\ y[2] = ios + 1
  OBVIOUS
<1>4. CASE AtMost(x, y)
  <2>1. (bytes * q) * ((ios + 1) * r) <= ((bytes + more) * s) * (ios * p)
    BY <1>1, <1>2, <1>3, <1>4, RateGrows DEF NoLess, AtMost, Time
  <2>2. PICK a, b \in Nat : a = (bytes * q) * r /\ b = ((bytes + more) * s) * p
    OBVIOUS
  <2>3. a * (ios + 1) <= b * ios
    BY <2>1, <2>2
  <2>4. b * ios <= b * (ios + 1)
    BY TimesMonotonic
  <2>5. a * (ios + 1) <= b * (ios + 1)
    <3>1. a * (ios + 1) \in Nat /\ b * ios \in Nat /\ b * (ios + 1) \in Nat
      OBVIOUS
    <3> QED
      BY <2>3, <2>4, <3>1
  <2>6. a <= b
    <3>1. ios + 1 \in Nat \ {0}
      OBVIOUS
    <3> QED
      BY <2>5, <3>1, TimesCancels
  <2> QED
    BY <1>2, <2>2, <2>6 DEF AtMost
<1>5. CASE ~AtMost(x, y)
  <2>1. AtMost(y, x)
    <3>1. PICK a, b \in Nat : a = bytes * (ios + 1) /\ b = (bytes + more) * ios
      OBVIOUS
    <3>2. ~(a <= b) => b <= a
      OBVIOUS
    <3> QED
      BY <1>3, <1>5, <3>1, <3>2 DEF AtMost
  <2>2. r * q <= p * s
    BY <1>1, <1>2, <2>1, RateGrows DEF NoLess, AtMost
  <2>3. (r * q) * bytes <= (p * s) * bytes /\ (p * s) * bytes <= (p * s) * (bytes + more)
    <3>1. r * q \in Nat /\ p * s \in Nat /\ bytes <= bytes + more
      OBVIOUS
    <3> QED
      BY <2>2, <3>1, TimesMonotonic
  <2>4. (bytes * q) * r <= ((bytes + more) * s) * p
    <3>1. /\ (r * q) * bytes \in Nat /\ (p * s) * bytes \in Nat
          /\ (p * s) * (bytes + more) \in Nat
          /\ (bytes * q) * r = (r * q) * bytes
          /\ ((bytes + more) * s) * p = (p * s) * (bytes + more)
      OBVIOUS
    <3> QED
      BY <2>3, <3>1
  <2> QED
    BY <1>2, <2>4 DEF AtMost
<1> QED
  BY <1>4, <1>5

LEMMA MissRaisesCost ==
  ASSUME NEW base \in Nat \ {0}, NEW ops \in Nat, NEW threads \in Nat,
         NEW bytes \in Nat, NEW ios \in Nat, NEW more \in Nat
  PROVE  AtMost(effective_us_per_op(base, ops, threads, bytes, ios),
                effective_us_per_op(base, ops, threads, bytes + more, ios + 1))
<1> DEFINE Idle(b, n) == ops <= 0 \/ threads <= 1 \/ n <= 0 \/ b <= 0
           Unsaturated(b, n) ==
             LET bw == bandwidth_for_size(b, n)
             IN  \/ Idle(b, n)
                 \/ AtMost(<<threads * b, ops * base>>, bw)
                 \/ AtMost(<<threads * b * bw[2], ops * bw[1]>>, <<base, 1>>)
           Saturated(b, n) ==
             LET bw == bandwidth_for_size(b, n)
             IN  <<threads * b * bw[2], ops * bw[1]>>
           Cost(b, n) == effective_us_per_op(base, ops, threads, b, n)
<1>1. ASSUME NEW b \in Nat, NEW n \in Nat
      PROVE  Cost(b, n) = IF Unsaturated(b, n) THEN <<base, 1>> ELSE Saturated(b, n)
  BY DEF effective_us_per_op
<1>2. bytes + more \in Nat /\ ios + 1 \in Nat
  OBVIOUS
<1> DEFINE b2 == bytes + more
           n2 == ios + 1
<1>3. CASE Unsaturated(bytes, ios)
  <2>1. CASE Unsaturated(b2, n2)
    <3>1. Cost(bytes, ios) = <<base, 1>> /\ Cost(b2, n2) = <<base, 1>>
      BY <1>1, <1>2, <1>3, <2>1
    <3> QED
      BY <3>1 DEF AtMost
  <2>2. CASE ~Unsaturated(b2, n2)
    <3>1. Cost(bytes, ios) = <<base, 1>> /\ Cost(b2, n2) = Saturated(b2, n2)
      BY <1>1, <1>2, <1>3, <2>2
    <3>2. ~AtMost(Saturated(b2, n2), <<base, 1>>)
      BY <2>2
    <3>3. PICK p, q \in Nat : Saturated(b2, n2) = <<p, q>>
      <4>1. <<b2, n2>> \in AverageSizes
        BY DEF AverageSizes
      <4>2. PICK r, s \in Nat :
              r = bandwidth_for_size(b2, n2)[1] /\ s = bandwidth_for_size(b2, n2)[2]
        BY <4>1, RateTypes DEF Rates, RateAt
      <4>3. threads * b2 * s \in Nat /\ ops * r \in Nat
        OBVIOUS
      <4> QED
        BY <4>2, <4>3
    <3>4. ~(p * 1 <= base * q)
      BY <3>2, <3>3 DEF AtMost
    <3>5. base * q <= p * 1
      <4>1. base * q \in Nat
        OBVIOUS
      <4> QED
        BY <3>4, <4>1
    <3> QED
      BY <3>1, <3>3, <3>5 DEF AtMost
  <2> QED
    BY <2>1, <2>2
<1>4. CASE ~Unsaturated(bytes, ios)
  <2>1. /\ ops \in Nat \ {0} /\ threads \in Nat \ {0} /\ ios \in Nat \ {0}
        /\ bytes \in Nat \ {0} /\ ~(threads <= 1)
    BY <1>4
  <2>2. <<bytes, ios>> \in AverageSizes /\ <<b2, n2>> \in AverageSizes
    BY <2>1 DEF AverageSizes
  <2>3. PICK p, q, r, s \in Nat \ {0} :
          /\ p = bandwidth_for_size(bytes, ios)[1] /\ q = bandwidth_for_size(bytes, ios)[2]
          /\ r = bandwidth_for_size(b2, n2)[1] /\ s = bandwidth_for_size(b2, n2)[2]
    BY <2>2, RateTypes DEF Rates, RateAt
  <2>4. (bytes * q) * r <= (b2 * s) * p
    BY <2>1, <2>3, MoreTakesLonger DEF AtMost, RateAt
  <2>5. Cost(bytes, ios) = <<threads * bytes * q, ops * p>>
    BY <1>1, <1>4, <2>3
  <2>6. (threads * bytes * q) * (ops * r) <= (threads * b2 * s) * (ops * p)
    <3>1. ((bytes * q) * r) * (threads * ops) <= ((b2 * s) * p) * (threads * ops)
      <4>1. (bytes * q) * r \in Nat /\ (b2 * s) * p \in Nat /\ threads * ops \in Nat
        OBVIOUS
      <4> QED
        BY <2>4, <4>1, TimesMonotonic
    <3>2. /\ (threads * bytes * q) * (ops * r) = ((bytes * q) * r) * (threads * ops)
          /\ (threads * b2 * s) * (ops * p) = ((b2 * s) * p) * (threads * ops)
      OBVIOUS
    <3> QED
      BY <3>1, <3>2
  <2>7. CASE Cost(b2, n2) = Saturated(b2, n2)
    BY <2>3, <2>5, <2>6, <2>7 DEF AtMost
  <2>8. CASE Cost(b2, n2) # Saturated(b2, n2)
    <3>1. Unsaturated(b2, n2) /\ Cost(b2, n2) = <<base, 1>>
      BY <1>1, <1>2, <2>8
    <3>2. ~Idle(b2, n2)
      BY <2>1
    <3>3. threads * b2 * s <= base * (ops * r)
      <4>1. \/ threads * b2 * s <= r * (ops * base)
            \/ (threads * b2 * s) * 1 <= base * (ops * r)
        <5>1. \/ AtMost(<<threads * b2, ops * base>>, bandwidth_for_size(b2, n2))
              \/ AtMost(<<threads * b2 * s, ops * r>>, <<base, 1>>)
          BY <2>3, <3>1, <3>2
        <5> QED
          BY <2>3, <5>1 DEF AtMost
      <4>2. r * (ops * base) = base * (ops * r) /\ (threads * b2 * s) * 1 = threads * b2 * s
        OBVIOUS
      <4> QED
        BY <4>1, <4>2
    <3>4. (threads * bytes * q) * 1 <= base * (ops * p)
      <4>1. PICK a, b, c, e, f \in Nat :
              /\ a = threads * bytes * q /\ b = ops * r /\ c = threads * b2 * s
              /\ e = ops * p /\ f = base
        OBVIOUS
      <4>2. b # 0
        BY <2>1, <4>1
      <4>3. a * b <= c * e /\ c <= f * b
        BY <2>6, <3>3, <4>1
      <4>4. c * e <= (f * b) * e
        BY <4>3, TimesMonotonic
      <4>5. a * b <= (f * e) * b
        <5>1. a * b \in Nat /\ c * e \in Nat /\ (f * e) * b = (f * b) * e
              /\ (f * e) * b \in Nat
          OBVIOUS
        <5> QED
          BY <4>3, <4>4, <5>1
      <4>6. a <= f * e
        BY <4>2, <4>5, TimesCancels
      <4> QED
        BY <4>1, <4>6
    <3> QED
      BY <2>5, <3>1, <3>4 DEF AtMost
  <2> QED
    BY <2>7, <2>8
<1> QED
  BY <1>3, <1>4

-----------------------------------------------------------------------------
(* What the cost is made of has its type. *)
CostTypes ==
  /\ total_miss_bytes \in Nat
  /\ "op_count" \in DOMAIN tally /\ tally.op_count \in Nat

(* Only a miss is counted as an I/O, with the bytes of its block. *)
LEMMA MissEffect ==
  ASSUME Inv, SimNext, total_io_count' # total_io_count
  PROVE  /\ tally' = tally /\ total_io_count' = total_io_count + 1
         /\ \E more \in Nat : total_miss_bytes' = total_miss_bytes + more
<1>1. InLookup /\ AccessMiss
  BY DEF SimNext, SimStep, Stopped, NextOp, LookupCandidate, BeginLookup, InLookup,
         AfterLookup, EndOp, Reapply, ApplyPolicy, Report, allVars, vars, stats,
         LookupStep, AccessHit, CacheInsert, FilterRejects, FilterPasses, EndIndex,
         EndLookup
<1>2. NextBlock \in Blocks
  BY <1>1, NextBlockType DEF AccessMiss, AtBlock
<1>3. Size[NextBlock] \in Nat
  BY <1>2, BlocksAssumption
<1> QED
  BY <1>1, <1>3 DEF AccessMiss, InLookup, simVars

LEMMA CostTypesStep ==
  Inv /\ CostTypes /\ [SimNext]_allVars => CostTypes'
<1> SUFFICES ASSUME Inv, CostTypes, [SimNext]_allVars PROVE CostTypes'
  OBVIOUS
<1>1. total_miss_bytes' \in Nat
  <2>1. CASE SimNext /\ total_io_count' # total_io_count
    BY <2>1, MissEffect DEF CostTypes
  <2>2. CASE SimNext /\ total_io_count' = total_io_count
    <3>1. ~AccessMiss
      BY <2>2 DEF AccessMiss, Inv, SimTypes
    <3>2. total_miss_bytes' = total_miss_bytes
      BY <2>2, <3>1
      DEF SimNext, SimStep, Stopped, NextOp, LookupCandidate, BeginLookup, InLookup,
          AfterLookup, EndOp, Reapply, ApplyPolicy, Report, allVars, vars, stats,
          LookupStep, AccessHit, CacheInsert, FilterRejects, FilterPasses, EndIndex,
          EndLookup
    <3> QED
      BY <3>2 DEF CostTypes
  <2>3. CASE UNCHANGED allVars
    BY <2>3 DEF allVars, vars, stats, CostTypes
  <2> QED
    BY <2>1, <2>2, <2>3
<1>2. "op_count" \in DOMAIN tally' /\ tally'.op_count \in Nat
  <2>1. CASE tally' = tally
    BY <2>1 DEF CostTypes
  <2>2. ASSUME NEW k \in Keys, NEW present \in BOOLEAN, NEW seek \in BOOLEAN,
               NextOp(k, present, seek)
        PROVE  "op_count" \in DOMAIN tally' /\ tally'.op_count \in Nat
    <3>1. tally' = [tally EXCEPT !.op_count = @ + 1]
      BY <2>2 DEF NextOp
    <3> QED
      BY <3>1 DEF CostTypes
  <2>3. ASSUME NEW chosen \in Policies, Reapply(chosen)
        PROVE  "op_count" \in DOMAIN tally' /\ tally'.op_count \in Nat
    <3> DEFINE changed == {s \in SSTs : chosen[s] # active_scheme[s]}
    <3>1. tally' = [tally EXCEPT !.reapply_count = @ + 1,
                                 !.scheme_transitions = @ + Cardinality(changed)]
      BY <2>3 DEF Reapply
    <3> HIDE DEF changed
    <3> QED
      BY <3>1 DEF CostTypes
  <2>4. CASE LookupCandidate \/ InLookup \/ AfterLookup \/ EndOp \/ Report \/ Stopped
             \/ UNCHANGED allVars
    <3>1. tally' = tally
      BY <2>4 DEF LookupCandidate, InLookup, AfterLookup, EndOp, Report, Stopped,
                  allVars, simVars
    <3> QED
      BY <2>1, <3>1
  <2> QED
    BY <2>2, <2>3, <2>4 DEF SimNext, SimStep
<1> QED
  BY <1>1, <1>2 DEF CostTypes

(* However the sizes of blocks and the measurements of the disk may be, no
   miss makes an operation cheaper than it was. *)
THEOREM MissesCorrect == SimSpec => MissesNeverPay
<1>1. SimInit => Inv /\ CostTypes
  BY InitInv DEF SimInit, Init, CostTypes
<1>2. Inv /\ CostTypes /\ [SimNext]_allVars => Inv' /\ CostTypes'
  BY InvStep, CostTypesStep
<1>3. ASSUME Inv, CostTypes, SimNext, total_io_count' # total_io_count,
             NEW base \in BaseCosts
      PROVE  AtMost(effective_us_per_op(base, tally.op_count, num_threads,
                                        total_miss_bytes, total_io_count),
                    effective_us_per_op(base, tally.op_count, num_threads,
                                        total_miss_bytes', total_io_count'))
  <2>1. /\ base \in Nat \ {0} /\ tally.op_count \in Nat /\ num_threads \in Nat
        /\ total_miss_bytes \in Nat /\ total_io_count \in Nat
    BY <1>3, SimAssumption DEF CostTypes, Inv, SimTypes
  <2>2. PICK more \in Nat : total_miss_bytes' = total_miss_bytes + more
    BY <1>3, MissEffect
  <2>3. total_io_count' = total_io_count + 1
    BY <1>3, MissEffect
  <2>4. AtMost(effective_us_per_op(base, tally.op_count, num_threads,
                                   total_miss_bytes, total_io_count),
               effective_us_per_op(base, tally.op_count, num_threads,
                                   total_miss_bytes + more, total_io_count + 1))
    BY <2>1, <2>2, MissRaisesCost
  <2> QED
    BY <2>2, <2>3, <2>4
<1>4. Inv /\ CostTypes /\ [SimNext]_allVars =>
        [total_io_count' # total_io_count =>
           \A base \in BaseCosts :
             AtMost(effective_us_per_op(base, tally.op_count, num_threads,
                                        total_miss_bytes, total_io_count),
                    effective_us_per_op(base, tally.op_count, num_threads,
                                        total_miss_bytes', total_io_count'))]_allVars
  BY <1>3
<1> QED
  BY <1>1, <1>2, <1>4, PTL DEF SimSpec, MissesNeverPay
=============================================================================
