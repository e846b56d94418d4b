----------------------------- MODULE ClockShard -----------------------------
(***************************************************************************)
(* HyperClockShard of harness/sim_engine: one shard of the simulated block *)
(* cache, driven the way IOModel::access_block drives it, a lookup and, on *)
(* a miss, an insert of the same block.                                    *)
(*                                                                         *)
(* A lookup is one step.  An insert is a loop of evict_one calls, each a   *)
(* loop over the clock queue; one iteration of the inner loop is one step  *)
(* here, and nothing but the insert can run until it returns (pending).    *)
(* So "insert returns" is a liveness property and not a matter of course.  *)
(***************************************************************************)
EXTENDS BlockSums, Sequences, FiniteSets, Functions

CONSTANT MaxLookups \* the run stops after this many lookups

ASSUME MaxLookupsAssumption == MaxLookups \in Nat

VARIABLES entries,      \* usage countdown of each resident block
          clock_queue,  \* resident blocks in the order the hand meets them
          current_size, \* bytes the shard believes it holds
          stats,        \* the shard's counters
          pending       \* the block whose insert() is running, or None

vars == <<entries, clock_queue, current_size, stats, pending>>

HighCountdown == 3
LowCountdown == 2
MaxCountdown == HighCountdown

InitialCountdown(b) ==
  IF b \in DataBlocks THEN LowCountdown ELSE HighCountdown

Counters == {"hits", "misses", "evictions", "data_hits", "data_misses",
             "metadata_hits", "metadata_misses"}

(* stats with counter c one higher. *)
Bump(s, c) == [s EXCEPT ![c] = @ + 1]

HitCounter(b) == IF b \in DataBlocks THEN "data_hits" ELSE "metadata_hits"
MissCounter(b) == IF b \in DataBlocks THEN "data_misses" ELSE "metadata_misses"

Resident == DOMAIN entries
Lookups == stats["hits"] + stats["misses"]

Init ==
  /\ entries = [b \in {} |-> 0]
  /\ clock_queue = <<>>
  /\ current_size = 0
  /\ stats = [c \in Counters |-> 0]
  /\ pending = None

-----------------------------------------------------------------------------
LookupHit(b) ==
  /\ pending = None
  /\ Lookups < MaxLookups
  /\ b \in Resident
  /\ entries' = [entries EXCEPT ![b] = @ + 1]
  /\ stats' = Bump(Bump(stats, "hits"), HitCounter(b))
  /\ UNCHANGED <<clock_queue, current_size, pending>>

\* Fault: the miss is counted by type already at the lookup.
MissedByType(b) == Bump(Bump(stats, "misses"), MissCounter(b))

Missed(b) == Bump(stats, "misses")

(* The caller inserts what it did not find. *)
LookupMiss(b) ==
  /\ pending = None
  /\ Lookups < MaxLookups
  /\ b \notin Resident
  /\ stats' = Missed(b)
  /\ pending' = b
  /\ UNCHANGED <<entries, clock_queue, current_size>>

-----------------------------------------------------------------------------
\* Fault: nothing refuses a block larger than the shard.
RefusedOnlyIfResident == pending \in Resident

(* The early returns of insert. *)
Refused == pending \in Resident \/ Size[pending] > Capacity

InsertReturnsEarly ==
  /\ pending # None
  /\ Refused
  /\ pending' = None
  /\ UNCHANGED <<entries, clock_queue, current_size, stats>>

\* Fault: the loop makes room as if the new block took none.
TooFullAlready == current_size > Capacity

TooFull == current_size + Size[pending] > Capacity

(* insert is in its eviction loop. *)
MakingRoom ==
  /\ pending # None
  /\ ~Refused
  /\ TooFull
  /\ Resident # {}

\* Fault: the victim's bytes are not given back.
SizeWith(victim) == current_size

SizeWithout(victim) == current_size - Size[victim]

EvictHead ==
  /\ MakingRoom
  /\ clock_queue # <<>>
  /\ LET victim == Head(clock_queue)
     IN  /\ victim \in Resident
         /\ entries[victim] = 0
         /\ entries' = Restrict(entries, Resident \ {victim})
         /\ current_size' = SizeWithout(victim)
  /\ clock_queue' = Tail(clock_queue)
  /\ stats' = Bump(stats, "evictions")
  /\ UNCHANGED pending

\* Faults: no cap; a cap one too low; nothing off the countdown.
AgedUncapped(usage) == usage - 1
AgedCappedLow(usage) == IF usage > MaxCountdown - 1 THEN MaxCountdown - 2 ELSE usage - 1
NotAged(usage) == usage

(* One off the countdown, which a run of hits cannot raise above
   MaxCountdown - 1 once the hand has passed. *)
Aged(usage) ==
  IF usage - 1 > MaxCountdown - 1 THEN MaxCountdown - 1 ELSE usage - 1

\* Fault: a block that is passed is not put back into the queue.
BehindLost(k) == Tail(clock_queue)

Behind(k) == Append(Tail(clock_queue), k)

(* A key that is no longer resident is dropped from the queue; a resident
   block ages and goes to the back. *)
AgeHead ==
  /\ MakingRoom
  /\ clock_queue # <<>>
  /\ LET k == Head(clock_queue)
     IN  /\ k \in Resident => entries[k] # 0
         /\ entries' = [b \in Resident |-> IF b = k THEN Aged(entries[b])
                                           ELSE entries[b]]
         /\ clock_queue' = IF k \in Resident
                           THEN Behind(k)
                           ELSE Tail(clock_queue)
  /\ UNCHANGED <<current_size, stats, pending>>

InsertEntry ==
  /\ pending # None
  /\ ~Refused
  /\ ~MakingRoom
  /\ entries' = [b \in Resident \cup {pending} |->
                   IF b = pending THEN InitialCountdown(b) ELSE entries[b]]
  /\ clock_queue' = Append(clock_queue, pending)
  /\ current_size' = current_size + Size[pending]
  /\ stats' = Bump(stats, MissCounter(pending))
  /\ pending' = None

Insert == InsertReturnsEarly \/ EvictHead \/ AgeHead \/ InsertEntry

(* The workload is over: nothing calls the shard any more. *)
Stopped ==
  /\ pending = None
  /\ Lookups = MaxLookups
  /\ UNCHANGED vars

Next ==
  \/ \E b \in Blocks : LookupHit(b) \/ LookupMiss(b)
  \/ Insert
  \/ Stopped

(* A single thread runs insert to its end; nothing obliges anyone to look
   another block up. *)
Fairness == WF_vars(Insert)

Spec == Init /\ [][Next]_vars /\ Fairness

-----------------------------------------------------------------------------
TypeOK ==
  /\ Resident \subseteq Blocks
  /\ entries \in [Resident -> Nat]
  /\ clock_queue \in Seq(Blocks)
  /\ current_size \in Int
  /\ stats \in [Counters -> Nat]
  /\ pending \in Blocks \cup {None}

(* The clock queue and the hash map agree: every key of the queue is
   resident, every resident block is in the queue, once.  The eviction loop
   tests the map for emptiness and pops the queue, so it depends on this to
   end, and a key queued twice would age twice as fast. *)
RingMatchesEntries ==
  /\ \A i \in DOMAIN clock_queue : clock_queue[i] \in Resident
  /\ \A b \in Resident : \E i \in DOMAIN clock_queue : clock_queue[i] = b
  /\ \A i, j \in DOMAIN clock_queue :
        clock_queue[i] = clock_queue[j] => i = j

(* The running byte count, which insert and evict_one adjust separately, is
   the bytes of what is resident. *)
SizeIsExact == current_size = TotalSize(Resident)

(* No sequence of lookups, evictions and inserts fills the shard above its
   capacity. *)
CapacityRespected == TotalSize(Resident) <= Capacity

(* Counters that different calls update agree: what was inserted, counted by
   block type, is what was evicted plus what is resident; each of these was
   a miss at its lookup, and so was the block being inserted; and a hit is
   counted once in total and once by type.  Blocks refused as too large are
   misses that no type counts. *)
CountersAgree ==
  LET inserted == stats["data_misses"] + stats["metadata_misses"]
  IN  /\ inserted = stats["evictions"] + Cardinality(Resident)
      /\ inserted + (IF pending = None THEN 0 ELSE 1) <= stats["misses"]
      /\ stats["hits"] = stats["data_hits"] + stats["metadata_hits"]

(* Every insert returns: the hand cannot go round for ever, because it ages
   what it passes and caps what it ages. *)
InsertReturns == pending # None ~> pending = None

-----------------------------------------------------------------------------
Promised == INSTANCE BoundedCache
              WITH cached <- Resident, incoming <- pending

(* The shard implements the bounded cache: it evicts only to admit a block
   that could fit and does not yet, counts bytes exactly, and admits in the
   end whatever could fit. *)
ImplementsBoundedCache == Promised!Spec
=============================================================================
