---------------------------- MODULE ShardedCache ----------------------------
(***************************************************************************)
(* HyperClockCache: the block cache as the I/O model uses it, one shard    *)
(* for each residue of the cache keys.  The shards share out the capacity, *)
(* rounded up, and a block only ever displaces blocks of its own shard.    *)
(* Which resident of its shard it displaces is left open here; ClockShard  *)
(* says which.                                                             *)
(***************************************************************************)
EXTENDS BlockSums

CONSTANTS num_shards,
          ShardOf \* ShardOf[b]: the cache key of b under shard_mask_

Shards == 0..num_shards - 1

ASSUME ShardsAssumption ==
  /\ num_shards \in Nat \ {0}
  /\ ShardOf \in [Blocks -> Shards]

VARIABLES cached,  \* the resident blocks of all shards
          incoming \* the block being inserted, or None

cacheVars == <<cached, incoming>>

\* Fault: the shards are given the whole capacity each.
per_shard_undivided == Capacity

per_shard == (Capacity + num_shards - 1) \div num_shards

Residents(h) == {b \in cached : ShardOf[b] = h}

CacheInit == cached = {} /\ incoming = None

Fits(b) == TotalSize(Residents(ShardOf[b])) + Size[b] <= per_shard

(* A lookup that finds nothing, and the insert that follows it. *)
Miss(b) ==
  /\ incoming = None
  /\ b \notin cached
  /\ incoming' = b
  /\ UNCHANGED cached

\* Fault: the victim is not taken out.
WithoutNone(victim) == cached

Victims(b) == Residents(ShardOf[b])
Without(victim) == cached \ {victim}

Drop ==
  /\ incoming # None
  /\ Size[incoming] <= per_shard
  /\ ~Fits(incoming)
  /\ \E victim \in Victims(incoming) : cached' = Without(victim)
  /\ UNCHANGED incoming

Admit ==
  /\ incoming # None
  /\ Fits(incoming)
  /\ cached' = cached \cup {incoming}
  /\ incoming' = None

Reject ==
  /\ incoming # None
  /\ Size[incoming] > per_shard
  /\ incoming' = None
  /\ UNCHANGED cached

InsertStep == Drop \/ Admit \/ Reject

CacheNext == InsertStep \/ \E b \in Blocks : Miss(b)

-----------------------------------------------------------------------------
(* All shards together hold no more than what was asked for and the
   rounding, which is less than a byte for each shard. *)
TotalWithinCapacity == TotalSize(cached) <= Capacity + num_shards - 1
=============================================================================
