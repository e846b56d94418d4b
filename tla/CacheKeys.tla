------------------------------ MODULE CacheKeys -------------------------------
(***************************************************************************)
(* How harness/sim_engine names the blocks of the files that were loaded:  *)
(* the partition that a key falls in, the 64-bit cache key that packs      *)
(* file, tag and partition, and the shard of the cache that the key goes   *)
(* to.                                                                     *)
(*                                                                         *)
(* The fields of a cache key do not overlap, so that their bitwise or is   *)
(* their sum.  The ratio of the code is a double; here it is exact.        *)
(***************************************************************************)
EXTENDS LayoutLoader

CONSTANTS TagUnit,       \* 1 << 28
          PartitionUnit, \* 1 << 36
          Word,          \* 2^64
          DataSlots,     \* 10000: data blocks of one file
          ShardBytes,    \* 512 MB
          capacity       \* of the whole cache

Tags == 1..9
DataTag == 9

ASSUME ConfigAssumption ==
  /\ cfg.block_size \in Nat /\ cfg.key_size \in Nat /\ cfg.value_size \in Nat
  /\ cfg.metadata_block_size \in Nat \ {0} /\ cfg.bloom_bits_per_key \in Nat
  /\ cfg.shorten_num \in Nat /\ cfg.shorten_den \in Nat \ {0}

ASSUME KeysAssumption ==
  /\ TagUnit \in Nat \ {0} /\ TagUnit % 64 = 0
  /\ PartitionUnit \in Nat /\ PartitionUnit % TagUnit = 0
  /\ 10 * TagUnit <= PartitionUnit
  /\ Word \in Nat /\ Word % PartitionUnit = 0
  /\ DataSlots \in Nat \ {0} /\ DataSlots * PartitionUnit <= Word
  /\ ShardBytes \in Nat \ {0}
  /\ capacity \in Nat

-----------------------------------------------------------------------------
(* The files as the LSMTree constructor leaves them. *)
WithSizes(f) ==
  LET sizes == MetadataSizes(f.num_keys, cfg)
  IN  [x \in DOMAIN f \cup DOMAIN sizes |-> IF x \in DOMAIN f THEN f[x] ELSE sizes[x]]

SSTs == {WithSizes(out[n]) : n \in DOMAIN out}

(* The number of partitions of a file that a tag has. *)
NumPartitions(f, tag) ==
  CASE tag = 4 -> f.partitioned_num_filter_partitions
    [] tag = 6 -> f.partitioned_num_index_partitions
    [] tag = 8 -> f.unify_num_partitions
    [] tag = DataTag -> DataSlots
    [] OTHER -> 1

\* Fault: the partition of the largest key is not clamped.
PartitionUnclamped(f, k, tag) ==
  IF tag = DataTag THEN k % DataSlots
  ELSE IF f.max_key = f.min_key THEN 0
  ELSE ((k - f.min_key) * NumPartitions(f, tag)) \div (f.max_key - f.min_key)

Partition(f, k, tag) ==
  IF tag = DataTag THEN k % DataSlots
  ELSE PartitionOf(f, k, NumPartitions(f, tag))

\* Fault: the partition is shifted by 30 bits, into the field of the tag.
make_cache_key_overlapping(sst_id, tag, partition) ==
  (sst_id + tag * TagUnit + partition * (4 * TagUnit)) % Word

make_cache_key(sst_id, tag, partition) ==
  (sst_id + tag * TagUnit + partition * PartitionUnit) % Word

(* auto_shard_bits: one shard for each ShardBytes, up to 64, rounded up to
   a power of two. *)
TargetShards ==
  LET n == capacity \div ShardBytes
  IN  IF n < 1 THEN 1 ELSE IF n > 64 THEN 64 ELSE n

OneShifted(bits) == <<1, 2, 4, 8, 16, 32, 64>>[bits + 1]

auto_shard_bits ==
  CHOOSE bits \in 0..6 :
    /\ OneShifted(bits) >= TargetShards
    /\ \A b \in 0..bits - 1 : OneShifted(b) < TargetShards

num_shards == OneShifted(auto_shard_bits)

\* Fault: the shard is taken from the bits of the tag.
ShardByTag(cache_key) == (cache_key \div TagUnit) % num_shards

ShardOf(cache_key) == cache_key % num_shards

(* The blocks that lookups can read: the workload draws no negative key. *)
KeysOf(f) == {k \in f.min_key..f.max_key : k >= 0}
BlocksOf(f) ==
  {<<f.sst_id, tag, Partition(f, k, tag)>> : k \in KeysOf(f), tag \in Tags}
BlocksRead == UNION {BlocksOf(f) : f \in SSTs}

CacheKeyOf(b) == make_cache_key(b[1], b[2], b[3])

-----------------------------------------------------------------------------
(* The numbers of the files and of their partitions fit in the fields that a
   cache key has for them: there are 28 bits for each. *)
FieldsFit ==
  /\ Len(out) <= TagUnit
  /\ \A f \in SSTs, tag \in Tags : NumPartitions(f, tag) * PartitionUnit <= Word

(* Two blocks of the files that were loaded never share a cache key, as long
   as there are no more files and partitions than it can name: a hit never is
   another block's. *)
KeyNamesOneBlock ==
  pc = "loaded" /\ FieldsFit =>
    \A a, b \in BlocksRead : CacheKeyOf(a) = CacheKeyOf(b) => a = b

(* The files are dealt to the shards in the order of the layout, each with
   all of its blocks ("sst_id in low bits (shard distribution)",
   sim_engine.hpp:354). *)
FileInOneShard ==
  pc = "loaded" =>
    \A b \in BlocksRead : ShardOf(CacheKeyOf(b)) = b[1] % num_shards

(* Every key of a file falls in a partition the file has, and the
   partitions follow each other in the order of the keys. *)
PartitionsSplitTheFile ==
  pc = "loaded" =>
    \A f \in SSTs, tag \in Tags :
      \A k \in KeysOf(f) :
        /\ Partition(f, k, tag) \in 0..NumPartitions(f, tag) - 1
        /\ tag # DataTag =>
             \A l \in k..f.max_key : Partition(f, k, tag) <= Partition(f, l, tag)
=============================================================================
