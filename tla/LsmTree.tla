------------------------------ MODULE LsmTree -------------------------------
(***************************************************************************)
(* What the LSMTree constructor of harness/sim_engine derives from the     *)
(* layout: the levels' file lists, and the sizes and partition counts of   *)
(* each file's metadata under the three schemes.                           *)
(***************************************************************************)
EXTENDS Integers, Sequences, TLC

AtLeastOne(n) == IF n < 1 THEN 1 ELSE n
CeilDiv(n, d) == (n + d - 1) \div d

(* levels_: each file goes to its level, in the order of the layout; a file
   of a level the tree does not have goes nowhere.  Below level 0 the files
   are then sorted by their smallest key. *)
BuildLevels(files, numLevels) ==
  [lv \in 0..numLevels - 1 |->
     LET bucket == SelectSeq(files, LAMBDA f : f.level = lv)
     IN  IF lv = 0 THEN bucket
         ELSE SortSeq(bucket, LAMBDA a, b : a.min_key < b.min_key)]

(* compute_metadata_sizes for a file of numKeys keys.  cfg is the part of
   LSMConfig it reads; the shortening factor is a ratio of two integers. *)
MetadataSizes(numKeys, cfg) ==
  LET keysPerBlock == AtLeastOne(cfg.block_size \div (cfg.key_size + cfg.value_size))
      numBlocks == AtLeastOne(CeilDiv(numKeys, keysPerBlock))
      entry == cfg.key_size + 8
      fullIndex == AtLeastOne((numBlocks * entry * cfg.shorten_num)
                                \div cfg.shorten_den)
      fullFilter == AtLeastOne((numKeys * cfg.bloom_bits_per_key) \div 8)
      partitions(bytes) == AtLeastOne(CeilDiv(bytes, cfg.metadata_block_size))
  IN  [full_index_size |-> fullIndex,
       full_filter_size |-> fullFilter,
       partitioned_num_filter_partitions |-> partitions(fullFilter),
       partitioned_num_index_partitions |-> partitions(fullIndex),
       partitioned_filter_top_size |-> partitions(fullFilter) * entry,
       partitioned_index_top_size |-> partitions(fullIndex) * entry,
       unify_num_partitions |-> partitions(fullIndex + fullFilter),
       unify_top_index_size |-> partitions(fullIndex + fullFilter) * entry]

(* The partition of a file with n partitions that a lookup of key reads. *)
PartitionOf(file, key, n) ==
  LET span == file.max_key - file.min_key
      p == ((key - file.min_key) * n) \div span
  IN  IF span <= 0 THEN 0 ELSE IF p > n - 1 THEN n - 1 ELSE p
=============================================================================
