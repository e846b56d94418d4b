---------------------------- MODULE MCCacheKeys -----------------------------
(***************************************************************************)
(* Every layout of up to two objects and three fields in all, with names   *)
(* that are given twice, a name that is unknown and a level that an int of *)
(* 16 values does not hold; and three layouts with files of several        *)
(* partitions, of one key and of none, one of them of five files for four  *)
(* shards.  Cache keys of 6, 4 and 3 bits.                                 *)
(***************************************************************************)
EXTENDS CacheKeys

MCcfg ==
  [block_size |-> 8, key_size |-> 1, value_size |-> 3, metadata_block_size |-> 4,
   bloom_bits_per_key |-> 10, shorten_num |-> 37, shorten_den |-> 100]

Fields == {<<"level", 9>>, <<"size", 20>>, <<"size", 3>>, <<"min_key", -2>>,
           <<"max_key", 4>>, <<"file_num", 7>>}
Objects(most) == UNION {[1..n -> Fields] : n \in 0..most}
Small ==
  {<<>>} \cup {<<o>> : o \in Objects(3)}
    \cup {pair \in Objects(3) \X Objects(3) : Len(pair[1]) + Len(pair[2]) <= 3}

File(bytes, first, last) ==
  <<<<"level", 1>>, <<"size", bytes>>, <<"min_key", first>>, <<"max_key", last>>>>
Large ==
  {<<File(33, 3, 10), File(20, 0, 4), File(4, 7, 7)>>,
   <<File(20, 5, 2), File(33, -4, 3)>>,
   <<File(8, 0, 1), File(8, 2, 3), File(8, 4, 5), File(8, 6, 7), File(20, 0, 9)>>}

MCLayouts == Small \cup Large
=============================================================================
