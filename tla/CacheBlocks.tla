----------------------------- MODULE CacheBlocks -----------------------------
(***************************************************************************)
(* The blocks a run of the simulator can ask its block cache for, and the  *)
(* capacity of the cache (of one shard of it).  A block is a cache key;    *)
(* its size and its type are functions of the key, as they are in the code.*)
(***************************************************************************)
EXTENDS Integers

CONSTANTS Blocks,     \* the cache keys a run can produce
          DataBlocks, \* those of type BT_DATA
          Size,       \* bytes of each block
          Capacity,   \* bytes the cache may hold
          None        \* stands for no block

ASSUME BlocksAssumption ==
  /\ DataBlocks \subseteq Blocks
  /\ Size \in [Blocks -> Nat \ {0}]
  /\ Capacity \in Nat
  /\ None \notin Blocks
=============================================================================
