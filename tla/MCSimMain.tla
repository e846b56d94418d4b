----------------------------- MODULE MCSimMain ------------------------------
(***************************************************************************)
(* Two files on two levels, in two shards: one key that both may hold, one *)
(* that only the upper one may hold and one in a gap that none holds.  A   *)
(* shard of five bytes cannot hold all the blocks of the upper file, and   *)
(* never its full filter.  Epochs of two operations.                       *)
(***************************************************************************)
EXTENDS SimMain

CONSTANTS upper, lower

MCSSTs == {upper, lower}
MCKeys == {1, 2, 3}
MCCandidates == <<<<upper, lower>>, <<upper>>, <<>>>>
MCPolicies == {[s \in MCSSTs |-> IF s = upper THEN "FULL" ELSE "UNIFY"],
               [s \in MCSSTs |-> IF s = upper THEN "PARTITIONED" ELSE "FULL"]}
(* The two keys of the upper file are in one partition of its filter and in
   different ones of its index. *)
MCPartOf == [k \in MCKeys |-> [tag \in 1..9 |-> IF k = 2 /\ tag = 6 THEN 1 ELSE 0]]

MCBlocks ==
  {CacheKey(upper, tag, 0) : tag \in {1, 2, 3, 4, 5, 6, 9}} \cup
  {CacheKey(upper, 6, 1)} \cup
  {CacheKey(lower, tag, 0) : tag \in {1, 2, 7, 8, 9}}
MCDataBlocks == {b \in MCBlocks : b.tag = DataTag}
MCSize ==
  [b \in MCBlocks |-> CASE b.tag = 1 /\ b.sst = upper -> 6
                        [] b.tag = 2 -> 2
                        [] OTHER -> 1]
MCTotalSize(S) == MapThenSumSet(LAMBDA b : MCSize[b], S)
MCShardOf == [b \in MCBlocks |-> IF b.sst = upper THEN 0 ELSE 1]

MCTable == <<<<1, 2>>, <<2, 3>>, <<4, 4>>>>
MCBaseCosts == 1..3

(* The measurements of sim_engine.hpp:76, in KB and in 10 MB/s. *)
ASSUME MeasuredTableHasShape ==
  BandwidthShape(<<<<4, 93>>, <<16, 298>>, <<64, 703>>, <<128, 1127>>,
                   <<256, 1547>>, <<512, 1925>>, <<1024, 2151>>>>)
=============================================================================
