---------------------------- MODULE MCClockShard ----------------------------
(***************************************************************************)
(* A shard of four bytes under two data blocks, two metadata blocks of     *)
(* different size and one block that is larger than the shard.             *)
(***************************************************************************)
EXTENDS ClockHistory, FiniteSetsExt

CONSTANTS d1, d2, m1, m2, huge

MCBlocks == {d1, d2, m1, m2, huge}
MCDataBlocks == {d1, d2}
MCSize == [b \in MCBlocks |-> CASE b = huge -> 5 [] b = m2 -> 3 [] OTHER -> 1]
MCTotalSize(S) == MapThenSumSet(LAMBDA b : MCSize[b], S)
=============================================================================
