------------------------------ MODULE BlockSums ------------------------------
(***************************************************************************)
(* TotalSize(S) is the sum of the sizes of the blocks of S.  It is a       *)
(* parameter given by the two equations a sum satisfies, because a proof   *)
(* can use those and cannot use a recursive definition; the instances TLC  *)
(* checks define it as the sum, and TLC evaluates the equations on it.     *)
(***************************************************************************)
EXTENDS CacheBlocks

CONSTANT TotalSize(_)

ASSUME TotalSizeAssumption ==
  /\ \A S \in SUBSET Blocks : TotalSize(S) \in Nat
  /\ TotalSize({}) = 0
  /\ \A S \in SUBSET Blocks : \A b \in Blocks \ S :
        TotalSize(S \cup {b}) = TotalSize(S) + Size[b]
=============================================================================
