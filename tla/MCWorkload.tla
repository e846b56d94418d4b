----------------------------- MODULE MCWorkload -----------------------------
(***************************************************************************)
(* Three ranges, or two, of falling, equal, rising and vanishing weights;  *)
(* trees of fewer keys than ranges, of as many and of some that are left   *)
(* over; operation mixes with and without seeks, with hardly any, and one  *)
(* whose thresholds may be rounded up.                                     *)
(***************************************************************************)
EXTENDS Workload

MCWeights ==
  {<<w1, w2, w3>> : w1 \in {0, 3, 8}, w2 \in {0, 3}, w3 \in {0, 2, 3, 6}}
    \cup {<<5, 1>>, <<0, 0>>}
MCNumItems == {2, 3, 7}
MCRatios == {<<99, 1>>, <<0, 1>>, <<1, 0>>, <<0, 0>>, <<1, 2>>, <<3, 2>>}
=============================================================================
