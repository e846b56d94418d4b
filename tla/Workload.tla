------------------------------ MODULE Workload ------------------------------
(***************************************************************************)
(* The mixgraph generator of harness/workload: how init_mixgraph turns the *)
(* probabilities of the key ranges into integer intervals of a random      *)
(* number, and how mixgraph_next_key and next_op_type draw from them.      *)
(*                                                                         *)
(* A probability is a ratio of integers, weights[pfx] / Denominator; the   *)
(* two-term exponential it comes from is any of the parameters.  What the  *)
(* Mersenne twisters return is any number.                                 *)
(***************************************************************************)
EXTENDS Integers, Sequences, FiniteSetsExt

CONSTANTS Weights,     \* the choices of weights: krn of them, 0 if negligible
          Denominator,
          NumItems,    \* the choices of num_items_: the largest key, plus one
          Ratios,      \* the choices of <<mix_get_ratio, mix_seek_ratio>>
          TypeRange    \* mix_type_range_ at the start, 1000

ASSUME WorkloadAssumption ==
  /\ Weights \subseteq Seq(Nat) \ {<<>>}
  /\ Denominator \in Nat \ {0}
  /\ NumItems \subseteq Nat \ {0}
  /\ Ratios \subseteq Nat \X Nat
  /\ TypeRange \in Nat \ {0}

VARIABLES weights,
          num_items,
          power_law,     \* whether keys follow the power law within a range
          ratios,
          rounding,      \* of the thresholds, for each type
          pc,            \* "shuffle", "idle", "search" or "drawn"
          i,             \* of the shuffle
          mix_keyranges, \* the ranges: each with its pfx, access and start
          ini_rand, lo, hi, \* of the running mixgraph_next_key
          key            \* what it returned

config == <<weights, num_items, power_law, ratios, rounding>>
vars == <<config, pc, i, mix_keyranges, ini_rand, lo, hi, key>>

AtLeastOne(n) == IF n < 1 THEN 1 ELSE n
CeilDiv(n, d) == (n + d - 1) \div d

krn == Len(weights)
mix_keyrange_size == AtLeastOne(num_items \div krn)

\* Fault: rounded down.
AmplifyFloor(w) == Denominator \div w

Amplify(w) == Denominator \div w + 1

(* The factor that makes an integer of each probability comes from the
   first one that is not negligible, from the last prefix on. *)
amplify ==
  LET positive == {pfx \in 1..krn : weights[pfx] > 0}
  IN  IF positive = {} THEN 0 ELSE Amplify(weights[Max(positive)])

Access(pfx) == (amplify * weights[pfx]) \div Denominator

(* The sum of the accesses of N, as the number of random numbers that go to
   one of N: access[n] of them to each n. *)
Numbers(access, N) == UNION {{n} \X (1..access[n]) : n \in N}
TotalAccess(access, N) == Cardinality(Numbers(access, N))

AccessOf(ranges) == [n \in 1..krn |-> ranges[n].access]

(* Each range's keyrange_start is the sum of the accesses before it. *)
WithStarts(ranges) ==
  [n \in 1..krn |->
     [ranges[n] EXCEPT !.start = TotalAccess(AccessOf(ranges), 1..n - 1)]]

mix_rand_max ==
  AtLeastOne(TotalAccess([pfx \in 1..krn |-> Access(pfx)], 1..krn))

(* The operation mix. *)
Types == {"GET", "SEEK"}
Ratio(type) == ratios[IF type = "GET" THEN 1 ELSE 2]
RatioSum == Ratio("GET") + Ratio("SEEK")

(* A threshold is the ceiling of a product of doubles.  That differs from the
   exact one if the exact product is whole and the double comes out above
   it, which takes a norm that is neither 0 nor 1. *)
MayRoundUp(type) ==
  /\ Ratio(type) \in 1..RatioSum - 1
  /\ CeilDiv(TypeRange * Ratio(type), RatioSum) * RatioSum = TypeRange * Ratio(type)

Roundings ==
  {up \in [Types -> {0, 1}] : \A type \in Types : up[type] = 1 => MayRoundUp(type)}

Init ==
  /\ weights \in Weights
  /\ num_items \in NumItems
  /\ power_law \in BOOLEAN
  /\ ratios \in Ratios
  /\ rounding \in Roundings
  /\ pc = "shuffle"
  /\ i = 0
  /\ mix_keyranges = [n \in 1..krn |-> [pfx |-> krn + 1 - n, start |-> 0,
                                        access |-> Access(krn + 1 - n)]]
  /\ ini_rand = 0 /\ lo = 0 /\ hi = 0 /\ key = 0

-----------------------------------------------------------------------------
(* A swap of the shuffle; the starts are taken anew after the last one. *)
Shuffle(pos) ==
  /\ pc = "shuffle"
  /\ i < krn
  /\ i' = i + 1
  /\ LET swapped == [mix_keyranges EXCEPT ![i + 1] = mix_keyranges[pos + 1],
                                          ![pos + 1] = mix_keyranges[i + 1]]
     IN  IF i' = krn
         THEN mix_keyranges' = WithStarts(swapped) /\ pc' = "idle"
         ELSE mix_keyranges' = swapped /\ UNCHANGED pc
  /\ UNCHANGED <<config, ini_rand, lo, hi, key>>

NextKey(rand) ==
  /\ pc \in {"idle", "drawn"}
  /\ ini_rand' = rand
  /\ lo' = 0
  /\ hi' = krn
  /\ pc' = "search"
  /\ UNCHANGED <<config, i, mix_keyranges, key>>

keyrange_rand == ini_rand % mix_rand_max
Mid == lo + (hi - lo) \div 2

\* Fault: a number on the border goes to the range before.
BeforeOrAt(n) == keyrange_rand <= mix_keyranges[n + 1].start

Before(n) == keyrange_rand < mix_keyranges[n + 1].start

Bisect ==
  /\ pc = "search"
  /\ lo + 1 < hi
  /\ IF Before(Mid) THEN hi' = Mid /\ UNCHANGED lo ELSE lo' = Mid /\ UNCHANGED hi
  /\ UNCHANGED <<config, pc, i, mix_keyranges, ini_rand, key>>

\* Fault: a key beyond the last one is returned.
Unclamped(k) == k

Clamped(k) ==
  CASE k < 0 -> 0 [] k >= num_items -> num_items - 1 [] OTHER -> k

(* The offset within the range: the number itself, or any, by the power law. *)
Return(offset) ==
  /\ pc = "search"
  /\ lo + 1 >= hi
  /\ power_law \/ offset = ini_rand % mix_keyrange_size
  /\ key' = Clamped(mix_keyrange_size * lo + offset)
  /\ pc' = "drawn"
  /\ UNCHANGED <<config, i, mix_keyranges, ini_rand, lo, hi>>

Next ==
  \/ \E pos \in 0..krn - 1 : Shuffle(pos)
  \/ \E rand \in 0..mix_rand_max * mix_keyrange_size - 1 : NextKey(rand)
  \/ Bisect
  \/ \E offset \in 0..mix_keyrange_size - 1 : Return(offset)

Spec == Init /\ [][Next]_vars

-----------------------------------------------------------------------------
Ceiling(type) == CeilDiv(TypeRange * Ratio(type), RatioSum) + rounding[type]

get_thresh == Ceiling("GET")
seek_thresh == get_thresh + Ceiling("SEEK")

mix_type_thresholds ==
  IF RatioSum = 0 THEN <<TypeRange>> ELSE <<get_thresh, seek_thresh>>

\* Fault: the range stays what it was.
TypeRangeOld == TypeRange

mix_type_range == IF RatioSum = 0 THEN TypeRange ELSE seek_thresh

(* next_op_type, for each number that can be drawn. *)
OpType(pos) ==
  LET above == {n \in DOMAIN mix_type_thresholds : pos < mix_type_thresholds[n]}
  IN  IF above = {} \/ 1 \in above THEN "GET" ELSE "SEEK"

(* next_op_type's numbers that give a type. *)
Draws(type) == {pos \in 0..mix_type_range - 1 : OpType(pos) = type}

-----------------------------------------------------------------------------
(* The bisection gives each range as many of the random numbers as its
   probability has been amplified to, wherever the shuffle has put it: the
   number drawn is in the interval of the range that is found, although
   ranges whose access was rounded to nothing share their start with the
   next one. *)
DrawsFollowAccess ==
  pc = "drawn" /\ amplify > 0 =>
    LET found == mix_keyranges[lo + 1]
    IN  found.start <= keyrange_rand /\ keyrange_rand < found.start + found.access

(* The key is one of the keys of its range and of the tree, and the last key
   of the tree only stands for ranges that begin behind it. *)
KeyInDrawnRange ==
  pc = "drawn" =>
    /\ key \in 0..num_items - 1
    /\ key \div mix_keyrange_size = lo \/ mix_keyrange_size * lo >= num_items

(* "Amplify by 1/min_p" (workload.cpp:92): as long as the probabilities fall
   from one prefix to the next, a range with a probability can be drawn, and
   a likelier one is drawn no less often. *)
NoRangeIsLost ==
  (\A m, n \in 1..krn : m < n => weights[n] <= weights[m]) =>
    \A r, q \in {mix_keyranges[n] : n \in 1..krn} :
      /\ weights[r.pfx] > 0 => r.access > 0
      /\ weights[r.pfx] <= weights[q.pfx] => r.access <= q.access

(* Gets and seeks are drawn in the ratio that was asked for, up to one draw
   more of each, however the doubles are rounded: an operation with a ratio,
   however small, is drawn at all, and one without is not. *)
OpMixAsAsked ==
  /\ \A type \in Types :
       LET drawn == Cardinality(Draws(type))
       IN  RatioSum > 0 =>
             /\ Ratio(type) > 0 <=> drawn > 0
             /\ drawn * RatioSum - Ratio(type) * TypeRange \in 0..RatioSum
  /\ RatioSum = 0 => Draws("SEEK") = {}
=============================================================================
