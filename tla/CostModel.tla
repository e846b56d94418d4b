----------------------------- MODULE CostModel ------------------------------
(***************************************************************************)
(* The disk's bandwidth for requests of a size, interpolated in a table of *)
(* measurements, and the time a saturated disk needs.  Sizes that are      *)
(* averages, bandwidths and times are ratios, pairs of integers; the       *)
(* efficiency, a factor of every bandwidth, is part of the unit.           *)
(***************************************************************************)
EXTENDS Integers, Sequences

CONSTANT disk_bandwidth_table \* <<size, bandwidth>>, by increasing size

(* What a table of measurements respects: larger requests are served at a
   higher rate, but not in less time per request. *)
BandwidthShape(tbl) ==
  /\ tbl \in Seq((Nat \ {0}) \X (Nat \ {0}))
  /\ tbl # <<>>
  /\ \A m, n \in DOMAIN tbl :
       m < n => /\ tbl[m][1] < tbl[n][1]
                /\ tbl[m][2] <= tbl[n][2]
                /\ tbl[m][1] * tbl[n][2] <= tbl[n][1] * tbl[m][2]

ASSUME TableAssumption == BandwidthShape(disk_bandwidth_table)

First == disk_bandwidth_table[1]
Last == disk_bandwidth_table[Len(disk_bandwidth_table)]

\* Fault: the two ends of the interval are swapped in the interpolation.
BetweenSwapped(lo, hi, num, den) ==
  <<hi[2] * den * (hi[1] - lo[1]) - (num - lo[1] * den) * (hi[2] - lo[2]),
    den * (hi[1] - lo[1])>>

Between(lo, hi, num, den) ==
  <<lo[2] * den * (hi[1] - lo[1]) + (num - lo[1] * den) * (hi[2] - lo[2]),
    den * (hi[1] - lo[1])>>

Beyond(num, den) == <<Last[2], 1>>

(* bandwidth_for_size(num / den) *)
bandwidth_for_size(num, den) ==
  IF num <= First[1] * den THEN <<First[2], 1>>
  ELSE IF num >= Last[1] * den THEN Beyond(num, den)
  ELSE LET m == CHOOSE n \in 1..Len(disk_bandwidth_table) - 1 :
                  /\ disk_bandwidth_table[n][1] * den <= num
                  /\ num < disk_bandwidth_table[n + 1][1] * den
       IN  Between(disk_bandwidth_table[m], disk_bandwidth_table[m + 1], num, den)

AtMost(x, y) == x[1] * y[2] <= y[1] * x[2]

(* effective_us_per_op: the cost that one thread sees, unless the threads
   together ask for more than the disk can deliver at the average size. *)
effective_us_per_op(base, op_count, num_threads, bytes, ios) ==
  LET bw == bandwidth_for_size(bytes, ios)
      aggregate == <<num_threads * bytes, op_count * base>>
      saturated == <<num_threads * bytes * bw[2], op_count * bw[1]>>
  IN  IF \/ op_count <= 0 \/ num_threads <= 1 \/ ios <= 0 \/ bytes <= 0
         \/ AtMost(aggregate, bw)
         \/ AtMost(saturated, <<base, 1>>)
      THEN <<base, 1>>
      ELSE saturated
=============================================================================
