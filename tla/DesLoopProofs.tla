---------------------------- MODULE DesLoopProofs ---------------------------
(***************************************************************************)
(* The disk and the clocks of the discrete-event mode, for any table of    *)
(* bandwidths, any number of threads and operations and any costs.         *)
(***************************************************************************)
EXTENDS DesLoop, WellFoundedInduction, TLAPS

(* A non-empty set of naturals has a least element. *)
LEMMA LeastOf ==
  ASSUME NEW T \in SUBSET Nat, T # {}
  PROVE  \E m \in T : \A n \in T : m <= n
<1>1. PICK m \in T : \A n \in T : ~(<<n, m>> \in OpToRel(<, Nat))
  BY NatLessThanWellFounded, WFMin
<1>2. ASSUME NEW n \in T
      PROVE  m <= n
  <2>1. ~(n < m)
    BY <1>1 DEF OpToRel
  <2> QED
    BY <2>1
<1> QED
  BY <1>2

(* What the table's shape says of its entries. *)
LEMMA TableEntries ==
  /\ Len(disk_bandwidth_table) \in Nat \ {0}
  /\ DOMAIN disk_bandwidth_table = 1..Len(disk_bandwidth_table)
  /\ \A n \in 1..Len(disk_bandwidth_table) :
       /\ disk_bandwidth_table[n][1] \in Nat \ {0}
       /\ disk_bandwidth_table[n][2] \in Nat \ {0}
  /\ \A m, n \in 1..Len(disk_bandwidth_table) :
       m < n => /\ disk_bandwidth_table[m][1] < disk_bandwidth_table[n][1]
                /\ disk_bandwidth_table[m][2] <= disk_bandwidth_table[n][2]
<1> DEFINE tbl == disk_bandwidth_table
<1>1. tbl \in Seq((Nat \ {0}) \X (Nat \ {0})) /\ tbl # <<>>
  BY TableAssumption DEF BandwidthShape
<1>2. Len(tbl) \in Nat \ {0} /\ DOMAIN tbl = 1..Len(tbl)
  BY <1>1
<1>3. ASSUME NEW n \in 1..Len(tbl)
      PROVE  tbl[n][1] \in Nat \ {0} /\ tbl[n][2] \in Nat \ {0}
  <2>1. tbl[n] \in (Nat \ {0}) \X (Nat \ {0})
    BY <1>1
  <2> QED
    BY <2>1
<1>4. ASSUME NEW m \in 1..Len(tbl), NEW n \in 1..Len(tbl), m < n
      PROVE  tbl[m][1] < tbl[n][1] /\ tbl[m][2] <= tbl[n][2]
  BY <1>2, <1>4, TableAssumption DEF BandwidthShape
<1> QED
  BY <1>2, <1>3, <1>4

(* A size between the ends of the table is between two neighbours. *)
LEMMA BetweenNeighbours ==
  ASSUME NEW num \in Nat, First[1] < num, num < Last[1]
  PROVE  \E n \in 1..Len(disk_bandwidth_table) - 1 :
           /\ disk_bandwidth_table[n][1] <= num
           /\ num < disk_bandwidth_table[n + 1][1]
<1> DEFINE tbl == disk_bandwidth_table
           T == {n \in 1..Len(tbl) : num < tbl[n][1]}
<1>1. /\ Len(tbl) \in Nat \ {0}
      /\ \A n \in 1..Len(tbl) : tbl[n][1] \in Nat
  BY TableEntries
<1>2. Len(tbl) \in T /\ T \in SUBSET Nat /\ 1 \notin T
  BY <1>1 DEF First, Last
<1>3. PICK m \in T : \A n \in T : m <= n
  BY <1>2, LeastOf
<1>4. m # 1 /\ m \in 1..Len(tbl) /\ m - 1 \notin T
  BY <1>1, <1>2, <1>3
<1>5. m - 1 \in 1..Len(tbl) - 1 /\ tbl[m - 1][1] <= num /\ num < tbl[m - 1 + 1][1]
  BY <1>1, <1>4
<1> QED
  BY <1>5

(* A bandwidth is a positive ratio. *)
LEMMA BandwidthType ==
  ASSUME NEW size \in Nat
  PROVE  /\ bandwidth_for_size(size, 1)[1] \in Nat \ {0}
         /\ bandwidth_for_size(size, 1)[2] \in Nat \ {0}
<1> DEFINE tbl == disk_bandwidth_table
           bw == bandwidth_for_size(size, 1)
<1>1. /\ Len(tbl) \in Nat \ {0}
      /\ \A n \in 1..Len(tbl) : tbl[n][1] \in Nat \ {0} /\ tbl[n][2] \in Nat \ {0}
      /\ \A m, n \in 1..Len(tbl) : m < n => tbl[m][1] < tbl[n][1]
                                         /\ tbl[m][2] <= tbl[n][2]
  BY TableEntries
<1>2. CASE size <= First[1]
  <2>1. bw = <<First[2], 1>>
    <3>1. size <= First[1] * 1
      BY <1>1, <1>2 DEF First
    <3> QED
      BY <3>1 DEF bandwidth_for_size
  <2> QED
    BY <1>1, <2>1 DEF First
<1>3. CASE size > First[1] /\ size >= Last[1]
  <2>1. bw = <<Last[2], 1>>
    <3>1. ~(size <= First[1] * 1) /\ size >= Last[1] * 1
      BY <1>1, <1>3 DEF First, Last
    <3> QED
      BY <3>1 DEF bandwidth_for_size, Beyond
  <2> QED
    BY <1>1, <2>1 DEF Last
<1>4. CASE First[1] < size /\ size < Last[1]
  <2> DEFINE Fit(n) == tbl[n][1] * 1 <= size /\ size < tbl[n + 1][1] * 1
             m == CHOOSE n \in 1..Len(tbl) - 1 : Fit(n)
  <2>1. \E n \in 1..Len(tbl) - 1 : Fit(n)
    BY <1>1, <1>4, BetweenNeighbours
  <2>2. m \in 1..Len(tbl) - 1 /\ Fit(m)
    BY <2>1
  <2>3. bw = Between(tbl[m], tbl[m + 1], size, 1)
    <3>1. ~(size <= First[1] * 1) /\ ~(size >= Last[1] * 1)
      BY <1>1, <1>4 DEF First, Last
    <3> QED
      BY <3>1 DEF bandwidth_for_size
  <2> HIDE DEF m
  <2>4. m \in 1..Len(tbl) /\ m + 1 \in 1..Len(tbl) /\ m < m + 1
    BY <2>2, <1>1
  <2>5. /\ tbl[m][1] \in Nat /\ tbl[m + 1][1] \in Nat /\ tbl[m][1] < tbl[m + 1][1]
        /\ tbl[m][2] \in Nat \ {0} /\ tbl[m + 1][2] \in Nat
        /\ tbl[m][2] <= tbl[m + 1][2]
        /\ tbl[m][1] <= size
    BY <1>1, <2>2, <2>4
  <2>6. PICK x1, x2, y1, y2 \in Nat :
          /\ x1 = tbl[m][1] /\ x2 = tbl[m][2]
          /\ y1 = tbl[m + 1][1] /\ y2 = tbl[m + 1][2]
    BY <2>5
  <2>7. /\ bw[1] = x2 * 1 * (y1 - x1) + (size - x1 * 1) * (y2 - x2)
        /\ bw[2] = 1 * (y1 - x1)
    BY <2>3, <2>6 DEF Between
  <2>8. bw[1] \in Nat \ {0} /\ bw[2] \in Nat \ {0}
    <3> HIDE DEF tbl, bw
    <3>1. /\ y1 - x1 \in Nat \ {0} /\ size - x1 \in Nat /\ y2 - x2 \in Nat
          /\ x2 \in Nat \ {0}
      BY <2>5, <2>6
    <3>2. \A a, b \in Nat \ {0} : \A c, d \in Nat : a * b + c * d \in Nat \ {0}
      OBVIOUS
    <3>3. x2 * (y1 - x1) + (size - x1) * (y2 - x2) \in Nat \ {0}
      BY <3>1, <3>2
    <3>4. x2 * 1 = x2 /\ x1 * 1 = x1 /\ 1 * (y1 - x1) = y1 - x1
      BY <3>1
    <3> QED
      BY <2>7, <3>1, <3>3, <3>4
  <2> QED
    BY <2>8
<1> QED
  BY <1>1, <1>2, <1>3, <1>4 DEF First, Last

LEMMA ServiceType ==
  ASSUME NEW size \in Sizes
  PROVE  size \in Nat /\ Service(size) \in Nat
<1> DEFINE bw == bandwidth_for_size(size, 1)
<1>1. size \in Nat /\ TimeUnit \in Nat
  BY DesAssumption
<1>2. bw[1] \in Nat \ {0} /\ bw[2] \in Nat
  BY <1>1, BandwidthType
<1>3. size * bw[2] * TimeUnit \in Nat
  <2>1. \A a, b, c \in Nat : a * b * c \in Nat
    OBVIOUS
  <2> QED
    BY <1>1, <1>2, <2>1
<1>4. \A a \in Nat, b \in Nat \ {0} : a \div b \in Nat
  OBVIOUS
<1>5. Service(size) = (size * bw[2] * TimeUnit) \div bw[1]
  BY DEF Service
<1> HIDE DEF bw
<1> QED
  BY <1>1, <1>2, <1>3, <1>4, <1>5
-----------------------------------------------------------------------------
LEMMA ThreadId ==
  ASSUME TypeOK
  PROVE  tid \in Threads
  BY DesAssumption DEF TypeOK, tid, Threads

(* The request of a miss of the running operation. *)
NewRequest ==
  [thread |-> tid, arrival |-> t + HitCost,
   start |-> Start(t + HitCost), end |-> next_free_us']

(* What a miss does to the disk: the new request is put last. *)
LEMMA MissOnDisk ==
  ASSUME TypeOK, NEW size \in Sizes, NEW compute \in ComputeCosts,
         AccessMiss(size, compute)
  PROVE  /\ NewRequest \in Request
         /\ NewRequest.thread = tid /\ NewRequest.arrival = t + HitCost
         /\ NewRequest.end = next_free_us'
         /\ NewRequest.arrival <= NewRequest.start
         /\ next_free_us <= NewRequest.start
         /\ NewRequest.start <= NewRequest.end
         /\ served' \in Seq(Request)
         /\ DOMAIN served' = DOMAIN served \cup {Len(served) + 1}
         /\ DOMAIN served = 1..Len(served) /\ Len(served) \in Nat
         /\ served'[Len(served) + 1] = NewRequest
         /\ \A m \in DOMAIN served : served'[m] = served[m]
         /\ t' \in Nat /\ t <= t' /\ NewRequest.end <= t'
<1> DEFINE arrival == t + HitCost
<1>1. size \in Nat /\ Service(size) \in Nat
  BY ServiceType
<1>2. /\ arrival \in Nat /\ t <= arrival
      /\ Start(arrival) \in Nat
      /\ arrival <= Start(arrival) /\ next_free_us <= Start(arrival)
  BY DesAssumption DEF TypeOK, Start
<1>3. next_free_us' = Start(arrival) + Service(size) /\ next_free_us' \in Nat
  BY <1>1, <1>2 DEF AccessMiss
<1>4. t' = next_free_us' + InsertCost + compute
  BY <1>3 DEF AccessMiss, Completes
<1>5. compute \in Nat /\ InsertCost \in Nat
  BY DesAssumption
<1>6. NewRequest \in Request
  BY <1>2, <1>3, ThreadId DEF Request, NewRequest
<1>7. served' = Append(served, NewRequest) /\ served \in Seq(Request)
  BY DEF AccessMiss, TypeOK, NewRequest
<1>8. /\ served' \in Seq(Request)
      /\ DOMAIN served' = DOMAIN served \cup {Len(served) + 1}
      /\ DOMAIN served = 1..Len(served) /\ Len(served) \in Nat
      /\ served'[Len(served) + 1] = NewRequest
      /\ \A m \in DOMAIN served : served'[m] = served[m]
  BY <1>6, <1>7
<1>9. /\ NewRequest.arrival = arrival /\ NewRequest.start = Start(arrival)
      /\ NewRequest.end = next_free_us' /\ NewRequest.thread = tid
  BY DEF NewRequest
<1>10. t' \in Nat /\ t <= t' /\ next_free_us' <= t'
  <2>1. t \in Nat
    BY DEF TypeOK
  <2> QED
    BY <1>1, <1>2, <1>3, <1>4, <1>5, <2>1
<1> QED
  BY <1>1, <1>2, <1>3, <1>6, <1>8, <1>9, <1>10

-----------------------------------------------------------------------------
(* The clock of the running operation has not gone back; without it the sum
   of the latencies need not be a natural number. *)
GoesForward == running => thread_now[tid] <= t

LEMMA TypeStep ==
  ASSUME TypeOK, GoesForward, [Next]_vars
  PROVE  TypeOK' /\ GoesForward'
<1> USE DesAssumption
<1>1. CASE SkipOp
  BY <1>1 DEF SkipOp, TypeOK, disk, GoesForward
<1>2. CASE BeginOp
  <2>1. thread_now[tid] \in Nat
    BY ThreadId DEF TypeOK
  <2>2. TypeOK'
    BY <1>2, <2>1 DEF BeginOp, TypeOK, disk
  <2>3. tid' = tid
    BY <1>2 DEF BeginOp, tid
  <2> QED
    BY <1>2, <2>1, <2>2, <2>3 DEF BeginOp, GoesForward
<1>3. CASE EndOp
  <2>1. thread_now[tid] \in Nat /\ thread_now[tid] <= t
    BY <1>3, ThreadId DEF TypeOK, GoesForward, EndOp
  <2>2. thread_now' \in [Threads -> Nat]
    BY <1>3, ThreadId DEF EndOp, TypeOK, KeptClock
  <2>3. total_cost' \in Nat
    BY <1>3, <2>1 DEF EndOp, TypeOK
  <2>4. running' \in BOOLEAN
    BY <1>3 DEF EndOp
  <2>5. TypeOK'
    BY <1>3, <2>2, <2>3, <2>4 DEF EndOp, TypeOK, disk
  <2> QED
    BY <1>3, <2>5 DEF EndOp, GoesForward
<1>4. ASSUME NEW compute \in ComputeCosts, AccessHit(compute)
      PROVE  TypeOK' /\ GoesForward'
  <2>1. compute \in Nat /\ tid' = tid /\ thread_now[tid] \in Nat
    BY <1>4, ThreadId DEF AccessHit, tid, TypeOK
  <2>2. TypeOK'
    BY <1>4, <2>1 DEF AccessHit, TypeOK, disk
  <2>3. thread_now'[tid'] = thread_now[tid] /\ thread_now[tid] <= t
    BY <1>4, <2>1 DEF AccessHit, GoesForward
  <2> QED
    BY <1>4, <2>1, <2>2, <2>3 DEF AccessHit, GoesForward, TypeOK
<1>5. ASSUME NEW compute \in ComputeCosts, NEW size \in Sizes,
             AccessMiss(size, compute)
      PROVE  TypeOK' /\ GoesForward'
  <2>1. /\ served' \in Seq(Request) /\ t' \in Nat /\ t <= t'
        /\ next_free_us' \in Nat
    BY <1>5, MissOnDisk DEF Request
  <2>2. size \in Nat /\ tid' = tid /\ thread_now[tid] \in Nat
    BY <1>5, ThreadId DEF AccessMiss, tid, TypeOK
  <2>3. accesses' \in 0..MaxAccesses /\ total_miss_bytes' \in Nat
    BY <1>5, <2>2 DEF AccessMiss, TypeOK
  <2>4. TypeOK'
    BY <1>5, <2>1, <2>3 DEF AccessMiss, TypeOK
  <2>5. thread_now'[tid'] = thread_now[tid] /\ thread_now[tid] <= t
    BY <1>5, <2>2 DEF AccessMiss, GoesForward
  <2>6. t \in Nat
    BY DEF TypeOK
  <2> QED
    BY <2>1, <2>2, <2>4, <2>5, <2>6 DEF GoesForward
<1>6. CASE UNCHANGED vars
  BY <1>6 DEF vars, disk, TypeOK, GoesForward, tid
<1> QED
  BY <1>1, <1>2, <1>3, <1>4, <1>5, <1>6 DEF Next, Step, Stopped

(* Clocks, latencies and the disk's times are natural numbers: an operation
   never ends before it began. *)
THEOREM DesTypeCorrect == Spec => [](TypeOK /\ GoesForward)
<1>1. ASSUME Init
      PROVE  TypeOK /\ GoesForward
  <2>1. thread_now \in [Threads -> Nat] /\ served \in Seq(Request)
    BY <1>1 DEF Init
  <2>2. running \in BOOLEAN
    BY <1>1 DEF Init
  <2>3. TypeOK
    BY <1>1, <2>1, <2>2, DesAssumption DEF Init, TypeOK
  <2> QED
    BY <1>1, <2>3 DEF Init, GoesForward
<1>2. TypeOK /\ GoesForward /\ [Next]_vars => (TypeOK /\ GoesForward)'
  BY TypeStep
<1> QED
  BY <1>1, <1>2, PTL DEF Spec

-----------------------------------------------------------------------------
LEMMA DiskStep ==
  ASSUME TypeOK, OneRequestAtATime, [Next]_vars
  PROVE  OneRequestAtATime'
<1>1. ASSUME NEW compute \in ComputeCosts, NEW size \in Sizes,
             AccessMiss(size, compute)
      PROVE  OneRequestAtATime'
  <2> DEFINE last == Len(served) + 1
  <2>1. /\ DOMAIN served' = DOMAIN served \cup {last}
        /\ DOMAIN served = 1..Len(served) /\ Len(served) \in Nat
        /\ \A m \in DOMAIN served : served'[m] = served[m]
    BY <1>1, MissOnDisk
  <2>2. /\ served'[last].arrival <= served'[last].start
        /\ next_free_us <= served'[last].start
        /\ served'[last].start <= served'[last].end
        /\ served'[last].end = next_free_us'
        /\ served'[last] \in Request
    BY <1>1, MissOnDisk
  <2>3. next_free_us \in Nat /\ next_free_us' \in Nat
    BY <2>2 DEF TypeOK, Request
  <2>4. next_free_us <= next_free_us'
    BY <2>2, <2>3 DEF Request
  <2>5. ASSUME NEW m \in DOMAIN served
        PROVE  served[m].end \in Nat
    <3>1. served[m] \in Request
      BY DEF TypeOK
    <3> QED
      BY <3>1 DEF Request
  <2>6. ASSUME NEW m \in DOMAIN served'
        PROVE  /\ served'[m].start >= served'[m].arrival
               /\ served'[m].end <= next_free_us'
    <3>1. CASE m = last
      BY <3>1, <2>2, <2>3 DEF Request
    <3>2. CASE m \in DOMAIN served
      BY <3>2, <2>1, <2>3, <2>4, <2>5 DEF OneRequestAtATime
    <3> QED
      BY <3>1, <3>2, <2>1
  <2>7. ASSUME NEW m \in DOMAIN served', NEW n \in DOMAIN served', m < n
        PROVE  served'[m].end <= served'[n].start
    <3>1. m \in DOMAIN served
      BY <2>1, <2>7
    <3>2. CASE n = last
      <4>1. served'[m].end <= next_free_us
        BY <3>1, <2>1 DEF OneRequestAtATime
      <4> QED
        BY <3>1, <3>2, <4>1, <2>1, <2>2, <2>3, <2>5 DEF Request
    <3>3. CASE n \in DOMAIN served
      BY <2>1, <2>7, <3>1, <3>3 DEF OneRequestAtATime
    <3> QED
      BY <3>2, <3>3, <2>1
  <2> QED
    BY <2>6, <2>7 DEF OneRequestAtATime
<1>2. ASSUME UNCHANGED disk
      PROVE  OneRequestAtATime'
  BY <1>2 DEF OneRequestAtATime, disk
<1> QED
  BY <1>1, <1>2 DEF Next, Step, Stopped, SkipOp, BeginOp, EndOp, AccessHit, vars

(* The disk serves one request at a time, none before it arrives, in the
   order the program submits them, whatever the threads' clocks. *)
THEOREM DiskCorrect == Spec => []OneRequestAtATime
<1>1. Init => OneRequestAtATime
  BY DEF Init, OneRequestAtATime
<1>2. TypeOK /\ OneRequestAtATime /\ [Next]_vars => OneRequestAtATime'
  BY DiskStep
<1> QED
  BY <1>1, <1>2, DesTypeCorrect, PTL DEF Spec

-----------------------------------------------------------------------------
(* The clock of a thread: that of its operation while one runs. *)
ClockOf(th) == IF running /\ th = tid THEN t ELSE thread_now[th]

(* No thread's clock is behind the end of a request it has made: it waited. *)
ClocksCoverRequests ==
  \A m \in DOMAIN served : served[m].end <= ClockOf(served[m].thread)

(* A step that makes no request only moves clocks forward. *)
LEMMA ClocksForward ==
  ASSUME TypeOK, GoesForward, NEW th \in Threads,
         \/ SkipOp \/ BeginOp \/ EndOp \/ UNCHANGED vars
         \/ \E compute \in ComputeCosts : AccessHit(compute)
  PROVE  ClockOf(th) \in Nat /\ ClockOf(th)' \in Nat /\ ClockOf(th) <= ClockOf(th)'
<1>1. thread_now[th] \in Nat /\ thread_now[tid] \in Nat /\ t \in Nat
  BY ThreadId DEF TypeOK
<1>2. CASE SkipOp
  BY <1>1, <1>2 DEF SkipOp, ClockOf
<1>3. CASE BeginOp
  <2>1. tid' = tid
    BY <1>3 DEF BeginOp, tid
  <2> QED
    BY <1>1, <1>3, <2>1 DEF BeginOp, ClockOf
<1>4. CASE EndOp
  BY <1>1, <1>4 DEF EndOp, ClockOf, KeptClock, TypeOK
<1>5. ASSUME NEW compute \in ComputeCosts, AccessHit(compute)
      PROVE  /\ ClockOf(th) \in Nat /\ ClockOf(th)' \in Nat
             /\ ClockOf(th) <= ClockOf(th)'
  <2>1. tid' = tid /\ compute \in Nat /\ HitCost \in Nat
    BY <1>5, DesAssumption DEF AccessHit, tid
  <2>2. t' \in Nat /\ t <= t'
    BY <1>1, <1>5, <2>1 DEF AccessHit
  <2> QED
    BY <1>1, <1>5, <2>1, <2>2 DEF AccessHit, ClockOf
<1>6. CASE UNCHANGED vars
  BY <1>1, <1>6 DEF vars, ClockOf, tid
<1> QED
  BY <1>2, <1>3, <1>4, <1>5, <1>6

LEMMA CoverStep ==
  ASSUME TypeOK, GoesForward, ClocksCoverRequests, [Next]_vars
  PROVE  ClocksCoverRequests'
<1>1. ASSUME NEW m \in DOMAIN served
      PROVE  /\ served[m].thread \in Threads /\ served[m].end \in Nat
             /\ served[m].end <= ClockOf(served[m].thread)
  <2>1. served[m] \in Request
    BY DEF TypeOK
  <2> QED
    BY <2>1 DEF Request, ClocksCoverRequests
<1>2. CASE \/ SkipOp \/ BeginOp \/ EndOp \/ UNCHANGED vars
           \/ \E compute \in ComputeCosts : AccessHit(compute)
  <2>1. served' = served
    BY <1>2 DEF SkipOp, BeginOp, EndOp, AccessHit, vars, disk
  <2>2. ASSUME NEW m \in DOMAIN served
        PROVE  served[m].end <= ClockOf(served[m].thread)'
    <3>1. PICK th \in Threads : th = served[m].thread
      BY <1>1
    <3>2. served[m].end \in Nat /\ served[m].end <= ClockOf(th)
      BY <1>1, <3>1
    <3>3. /\ ClockOf(th) \in Nat /\ ClockOf(th)' \in Nat
          /\ ClockOf(th) <= ClockOf(th)'
      BY <1>2, ClocksForward
    <3>4. served[m].end <= ClockOf(th)'
      BY <3>2, <3>3
    <3> QED
      BY <2>1, <3>1, <3>4 DEF ClockOf
  <2> QED
    BY <2>1, <2>2 DEF ClocksCoverRequests
<1>3. ASSUME NEW compute \in ComputeCosts, NEW size \in Sizes,
             AccessMiss(size, compute)
      PROVE  ClocksCoverRequests'
  <2> DEFINE last == Len(served) + 1
  <2>1. /\ tid' = tid /\ running /\ running' /\ thread_now' = thread_now
        /\ t \in Nat /\ t' \in Nat /\ t <= t'
    BY <1>3, MissOnDisk DEF AccessMiss, tid, TypeOK
  <2>2. /\ DOMAIN served' = DOMAIN served \cup {last}
        /\ \A m \in DOMAIN served : served'[m] = served[m]
        /\ served'[last].thread = tid
        /\ served'[last].end <= t'
    BY <1>3, MissOnDisk
  <2>3. ASSUME NEW m \in DOMAIN served'
        PROVE  served'[m].end <= IF served'[m].thread = tid
                                 THEN t' ELSE thread_now[served'[m].thread]
    <3>1. CASE m = last
      BY <3>1, <2>2
    <3>2. CASE m \in DOMAIN served
      <4>1. served'[m] = served[m]
        BY <3>2, <2>2
      <4>2. /\ served[m].end \in Nat
            /\ served[m].end <= IF served[m].thread = tid
                                THEN t ELSE thread_now[served[m].thread]
        BY <1>1, <2>1, <3>2 DEF ClockOf
      <4> QED
        BY <4>1, <4>2, <2>1
    <3> QED
      BY <3>1, <3>2, <2>2
  <2> QED
    BY <2>1, <2>3 DEF ClocksCoverRequests, ClockOf
<1> QED
  BY <1>2, <1>3 DEF Next, Step, Stopped

LEMMA SequentialStep ==
  ASSUME TypeOK, ClocksCoverRequests, ThreadsAreSequential, [Next]_vars
  PROVE  ThreadsAreSequential'
<1>1. ASSUME UNCHANGED disk
      PROVE  ThreadsAreSequential'
  BY <1>1 DEF ThreadsAreSequential, disk
<1>2. ASSUME NEW compute \in ComputeCosts, NEW size \in Sizes,
             AccessMiss(size, compute)
      PROVE  ThreadsAreSequential'
  <2> DEFINE last == Len(served) + 1
  <2>1. /\ DOMAIN served' = DOMAIN served \cup {last}
        /\ DOMAIN served = 1..Len(served) /\ Len(served) \in Nat
        /\ \A m \in DOMAIN served : served'[m] = served[m]
        /\ served'[last].thread = tid
        /\ served'[last].arrival = t + HitCost
    BY <1>2, MissOnDisk
  <2>2. running /\ t \in Nat /\ HitCost \in Nat
    BY <1>2, DesAssumption DEF AccessMiss, TypeOK
  <2>3. ASSUME NEW m \in DOMAIN served', NEW n \in DOMAIN served', m < n,
               served'[m].thread = served'[n].thread
        PROVE  served'[m].end <= served'[n].arrival
    <3>1. m \in DOMAIN served /\ served'[m] = served[m]
      BY <2>1, <2>3
    <3>2. CASE n = last
      <4>1. served[m] \in Request
        BY <3>1 DEF TypeOK
      <4>2. served[m].end \in Nat /\ served[m].end <= t
        BY <4>1, <3>1, <3>2, <2>1, <2>2, <2>3
           DEF Request, ClocksCoverRequests, ClockOf
      <4> QED
        BY <3>1, <3>2, <4>2, <2>1, <2>2
    <3>3. CASE n \in DOMAIN served
      BY <2>1, <2>3, <3>1, <3>3 DEF ThreadsAreSequential
    <3> QED
      BY <3>2, <3>3, <2>1
  <2> QED
    BY <2>3 DEF ThreadsAreSequential
<1> QED
  BY <1>1, <1>2 DEF Next, Step, Stopped, SkipOp, BeginOp, EndOp, AccessHit, vars

(* A thread issues a request only after its last one has been served,
   however the operations of other threads come in between. *)
THEOREM ThreadsCorrect == Spec => []ThreadsAreSequential
<1>1. Init => ClocksCoverRequests /\ ThreadsAreSequential
  BY DEF Init, ClocksCoverRequests, ThreadsAreSequential
<1>2. /\ TypeOK /\ GoesForward
      /\ ClocksCoverRequests /\ ThreadsAreSequential /\ [Next]_vars
      => ClocksCoverRequests' /\ ThreadsAreSequential'
  BY CoverStep, SequentialStep
<1> QED
  BY <1>1, <1>2, DesTypeCorrect, PTL DEF Spec

-----------------------------------------------------------------------------
(* Products of naturals, for the solver. *)
LEMMA TimesMonotonic ==
  ASSUME NEW a \in Nat, NEW b \in Nat, NEW c \in Nat, a <= b
  PROVE  a * c <= b * c /\ c * a <= c * b
<1>1. PICK d \in Nat : b = a + d
  <2>1. b - a \in Nat /\ b = a + (b - a)
    OBVIOUS
  <2> QED
    BY <2>1
<1>2. b * c = a * c + d * c /\ a * c \in Nat /\ d * c \in Nat
  BY <1>1
<1>3. c * b = b * c /\ c * a = a * c
  OBVIOUS
<1> QED
  BY <1>2, <1>3

LEMMA TimesCancels ==
  ASSUME NEW a \in Nat, NEW b \in Nat, NEW c \in Nat \ {0}, a * c <= b * c
  PROVE  a <= b
<1> SUFFICES ASSUME b < a PROVE FALSE
  OBVIOUS
<1>1. (b + 1) * c <= a * c
  BY TimesMonotonic
<1>2. (b + 1) * c = b * c + c /\ b * c \in Nat /\ a * c \in Nat
  OBVIOUS
<1> QED
  BY <1>1, <1>2

(* A point between two neighbours lies no higher than the upper one. *)
LEMMA BetweenBound ==
  ASSUME NEW x1 \in Nat, NEW x2 \in Nat, NEW y1 \in Nat, NEW y2 \in Nat,
         NEW size \in Nat, NEW top \in Nat,
         x1 <= size, size < y1, x2 <= y2, y2 <= top
  PROVE  x2 * 1 * (y1 - x1) + (size - x1 * 1) * (y2 - x2) <= top * (1 * (y1 - x1))
<1>1. PICK w, u, e, d \in Nat :
        w = y1 - x1 /\ u = size - x1 /\ e = y2 - x2 /\ d = top - x2
  <2>1. y1 - x1 \in Nat /\ size - x1 \in Nat /\ y2 - x2 \in Nat /\ top - x2 \in Nat
    OBVIOUS
  <2> QED
    BY <2>1
<1>2. u <= w /\ e <= d /\ top = x2 + d
  BY <1>1
<1>3. u * e <= w * e /\ w * e <= w * d
  BY <1>2, TimesMonotonic
<1>4. /\ u * e \in Nat /\ w * e \in Nat /\ w * d \in Nat
      /\ (x2 + d) * w = x2 * w + w * d
  OBVIOUS
<1>5. x2 * w + u * e <= top * w
  <2>1. top * w = x2 * w + w * d
    BY <1>2, <1>4
  <2>2. x2 * w \in Nat
    OBVIOUS
  <2> QED
    BY <1>3, <1>4, <2>1, <2>2
<1>6. x2 * 1 = x2 /\ x1 * 1 = x1 /\ 1 * w = w
  OBVIOUS
<1> QED
  BY <1>1, <1>5, <1>6

(* The bandwidth never exceeds that of the last entry of the table. *)
LEMMA BandwidthBound ==
  ASSUME NEW size \in Nat
  PROVE  /\ Last[2] \in Nat
         /\ bandwidth_for_size(size, 1)[1] <= Last[2] * bandwidth_for_size(size, 1)[2]
<1> DEFINE len == Len(disk_bandwidth_table)
<1>1. /\ len \in Nat \ {0}
      /\ \A n \in 1..len : /\ disk_bandwidth_table[n][1] \in Nat \ {0}
                          /\ disk_bandwidth_table[n][2] \in Nat \ {0}
      /\ \A m, n \in 1..len :
           m < n => /\ disk_bandwidth_table[m][1] < disk_bandwidth_table[n][1]
                    /\ disk_bandwidth_table[m][2] <= disk_bandwidth_table[n][2]
  BY TableEntries
<1>2. PICK top \in Nat : top = Last[2]
  BY <1>1 DEF Last
<1>3. \A n \in 1..len : disk_bandwidth_table[n][2] <= top
  BY <1>1, <1>2 DEF Last
<1>4. top * 1 = top
  OBVIOUS
<1>5. First[1] \in Nat /\ Last[1] \in Nat /\ First[2] \in Nat
      /\ First[2] <= top
  BY <1>1, <1>2, <1>3 DEF First, Last
<1>6. First[1] * 1 = First[1] /\ Last[1] * 1 = Last[1]
  BY <1>5
<1>7. CASE size <= First[1]
  <2>1. bandwidth_for_size(size, 1) = <<First[2], 1>>
    BY <1>6, <1>7 DEF bandwidth_for_size
  <2>2. bandwidth_for_size(size, 1)[1] = First[2] /\ bandwidth_for_size(size, 1)[2] = 1
    BY <2>1
  <2> QED
    BY <1>2, <1>4, <1>5, <2>2
<1>8. CASE size > First[1] /\ size >= Last[1]
  <2>1. bandwidth_for_size(size, 1) = <<Last[2], 1>>
    <3>1. ~(size <= First[1] * 1) /\ size >= Last[1] * 1
      BY <1>5, <1>6, <1>8
    <3> QED
      BY <3>1 DEF bandwidth_for_size, Beyond
  <2>2. bandwidth_for_size(size, 1)[1] = top /\ bandwidth_for_size(size, 1)[2] = 1
    BY <1>2, <2>1
  <2> QED
    BY <1>2, <1>4, <2>2
<1>9. CASE First[1] < size /\ size < Last[1]
  <2> DEFINE Fit(n) == disk_bandwidth_table[n][1] * 1 <= size
                       /\ size < disk_bandwidth_table[n + 1][1] * 1
             m == CHOOSE n \in 1..len - 1 : Fit(n)
  <2>1. \E n \in 1..len - 1 : Fit(n)
    BY <1>1, <1>9, BetweenNeighbours
  <2>2. m \in 1..len - 1 /\ Fit(m)
    BY <2>1
  <2>3. bandwidth_for_size(size, 1)
          = Between(disk_bandwidth_table[m], disk_bandwidth_table[m + 1], size, 1)
    BY <1>5, <1>6, <1>9 DEF bandwidth_for_size
  <2> HIDE DEF m
  <2>4. m \in 1..len /\ m + 1 \in 1..len /\ m < m + 1
    BY <2>2, <1>1
  <2>5. PICK x1, x2, y1, y2 \in Nat :
          /\ x1 = disk_bandwidth_table[m][1] /\ x2 = disk_bandwidth_table[m][2]
          /\ y1 = disk_bandwidth_table[m + 1][1]
          /\ y2 = disk_bandwidth_table[m + 1][2]
    BY <1>1, <2>4
  <2>6. x2 <= y2 /\ y2 <= top /\ x1 <= size /\ size < y1
    BY <1>1, <1>3, <2>2, <2>4, <2>5
  <2>7. /\ bandwidth_for_size(size, 1)[1]
            = x2 * 1 * (y1 - x1) + (size - x1 * 1) * (y2 - x2)
        /\ bandwidth_for_size(size, 1)[2] = 1 * (y1 - x1)
    BY <2>3, <2>5 DEF Between
  <2> QED
    BY <1>2, <2>6, <2>7, BetweenBound
<1> QED
  BY <1>2, <1>5, <1>7, <1>8, <1>9

(* The disk takes no less time for a request than the highest bandwidth. *)
LEMMA ServiceTakesTime ==
  ASSUME NEW size \in Sizes
  PROVE  /\ Last[2] \in Nat /\ Service(size) \in Nat /\ size \in Nat
         /\ size * TimeUnit <= Last[2] * Service(size)
<1> DEFINE bw == bandwidth_for_size(size, 1)
<1>1. size \in Nat /\ Service(size) \in Nat /\ TimeUnit \in Nat
  BY ServiceType, DesAssumption
<1>2. PICK b1, b2 \in Nat \ {0} : b1 = bw[1] /\ b2 = bw[2]
  BY <1>1, BandwidthType
<1>3. PICK top \in Nat : top = Last[2] /\ b1 <= top * b2
  BY <1>1, <1>2, BandwidthBound
<1>4. PICK s \in Nat : s = Service(size)
  BY <1>1
<1>5. s * b1 = size * b2 * TimeUnit
  BY <1>2, <1>4, ServiceTimesAreWhole
<1> HIDE DEF bw
<1>6. s * b1 <= s * (top * b2)
  <2>1. top * b2 \in Nat
    OBVIOUS
  <2> QED
    BY <1>3, <2>1, TimesMonotonic
<1>7. size * b2 * TimeUnit = (size * TimeUnit) * b2 /\ s * (top * b2) = (top * s) * b2
  BY <1>1
<1>8. size * TimeUnit <= top * s
  <2>1. size * TimeUnit \in Nat /\ top * s \in Nat
    BY <1>1
  <2> QED
    BY <1>5, <1>6, <1>7, <2>1, TimesCancels
<1> QED
  BY <1>1, <1>3, <1>4, <1>8

(* Finitely many naturals have a largest one. *)
LEMMA LargestClock ==
  ASSUME NEW f \in [Threads -> Nat]
  PROVE  LET S == {f[th] : th \in Threads}
         IN  /\ Max(S) \in Nat
             /\ \A th \in Threads : f[th] <= Max(S)
<1> DEFINE S == {f[th] : th \in Threads}
           Bounded(n) == \E b \in Nat : \A th \in 0..n - 1 : f[th] <= b
           Bad == {n \in 0..num_threads : ~Bounded(n)}
<1>1. num_threads \in Nat /\ 0 \in Threads /\ Threads = 0..num_threads - 1
  BY DesAssumption DEF Threads
<1>2. Bad = {}
  <2> SUFFICES ASSUME Bad # {} PROVE FALSE
    OBVIOUS
  <2>1. Bad \in SUBSET Nat
    BY <1>1
  <2>2. PICK n \in Bad : \A k \in Bad : n <= k
    BY <2>1, LeastOf
  <2>3. n # 0
    <3>1. \A th \in 0..0 - 1 : f[th] <= 0
      OBVIOUS
    <3>2. Bounded(0)
      BY <3>1
    <3> HIDE DEF Bounded
    <3> QED
      BY <2>2, <3>2
  <2>4. n \in Nat /\ n <= num_threads /\ n - 1 \in Nat /\ ~Bounded(n)
    <3> HIDE DEF Bounded
    <3> QED
      BY <1>1, <2>2, <2>3
  <2>11. n - 1 \in 0..num_threads /\ n - 1 \notin Bad /\ n - 1 \in Threads
    <3> HIDE DEF Bounded
    <3>1. n - 1 \in 0..num_threads /\ n - 1 \in Threads
      BY <1>1, <2>4
    <3>2. ~(n <= n - 1)
      BY <2>4
    <3>3. n - 1 \notin Bad
      BY <2>2, <3>2
    <3> QED
      BY <3>1, <3>3
  <2>12. Bounded(n - 1)
    <3> HIDE DEF Bounded
    <3> QED
      BY <2>11
  <2>5. PICK b \in Nat : \A th \in 0..(n - 1) - 1 : f[th] <= b
    BY <2>12
  <2>6. PICK k \in Nat : k = f[n - 1]
    BY <2>11
  <2>7. \A th \in 0..n - 1 : th = n - 1 \/ th \in 0..(n - 1) - 1
    BY <2>4
  <2>8. PICK c \in Nat : b <= c /\ k <= c
    <3>1. b + k \in Nat /\ b <= b + k /\ k <= b + k
      OBVIOUS
    <3> QED
      BY <3>1
  <2>9. ASSUME NEW th \in 0..n - 1
        PROVE  f[th] <= c
    <3>1. CASE th = n - 1
      <4>1. f[th] = k
        BY <3>1, <2>6
      <4> QED
        BY <4>1, <2>8
    <3>2. CASE th \in 0..(n - 1) - 1
      <4>1. th \in Threads
        BY <1>1, <2>4, <3>2
      <4>2. PICK a \in Nat : a = f[th]
        BY <4>1
      <4>3. f[th] <= b
        BY <3>2, <2>5
      <4>4. a <= b /\ b <= c /\ a \in Nat /\ b \in Nat /\ c \in Nat
        BY <4>2, <4>3, <2>5, <2>8
      <4>5. a <= c
        BY ONLY <4>4
      <4> QED
        BY <4>2, <4>5
    <3> QED
      BY <2>7, <3>1, <3>2
  <2>10. Bounded(n)
    BY <2>8, <2>9
  <2> QED
    BY <2>4, <2>10
<1>3. PICK b \in Nat : \A th \in Threads : f[th] <= b
  <2>1. num_threads \in 0..num_threads
    BY <1>1
  <2>2. Bounded(num_threads)
    BY <1>2, <2>1
  <2> QED
    BY <1>1, <2>2
<1> DEFINE Upper == {n \in Nat : \A th \in Threads : f[th] <= n}
<1>4. PICK n \in Upper : \A k \in Upper : n <= k
  <2>1. b \in Upper /\ Upper \in SUBSET Nat
    BY <1>3
  <2> QED
    BY <2>1, LeastOf
<1>5. \E th \in Threads : f[th] = n
  <2> SUFFICES ASSUME \A th \in Threads : f[th] # n PROVE FALSE
    OBVIOUS
  <2>1. f[0] \in Nat /\ f[0] <= n /\ f[0] # n
    BY <1>1, <1>4
  <2>2. n - 1 \in Nat
    BY <1>4, <2>1
  <2>3. \A th \in Threads : f[th] <= n - 1
    BY <1>4, <2>2
  <2> QED
    BY <1>4, <2>2, <2>3
<1>6. n \in S /\ \A x \in S : n >= x
  BY <1>4, <1>5
<1> DEFINE m == Max(S)
<1>7. m \in S /\ \A x \in S : m >= x
  BY <1>6 DEF Max
<1> QED
  BY <1>7

(* Nothing the disk has done lies behind all of the clocks. *)
DiskBehindClock ==
  /\ total_miss_bytes * TimeUnit <= Last[2] * next_free_us
  /\ \E th \in Threads : next_free_us <= ClockOf(th)

LEMMA DiskBehindClockStep ==
  ASSUME TypeOK, GoesForward, DiskBehindClock, [Next]_vars
  PROVE  DiskBehindClock'
<1>1. PICK th \in Threads : next_free_us <= ClockOf(th)
  BY DEF DiskBehindClock
<1>2. CASE \/ SkipOp \/ BeginOp \/ EndOp \/ UNCHANGED vars
           \/ \E compute \in ComputeCosts : AccessHit(compute)
  <2>1. /\ ClockOf(th) \in Nat /\ ClockOf(th)' \in Nat
        /\ ClockOf(th) <= ClockOf(th)'
    BY <1>2, ClocksForward
  <2>2. UNCHANGED <<next_free_us, total_miss_bytes>>
    BY <1>2 DEF SkipOp, BeginOp, EndOp, AccessHit, vars, disk
  <2>3. next_free_us \in Nat
    BY DEF TypeOK
  <2>4. next_free_us' <= ClockOf(th)'
    BY <1>1, <2>1, <2>2, <2>3
  <2> QED
    BY <2>2, <2>4 DEF DiskBehindClock
<1>3. ASSUME NEW compute \in ComputeCosts, NEW size \in Sizes,
             AccessMiss(size, compute)
      PROVE  DiskBehindClock'
  <2>1. next_free_us' <= t' /\ running' /\ tid' = tid /\ tid \in Threads
    BY <1>3, MissOnDisk, ThreadId DEF AccessMiss, tid
  <2>2. next_free_us' <= ClockOf(tid)'
    BY <2>1 DEF ClockOf
  <2>3. PICK n, m, z, top, s, nxt, tu \in Nat :
          /\ n = next_free_us /\ m = total_miss_bytes /\ z = size
          /\ top = Last[2] /\ s = Service(size) /\ tu = TimeUnit
          /\ nxt = next_free_us'
    <3>1. next_free_us' \in Nat
      BY <1>3, MissOnDisk DEF Request
    <3> QED
      BY <3>1, ServiceTakesTime, DesAssumption DEF TypeOK
  <2>4. z * tu <= top * s /\ m * tu <= top * n
    BY <2>3, ServiceTakesTime DEF DiskBehindClock
  <2>5. n + s <= nxt /\ total_miss_bytes' = m + z
    <3>1. Start(t + HitCost) \in Nat /\ n <= Start(t + HitCost)
      BY <2>3, DesAssumption DEF Start, TypeOK
    <3> QED
      BY <1>3, <2>3, <3>1 DEF AccessMiss
  <2>6. top * (n + s) <= top * nxt
    <3>1. n + s \in Nat
      OBVIOUS
    <3> QED
      BY <2>5, <3>1, TimesMonotonic
  <2>7. /\ (m + z) * tu = m * tu + z * tu /\ top * (n + s) = top * n + top * s
        /\ m * tu \in Nat /\ z * tu \in Nat /\ top * n \in Nat /\ top * s \in Nat
        /\ top * nxt \in Nat
    OBVIOUS
  <2>8. (m + z) * tu <= top * nxt
    BY <2>4, <2>6, <2>7
  <2>9. total_miss_bytes' * TimeUnit <= Last[2] * next_free_us'
    BY <2>3, <2>5, <2>8
  <2> QED
    BY <2>1, <2>2, <2>9 DEF DiskBehindClock
<1> QED
  BY <1>2, <1>3 DEF Next, Step, Stopped

(* The makespan, or the clock of the operation that runs, is not before the
   end of the last request, and the requests took their time: the report's
   throughput is one the disk can deliver, for any table, sizes and threads. *)
THEOREM DiskBoundsThroughput == Spec => []NeverFasterThanDisk
<1>1. Init => DiskBehindClock
  <2> SUFFICES ASSUME Init PROVE DiskBehindClock
    OBVIOUS
  <2>1. 0 \in Threads /\ ClockOf(0) = 0
    BY DesAssumption DEF Threads, Init, ClockOf
  <2>2. Last[2] \in Nat /\ TimeUnit \in Nat
    BY BandwidthBound, DesAssumption
  <2>3. total_miss_bytes * TimeUnit = 0 /\ Last[2] * next_free_us = 0
    BY <2>2 DEF Init
  <2>4. next_free_us <= ClockOf(0)
    BY <2>1 DEF Init
  <2> QED
    BY <2>1, <2>3, <2>4 DEF DiskBehindClock
<1>2. TypeOK /\ GoesForward /\ DiskBehindClock /\ [Next]_vars => DiskBehindClock'
  BY DiskBehindClockStep
<1>3. ASSUME TypeOK, DiskBehindClock
      PROVE  NeverFasterThanDisk
  <2> DEFINE latest == IF running THEN Max({t, Makespan}) ELSE Makespan
  <2>1. PICK th \in Threads : next_free_us <= ClockOf(th)
    BY <1>3 DEF DiskBehindClock
  <2>2. Makespan \in Nat /\ thread_now[th] \in Nat /\ thread_now[th] <= Makespan
    BY <1>3, LargestClock DEF Makespan, TypeOK
  <2>3. t \in Nat /\ next_free_us \in Nat /\ total_miss_bytes \in Nat
    BY <1>3 DEF TypeOK
  <2>4. /\ Max({t, Makespan}) \in Nat
        /\ t <= Max({t, Makespan}) /\ Makespan <= Max({t, Makespan})
    <3> DEFINE S == {t, Makespan}
    <3>1. \E x \in S : \A y \in S : x >= y
      BY <2>2, <2>3
    <3>2. Max(S) \in S /\ \A y \in S : Max(S) >= y
      BY <3>1 DEF Max
    <3> QED
      BY <2>2, <2>3, <3>2
  <2>5. latest \in Nat /\ next_free_us <= latest
    BY <2>1, <2>2, <2>3, <2>4 DEF ClockOf
  <2>6. NeverFasterThanDisk <=> total_miss_bytes * TimeUnit <= Last[2] * latest
    BY DEF NeverFasterThanDisk
  <2> HIDE DEF latest
  <2>7. Last[2] \in Nat /\ TimeUnit \in Nat
    BY BandwidthBound, DesAssumption
  <2>8. Last[2] * next_free_us <= Last[2] * latest
    BY <2>3, <2>5, <2>7, TimesMonotonic
  <2>9. total_miss_bytes * TimeUnit <= Last[2] * next_free_us
    BY <1>3 DEF DiskBehindClock
  <2>10. /\ total_miss_bytes * TimeUnit \in Nat /\ Last[2] * next_free_us \in Nat
         /\ Last[2] * latest \in Nat
    BY <2>3, <2>5, <2>7
  <2> QED
    BY <2>6, <2>8, <2>9, <2>10
<1> QED
  BY <1>1, <1>2, <1>3, DesTypeCorrect, PTL DEF Spec
=============================================================================
