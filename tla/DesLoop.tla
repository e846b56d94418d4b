------------------------------- MODULE DesLoop ------------------------------
(***************************************************************************)
(* The discrete-event branch of the simulator: the workload loop of        *)
(* sim_main with des-mode on, IOModel::point_lookup_des and                *)
(* DiskQueue::submit.                                                      *)
(*                                                                         *)
(* Operation i belongs to virtual thread i % num_threads, which has a      *)
(* clock of its own; all threads share one disk.  The program runs the     *)
(* operations one after the other, each to its end, so an operation's      *)
(* requests reach the disk together, whatever the clocks of the other      *)
(* threads say.  Only what moves a clock is kept: an operation is any run  *)
(* of block accesses, each a hit or a miss of some size, and computing on  *)
(* blocks takes a while.  The schemes' order of accesses, the filter and   *)
(* its counters are IOModel's: here any order will do.  Times are whole    *)
(* numbers of 1 / TimeUnit microseconds, a unit in which every size takes  *)
(* a whole time to serve: the code's times are not rounded.                *)
(***************************************************************************)
EXTENDS CostModel, FiniteSetsExt

CONSTANTS num_threads,
          num_operations,
          MaxAccesses,  \* block accesses of one operation
          Sizes,        \* sizes of the blocks that are read
          TimeUnit,
          HitCost,      \* time to look a block up in the cache
          InsertCost,   \* time to insert one that was read
          ComputeCosts  \* times an operation may compute after an access

(* service_us, in DiskQueue::submit *)
Service(size) ==
  LET bw == bandwidth_for_size(size, 1)
  IN  (size * bw[2] * TimeUnit) \div bw[1]

ASSUME DesAssumption ==
  /\ num_threads \in Nat \ {0, 1}
  /\ num_operations \in Nat
  /\ MaxAccesses \in Nat
  /\ TimeUnit \in Nat \ {0}
  /\ Sizes \subseteq Nat \ {0}
  /\ HitCost \in Nat
  /\ InsertCost \in Nat
  /\ ComputeCosts \subseteq Nat

ASSUME ServiceTimesAreWhole ==
  \A size \in Sizes :
    LET bw == bandwidth_for_size(size, 1)
    IN  Service(size) * bw[1] = size * bw[2] * TimeUnit

VARIABLES i,            \* the loop index
          running,      \* whether operation i has begun
          t,            \* the clock of the thread that runs it
          accesses,     \* block accesses it has made
          thread_now,   \* the clocks of all threads
          total_cost,   \* sum of the operations' latencies
          next_free_us, \* when the disk is free again
          served,       \* the requests so far, in the order of submission
          total_miss_bytes

disk == <<next_free_us, served, total_miss_bytes>>
vars == <<i, running, t, accesses, thread_now, total_cost, disk>>

Threads == 0..num_threads - 1
tid == i % num_threads

Init ==
  /\ i = 0
  /\ running = FALSE
  /\ t = 0
  /\ accesses = 0
  /\ thread_now = [th \in Threads |-> 0]
  /\ total_cost = 0
  /\ next_free_us = 0
  /\ served = <<>>
  /\ total_miss_bytes = 0

(* An operation on a key that no file may hold: the loop goes on. *)
SkipOp ==
  /\ ~running
  /\ i < num_operations
  /\ i' = i + 1
  /\ UNCHANGED <<running, t, accesses, thread_now, total_cost, disk>>

BeginOp ==
  /\ ~running
  /\ i < num_operations
  /\ running' = TRUE
  /\ t' = thread_now[tid]
  /\ accesses' = 0
  /\ UNCHANGED <<i, thread_now, total_cost, disk>>

AccessHit(compute) ==
  /\ running
  /\ accesses < MaxAccesses
  /\ accesses' = accesses + 1
  /\ t' = t + HitCost + compute
  /\ UNCHANGED <<i, running, thread_now, total_cost, disk>>

\* Faults: a request does not wait for the disk; the thread does not wait for
\* its request; the clock that the thread goes on from is not kept.
StartAtOnce(arrival) == arrival
CompletesUnqueued(arrival, size) == arrival + Service(size)
KeptClockOld == thread_now[tid]

Start(arrival) == IF arrival > next_free_us THEN arrival ELSE next_free_us
Completes(arrival, size) == Start(arrival) + Service(size)
KeptClock == t

(* access_block_des: the request reaches the disk once the lookup has
   missed, and is served when the disk is free. *)
AccessMiss(size, compute) ==
  LET arrival == t + HitCost
  IN  /\ running
      /\ accesses < MaxAccesses
      /\ accesses' = accesses + 1
      /\ next_free_us' = Start(arrival) + Service(size)
      /\ t' = Completes(arrival, size) + InsertCost + compute
      /\ served' = Append(served, [thread |-> tid, arrival |-> arrival,
                                   start |-> Start(arrival), end |-> next_free_us'])
      /\ total_miss_bytes' = total_miss_bytes + size
      /\ UNCHANGED <<i, running, thread_now, total_cost>>

EndOp ==
  /\ running
  /\ accesses > 0
  /\ running' = FALSE
  /\ thread_now' = [thread_now EXCEPT ![tid] = KeptClock]
  /\ total_cost' = total_cost + (t - thread_now[tid])
  /\ i' = i + 1
  /\ UNCHANGED <<t, accesses, disk>>

Step ==
  \/ SkipOp \/ BeginOp \/ EndOp
  \/ \E compute \in ComputeCosts :
       AccessHit(compute) \/ \E size \in Sizes : AccessMiss(size, compute)

Stopped == ~running /\ i = num_operations /\ UNCHANGED vars

Next == Step \/ Stopped

Spec == Init /\ [][Next]_vars /\ WF_vars(Step)

(* The report's throughput comes from the slowest clock. *)
Makespan == Max({thread_now[th] : th \in Threads})

-----------------------------------------------------------------------------
Request == [thread : Threads, arrival : Nat, start : Nat, end : Nat]

TypeOK ==
  /\ i \in Nat
  /\ running \in BOOLEAN
  /\ t \in Nat
  /\ accesses \in 0..MaxAccesses
  /\ thread_now \in [Threads -> Nat]
  /\ total_cost \in Nat
  /\ next_free_us \in Nat
  /\ served \in Seq(Request)
  /\ total_miss_bytes \in Nat

(* The disk is a single server: no two requests are served at once, none
   before it arrives, and it is free when the last one ends. *)
OneRequestAtATime ==
  /\ \A m \in DOMAIN served :
        /\ served[m].start >= served[m].arrival
        /\ served[m].end <= next_free_us
  /\ \A m, n \in DOMAIN served : m < n => served[m].end <= served[n].start

(* A thread is a closed loop: it issues a request only after its last one
   has been served, within an operation and from one operation to its next,
   however the operations of other threads come in between. *)
ThreadsAreSequential ==
  \A m, n \in DOMAIN served :
    m < n /\ served[m].thread = served[n].thread =>
      served[m].end <= served[n].arrival

(* The throughput that the report takes from the slowest clock is one the
   disk can deliver: however many threads there are and whatever the sizes,
   the bytes read by now would have taken no less time at the highest
   bandwidth of the table. *)
NeverFasterThanDisk ==
  total_miss_bytes * TimeUnit <=
    Last[2] * (IF running THEN Max({t, Makespan}) ELSE Makespan)
=============================================================================
