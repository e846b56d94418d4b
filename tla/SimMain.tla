------------------------------ MODULE SimMain -------------------------------
(***************************************************************************)
(* The workload loop of harness/sim_main (single-timeline branch) on top   *)
(* of IOModel: each operation looks a key up in every file that may hold   *)
(* it, from the shallowest level to the deepest, and every reapply_every   *)
(* operations the policy chooses the schemes anew.                         *)
(*                                                                         *)
(* Which files may hold a key is what LevelSearch finds.  The policy is    *)
(* evolved code, so it may choose any schemes.                             *)
(***************************************************************************)
EXTENDS IOModel, CostModel

CONSTANTS Candidates,    \* Candidates[k]: the files that may hold k, in order
          num_operations,
          num_threads,
          BaseCosts,     \* costs per operation before saturation
          reapply_every  \* 0 for a static policy

ASSUME SimAssumption ==
  /\ Candidates \in [Keys -> Seq(SSTs)]
  /\ num_operations \in Nat
  /\ num_threads \in Nat
  /\ BaseCosts \subseteq Nat \ {0}
  /\ reapply_every \in Nat
  /\ \A k \in Keys : \A n \in DOMAIN Candidates[k] : \A p \in Policies :
       LET s == Candidates[k][n]
       IN  \A tag \in TagsRead(p[s]) :
             /\ BlockFor(s, k, tag) \in Blocks
             /\ BlockFor(s, k, tag) \in DataBlocks <=> tag = DataTag

VARIABLES i,    \* the loop index
          pc,   \* "next", "candidate", "lookup", "epoch" or "done"
          op,   \* the operation: its key, its files still to look in, ...
          tally \* the loop's counters

simVars == <<i, pc, op, tally>>
allVars == <<vars, simVars>>

NoOp == [key |-> None, cand |-> <<>>, owner |-> None, seek |-> FALSE]

SimInit ==
  /\ Init
  /\ i = 0
  /\ pc = "next"
  /\ op = NoOp
  /\ tally = [op_count |-> 0, reapply_count |-> 0, scheme_transitions |-> 0]

-----------------------------------------------------------------------------
(* The owner of a key that is present: the last file that may hold it. *)
Deepest(k) == Candidates[k][Len(Candidates[k])]

(* Draw the operation.  A key no file may hold ends the iteration at once. *)
NextOp(k, present, seek) ==
  /\ pc = "next"
  /\ i < num_operations
  /\ tally' = [tally EXCEPT !.op_count = @ + 1]
  /\ IF Candidates[k] = <<>>
     THEN i' = i + 1 /\ UNCHANGED <<pc, op>>
     ELSE /\ pc' = "candidate"
          /\ op' = [key |-> k, cand |-> Candidates[k], seek |-> seek,
                    owner |-> IF present THEN Deepest(k) ELSE None]
          /\ UNCHANGED i
  /\ UNCHANGED vars

LookupCandidate ==
  /\ pc = "candidate"
  /\ op.cand # <<>>
  /\ BeginLookup(Head(op.cand), op.key, Head(op.cand) = op.owner)
  /\ pc' = "lookup"
  /\ UNCHANGED <<i, op, tally>>

InLookup ==
  /\ pc = "lookup"
  /\ LookupStep
  /\ UNCHANGED simVars

\* Fault: any present key ends the loop over the files.
FilesLeftAbsent(cand, owner) == IF owner # None THEN <<>> ELSE Tail(cand)

FilesLeft(cand, owner) == IF Head(cand) = owner THEN <<>> ELSE Tail(cand)

(* The lookup has returned: a seek is counted, and finding the key in its
   owner ends the loop over the files. *)
AfterLookup ==
  /\ pc = "lookup"
  /\ walk = None
  /\ Count(Head(op.cand), IF op.seek THEN {"scan_count"} ELSE {})
  /\ op' = [op EXCEPT !.cand = FilesLeft(@, op.owner)]
  /\ pc' = "candidate"
  /\ UNCHANGED <<cacheVars, active_scheme, phase_stats, total_io_count,
                 total_miss_bytes, walk, i, tally>>

EpochEnds == reapply_every > 0 /\ (i + 1) % reapply_every = 0

EndOp ==
  /\ pc = "candidate"
  /\ op.cand = <<>>
  /\ IF EpochEnds THEN pc' = "epoch" /\ UNCHANGED i
                  ELSE pc' = "next" /\ i' = i + 1
  /\ op' = NoOp
  /\ UNCHANGED <<vars, tally>>

Reapply(chosen) ==
  /\ pc = "epoch"
  /\ ApplyPolicy(chosen)
  /\ LET changed == {s \in SSTs : chosen[s] # active_scheme[s]}
     IN  tally' = [tally EXCEPT !.reapply_count = @ + 1,
                                !.scheme_transitions = @ + Cardinality(changed)]
  /\ pc' = "next"
  /\ i' = i + 1
  /\ UNCHANGED op

Report ==
  /\ pc = "next"
  /\ i = num_operations
  /\ pc' = "done"
  /\ UNCHANGED <<vars, i, op, tally>>

SimStep ==
  \/ \E k \in Keys, present, seek \in BOOLEAN : NextOp(k, present, seek)
  \/ LookupCandidate \/ InLookup \/ AfterLookup \/ EndOp
  \/ \E chosen \in Policies : Reapply(chosen)
  \/ Report

Stopped == pc = "done" /\ UNCHANGED allVars

SimNext == SimStep \/ Stopped

(* The process runs until it has printed its report. *)
SimSpec == SimInit /\ [][SimNext]_allVars /\ WF_allVars(SimStep)

-----------------------------------------------------------------------------
(* What the policy and the report divide by each other are ratios: nothing
   is rejected that was not checked, and no seek is counted for a lookup
   that was not one.  Between operations the two lookup counters and the
   filter counter agree, for each file. *)
FileStatsAreRatios ==
  \A s \in SSTs :
    LET st == sst_stats[s]
    IN  /\ st["filter_rejected"] <= st["filter_checked"]
        /\ st["filter_checked"] <= st["access_count"]
        /\ st["scan_count"] <= st["point_lookup_count"]
        /\ pc \in {"next", "epoch", "done"} =>
             /\ st["filter_checked"] = st["access_count"]
             /\ st["filter_checked"] + st["filter_checked"]
                  - st["filter_rejected"] <= st["cache_hits"] + st["cache_misses"]

(* A present key is read from its owner (sim_main.cpp:204-218), the deepest
   of its files: the loop over the files does not end before the lookup in
   the owner, whatever the filters of the files above it have said, and that
   lookup does not end before it has read the data block. *)
PresentKeyIsRead ==
  [][op.owner # None =>
       /\ op.cand # <<>> /\ op'.cand = <<>> => Head(op.cand) = Deepest(op.key)
       /\ walk # None /\ walk' = None /\ walk.sst = Deepest(op.key) =>
            walk.phase = "data"]_allVars

(* The score never rewards a miss: whatever an operation costs by itself,
   one more read of any block, small or large, does not lower the cost that
   effective_us_per_op makes of it, although it moves the average size to
   another place in the table and the bandwidth with it. *)
MissesNeverPay ==
  [][total_io_count' # total_io_count =>
       \A base \in BaseCosts :
         AtMost(effective_us_per_op(base, tally.op_count, num_threads,
                                    total_miss_bytes, total_io_count),
                effective_us_per_op(base, tally.op_count, num_threads,
                                    total_miss_bytes', total_io_count'))]_allVars

(* A lookup, once begun, returns, however many evictions its inserts take. *)
LookupReturns == walk # None ~> walk = None

(* What sim_main.cpp:187 and evaluator.py:58 say: the policy is consulted
   after every reapply_every operations. *)
ReappliesEveryEpoch ==
  pc = "next" /\ reapply_every > 0 =>
    tally.reapply_count = i \div reapply_every
=============================================================================
