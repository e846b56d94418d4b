------------------------------ MODULE IOModel -------------------------------
(***************************************************************************)
(* IOModel of harness/sim_engine: a point lookup in one SST file walks the *)
(* blocks its active metadata scheme needs, each through the block cache,  *)
(* and keeps the counters that the report and the policies read.           *)
(*                                                                         *)
(* A lookup is filter phase, bloom test, index phase, data block.  One     *)
(* access_block is one step, followed by the steps of the insert of a      *)
(* missed block; nothing else runs until the lookup returns.  SimMain      *)
(* drives the lookups.                                                     *)
(***************************************************************************)
EXTENDS ShardedCache, Sequences, FiniteSetsExt

CONSTANTS SSTs,    \* the files of the tree
          Keys,    \* the keys looked up
          PartOf,  \* PartOf[k][tag]: the partition of that tag k falls in
          Policies \* the assignments of schemes a policy may make

Schemes == {"FULL", "PARTITIONED", "UNIFY"}
Phases == {"filter", "index"}
Outcomes == {"all_hit", "had_miss"}
DataTag == 9

(* make_cache_key: file, tag and partition (0 for a block that has none). *)
CacheKey(s, tag, part) == [sst |-> s, tag |-> tag, part |-> part]
Partitioned == {4, 6, 8, 9}
BlockFor(s, k, tag) ==
  CacheKey(s, tag, IF tag \in Partitioned THEN PartOf[k][tag] ELSE 0)

\* Faults: the top of the PARTITIONED index goes by the tag of the full
\* index; UNIFY reads its blocks again.
IndexTagsShared(scheme) ==
  CASE scheme = "FULL" -> <<2>>
    [] scheme = "PARTITIONED" -> <<2, 6>>
    [] scheme = "UNIFY" -> <<>>

IndexTagsReadAgain(scheme) ==
  CASE scheme = "FULL" -> <<2>>
    [] scheme = "PARTITIONED" -> <<5, 6>>
    [] scheme = "UNIFY" -> <<7, 8>>

(* The blocks of each phase, in the order they are read.  Under UNIFY the
   blocks of the filter phase hold the index as well. *)
FilterTags(scheme) ==
  CASE scheme = "FULL" -> <<1>>
    [] scheme = "PARTITIONED" -> <<3, 4>>
    [] scheme = "UNIFY" -> <<7, 8>>

IndexTags(scheme) ==
  CASE scheme = "FULL" -> <<2>>
    [] scheme = "PARTITIONED" -> <<5, 6>>
    [] scheme = "UNIFY" -> <<>>

TagsRead(scheme) ==
  LET read == FilterTags(scheme) \o IndexTags(scheme) \o <<DataTag>>
  IN  {read[n] : n \in DOMAIN read}

(* The local state of a point_lookup: its arguments, the phase it is in, the
   blocks that phase has still to read, and the I/O count when it began. *)
Walk == [sst : SSTs, key : Keys, key_exists : BOOLEAN,
         phase : Phases \cup {"data"}, todo : Seq(1..DataTag), miss0 : Nat]

ASSUME IOAssumption ==
  /\ Policies \subseteq [SSTs -> Schemes]
  /\ None \notin Walk

VARIABLES active_scheme,    \* of each file
          sst_stats,        \* counters of each file
          phase_stats,      \* phase_stats_: phases without and with a miss
          total_io_count,
          total_miss_bytes,
          walk              \* the running lookup, a Walk, or None

stats == <<sst_stats, phase_stats, total_io_count, total_miss_bytes>>
vars == <<cacheVars, active_scheme, stats, walk>>

SstCounters == {"access_count", "point_lookup_count", "scan_count",
                "filter_checked", "filter_rejected",
                "cache_hits", "cache_misses"}

Init ==
  /\ CacheInit
  /\ active_scheme \in Policies
  /\ sst_stats = [s \in SSTs |-> [c \in SstCounters |-> 0]]
  /\ phase_stats = [sc \in Schemes |-> [ph \in Phases |-> [o \in Outcomes |-> 0]]]
  /\ total_io_count = 0
  /\ total_miss_bytes = 0
  /\ walk = None

-----------------------------------------------------------------------------
(* Counts one for file s in each of the counters. *)
Count(s, counters) ==
  sst_stats' = [sst_stats EXCEPT ![s] =
                  [c \in SstCounters |-> @[c] + IF c \in counters THEN 1 ELSE 0]]

(* The call: key_exists says whether this file holds the key. *)
BeginLookup(s, k, exists) ==
  /\ walk = None
  /\ Count(s, {"access_count", "point_lookup_count"})
  /\ walk' = [sst |-> s, key |-> k, key_exists |-> exists,
              phase |-> "filter", todo |-> FilterTags(active_scheme[s]),
              miss0 |-> total_io_count]
  /\ UNCHANGED <<cacheVars, active_scheme, phase_stats, total_io_count,
                 total_miss_bytes>>

(* A block is to be accessed: the insert of the last one has returned. *)
AtBlock == walk # None /\ incoming = None /\ walk.todo # <<>>
NextBlock == BlockFor(walk.sst, walk.key, Head(walk.todo))

AccessHit ==
  /\ AtBlock
  /\ NextBlock \in cached
  /\ Count(walk.sst, {"cache_hits"})
  /\ walk' = [walk EXCEPT !.todo = Tail(@)]
  /\ UNCHANGED <<cacheVars, active_scheme, phase_stats, total_io_count,
                 total_miss_bytes>>

AccessMiss ==
  /\ AtBlock
  /\ Miss(NextBlock)
  /\ Count(walk.sst, {"cache_misses"})
  /\ total_io_count' = total_io_count + 1
  /\ total_miss_bytes' = total_miss_bytes + Size[NextBlock]
  /\ walk' = [walk EXCEPT !.todo = Tail(@)]
  /\ UNCHANGED <<active_scheme, phase_stats>>

(* The rest of the insert, in the cache. *)
CacheInsert == InsertStep /\ UNCHANGED <<active_scheme, stats, walk>>

-----------------------------------------------------------------------------
PhaseDone(phase) ==
  walk # None /\ incoming = None /\ walk.todo = <<>> /\ walk.phase = phase

Outcome(had_miss) == IF had_miss THEN "had_miss" ELSE "all_hit"

\* Fault: every phase is recorded as a filter phase.
RecordPhaseAsFilter(phase, had_miss) ==
  phase_stats' =
    [phase_stats EXCEPT ![active_scheme[walk.sst]]["filter"][Outcome(had_miss)] = @ + 1]

RecordPhase(phase, had_miss) ==
  phase_stats' =
    [phase_stats EXCEPT ![active_scheme[walk.sst]][phase][Outcome(had_miss)] = @ + 1]

HadMiss == total_io_count > walk.miss0

\* Faults: a rejection is not counted as a check; the I/O mark is not renewed
\* for the index phase.
RejectionUnchecked == {"filter_rejected"}
MarkKept == walk.miss0

(* The bloom filter says no, which it never does for a key that is there. *)
MayReject == ~walk.key_exists
Rejection == {"filter_checked", "filter_rejected"}
Mark == total_io_count

FilterRejects ==
  /\ PhaseDone("filter")
  /\ MayReject
  /\ RecordPhase("filter", HadMiss)
  /\ Count(walk.sst, Rejection)
  /\ walk' = None
  /\ UNCHANGED <<cacheVars, active_scheme, total_io_count, total_miss_bytes>>

FilterPasses ==
  /\ PhaseDone("filter")
  /\ RecordPhase("filter", HadMiss)
  /\ Count(walk.sst, {"filter_checked"})
  /\ walk' = [walk EXCEPT !.phase = "index", !.miss0 = Mark,
                          !.todo = IndexTags(active_scheme[walk.sst])]
  /\ UNCHANGED <<cacheVars, active_scheme, total_io_count, total_miss_bytes>>

(* Under UNIFY the index phase is compute only and never counts a miss. *)
EndIndex ==
  /\ PhaseDone("index")
  /\ RecordPhase("index", active_scheme[walk.sst] # "UNIFY" /\ HadMiss)
  /\ walk' = [walk EXCEPT !.phase = "data", !.todo = <<DataTag>>]
  /\ UNCHANGED <<cacheVars, active_scheme, sst_stats, total_io_count,
                 total_miss_bytes>>

EndLookup ==
  /\ PhaseDone("data")
  /\ walk' = None
  /\ UNCHANGED <<cacheVars, active_scheme, stats>>

LookupStep ==
  \/ AccessHit \/ AccessMiss \/ CacheInsert
  \/ FilterRejects \/ FilterPasses \/ EndIndex \/ EndLookup

(* apply_policy between two operations: each file gets the scheme that the
   evolved select_scheme chooses, whatever it is. *)
ApplyPolicy(chosen) ==
  /\ walk = None
  /\ active_scheme' = chosen
  /\ UNCHANGED <<cacheVars, stats, walk>>

-----------------------------------------------------------------------------
(* The sum of f, a function to the naturals, as the number of marks when
   each x has f[x] of them. *)
Marks(f) == UNION {{x} \X (1..f[x]) : x \in DOMAIN f}
SumOfStat(c) == Cardinality(Marks([s \in SSTs |-> sst_stats[s][c]]))

OverSchemes(f(_)) == f("FULL") + f("PARTITIONED") + f("UNIFY")
OverPhases(f(_, _)) == OverSchemes(LAMBDA sc : f(sc, "filter") + f(sc, "index"))

PhaseCount(sc, ph) == phase_stats[sc][ph]["all_hit"] + phase_stats[sc][ph]["had_miss"]
PhaseTotal(ph) == OverSchemes(LAMBDA sc : PhaseCount(sc, ph))

(* Between lookups the phase statistics, which are kept per scheme, and the
   filter counters, which are kept per file, describe the same lookups,
   whatever scheme each file had at the time: each lookup checks the filter
   once, and each one that is not rejected goes through the index. *)
PhasesMatchFilterCounters ==
  walk = None =>
    /\ PhaseTotal("filter") = SumOfStat("filter_checked")
    /\ PhaseTotal("index") =
         SumOfStat("filter_checked") - SumOfStat("filter_rejected")
    /\ SumOfStat("filter_checked") = SumOfStat("point_lookup_count")

(* Blocks read in each phase under each scheme, in docs/SIMULATOR.md 4.2 *)
BlocksRead(sc, ph) ==
  CASE sc = "FULL" -> 1
    [] sc = "PARTITIONED" -> 2
    [] sc = "UNIFY" /\ ph = "filter" -> 2
    [] sc = "UNIFY" /\ ph = "index" -> 0

(* Every cache access belongs to a phase or is the data block of a lookup
   that passed its filter: the per-file hit and miss counters that policies
   are given add up to what the phases read. *)
TrafficMatchesPhases ==
  walk = None =>
    SumOfStat("cache_hits") + SumOfStat("cache_misses") =
      PhaseTotal("index") +
      OverPhases(LAMBDA sc, ph : PhaseCount(sc, ph) * BlocksRead(sc, ph))

(* The phases that count as HAD_MISS are no more than the I/Os, and the I/Os
   no more than such phases and the data blocks account for: bounds on the
   totals, which a mark that is left over from another phase would break. *)
MissPhasesMatchIO ==
  LET missed(sc, ph) == phase_stats[sc][ph]["had_miss"]
  IN  walk = None =>
        /\ OverPhases(missed) <= total_io_count
        /\ total_io_count <=
             PhaseTotal("index") +
             OverPhases(LAMBDA sc, ph : missed(sc, ph) * BlocksRead(sc, ph))
        /\ total_io_count = SumOfStat("cache_misses")

(* The schemes share no metadata block: a file that is moved to another
   scheme starts cold, so that a phase without a miss comes only after one
   with a miss under the same scheme. *)
SchemesStartCold ==
  \A sc \in Schemes, ph \in Phases :
    BlocksRead(sc, ph) > 0 /\ phase_stats[sc][ph]["all_hit"] > 0 =>
      phase_stats[sc][ph]["had_miss"] > 0
=============================================================================
