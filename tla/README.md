# Formal models of hymeta_evolve

hymeta_evolve searches for a policy that chooses, for each SST file of an LSM
tree, how its filter and index are laid out: in full blocks, in partitions, or
in partitions that hold both (FULL, PARTITIONED, UNIFY).  A C++ simulator runs a
workload of point lookups through a model of RocksDB's clock cache and disk; a
Python evaluator compiles a candidate policy into the simulator, runs fifteen
scenarios and returns its speedup over a baseline; OpenEvolve, started by shell
scripts, proposes the candidates.

The score is only as good as the simulator's bookkeeping and the evaluator's
handling of files that outlive it.  Neither has unit tests.  These modules say
what both must keep to, check it with TLC on small instances, and prove with TLAPS
what of it is safety, for every instance.

## Inventory

| part | code | state | operations | what makes it correct |
|---|---|---|---|---|
| cache shard | `harness/sim_engine.cpp` 9-90 | hash map of entries with a countdown each, clock queue, byte count, counters | `lookup`, `insert`, `evict_one` | map, queue and byte count agree; capacity; second chance; `insert` returns |
| sharded cache, keys | `sim_engine.cpp` 92-142, `sim_engine.hpp` 352-358 | the shards | shard choice, sums | keys name one block; one shard per file; total capacity |
| LSM tree | `sim_engine.cpp` 492-561 | files, level lists | constructor, `compute_metadata_sizes`, `get_ssts_for_key` | the search misses no file |
| I/O model | `sim_engine.cpp` 144-190, 324-490 | per-file counters, phase statistics, I/O totals | `access_block`, `point_lookup`, `effective_us_per_op` | counters kept in three places describe the same accesses; a miss never lowers the cost |
| discrete-event mode | `sim_engine.cpp` 192-322, `sim_main.cpp` 182-185, 219-233 | thread clocks, disk's next free time | `point_lookup_des`, `submit` | one request at a time; threads wait; no throughput the disk cannot deliver |
| main loop | `sim_main.cpp` 134-333 | loop counters, schemes | operations, `apply_policy` every N operations, report | one re-application per epoch; the loop over the files reaches the owner of a present key, and reads it |
| policy | `initial_program*.cpp` | none | `select_scheme` | evolved: may return anything |
| workload | `harness/workload.cpp` | three generators, key ranges | `next_key`, `next_op_type` | keys in range; ranges partition the random numbers, none with a probability is lost; the mix of operations is the one asked for |
| layout loader | `harness/layout_loader.cpp` | parser position, record being filled | `load_sst_layout_json` | the tree loaded is the one written, or the file is refused |
| evaluator | `evaluator.py` | files: policy source, binary, baseline cache, error log | `evaluate`, `_ensure_baseline`, `_rebuild`, `_run_one` | the score is the candidate's; the baseline is the baseline's; a source that exists nowhere else survives |
| callers | `scripts/evolve_recorded.sh`, `manual_smoke.py`, `evaluator.py` itself | a saved copy of the source | sessions of evaluations | they save and restore the source; what a failure leaves is known |
| batches | `scripts/run_diverse_glm_repeats.sh`, `evolve_recorded.sh` | status files, exit codes, the list of runs, saved copies of the source | wait for a run, run seeds in turn | completed means that all ran; the seeds start from the same source; the batch ends |
| validation, summaries, plots, RocksDB benchmarks | `sim_validate_28configs.py`, other `scripts/*` | files | reporting | not protocols; not modelled |

How they interact: `main` calls `get_ssts_for_key`, then `point_lookup` (or
`point_lookup_des`) on each candidate file, which calls `access_block`, which
calls the cache; every N operations `main` calls `select_scheme` for each file
with the counters the lookups kept.  The simulator is one thread.  What is hard
in it are long sequences of calls, loops whose end depends on two structures
agreeing, and early returns between updates of counters that must agree; the
discrete-event mode has virtual threads with clocks of their own.  The evaluator
is a sequence of file writes and subprocesses that can fail, time out or be
killed anywhere, and what it leaves is what the next session starts from.  The
batch scripts are processes that run side by side and know of each other only by
a status file, the process list and exit codes.
`PROJECT.json` lists these hazards line by line.

## Modules

| module | models | extends / instantiates |
|---|---|---|
| `CacheBlocks`, `BlockSums` | blocks, their types and sizes; the sum of sizes | |
| `BoundedCache` | abstract: what a shard promises to its users | `BlockSums` |
| `ClockShard` | `HyperClockShard`, one iteration of the eviction loop a step | `BlockSums`; implements `BoundedCache` |
| `ClockHistory` | `ClockShard` with history variables about the last touch of each block | `ClockShard` |
| `ShardedCache` | `HyperClockCache`: the shards and their shares of the capacity | `BlockSums` |
| `LsmTree` | pure: level lists, metadata sizes, partition of a key | |
| `LevelSearch` | `get_ssts_for_key`, one iteration a step | |
| `IOModel` | `point_lookup`, one block access a step | `ShardedCache` |
| `CostModel` | pure: `bandwidth_for_size`, `effective_us_per_op` | |
| `SimMain` | the loop of `main`, epochs, `apply_policy` | `IOModel`, `CostModel` |
| `DesLoop` | discrete-event branch: clocks and disk | `CostModel` |
| `LayoutLoader` | `load_sst_layout_json`, one token a step | `LsmTree` |
| `CacheKeys` | cache keys, partitions and shards of the files that were loaded | `LayoutLoader` |
| `Workload` | mixgraph: ranges, shuffle, search of the drawn range, operation mix | |
| `Evaluator` | `evaluate` and its three callers over the files they share | |
| `Batch` | a batch of runs and the run it waits for, as processes | |
| `ClockShardProofs` | theorems about one shard | `ClockHistory` |
| `SimMainProofs` | theorems about the cache, the lookups, the loop and the costs | `SimMain` |
| `BatchProofs`, `CacheKeysProofs`, `DesLoopProofs`, `EvaluatorProofs`, `LevelSearchProofs`, `WorkloadProofs` | theorems | the module each is named after |
| `MC*` | instances for TLC | |

The cache comes in three layers.  `ClockShard` is one shard in full detail, and
implements `BoundedCache` (`ImplementsBoundedCache`).  `ShardedCache` has all the
shards over one set of resident blocks, with the text of `BoundedCache` for each
of them: which resident of the shard goes is left open.  `IOModel` uses
`ShardedCache`: a lookup depends only on what is resident, so what is shown of the
walk holds for every replacement policy.  `SimMain` takes the candidates of each
key as a parameter: that the search computes the right ones, in the right order,
is what `LevelSearch` shows.  `CacheKeys` runs on what `LayoutLoader` has loaded.

### Correspondence with the code

* **ClockShard.** `entries`, `clock_queue`, `current_size` and `stats` are the
  members of the class; `pending` is the argument of a running `insert`.  A hit
  is `LookupHit`; a miss is `LookupMiss`, which starts the insert because
  `access_block` always inserts what it misses.  `InsertReturnsEarly` is the two
  early returns, `EvictHead` and `AgeHead` one iteration of `evict_one` each
  (evict or pass), `InsertEntry` what follows the loop.
* **LevelSearch.** `levels` is `levels_`; positions count from 1.  `ScanFile` is
  the loop over level 0, `GoLeft`, `GoRight`, `Found` the branches of the
  bisection, `NotFound` its end.  The trees TLC tries come out of
  `BuildLevels`, which is the constructor, from unsorted layouts.  Files of one
  level below level 0 do not overlap: RocksDB's layouts have that shape and the
  bisection is only correct for it (`SearchAssumption`).
* **IOModel.** `walk` is the local state of a `point_lookup`: the file, the key,
  the phase, the blocks still to read and `miss0`.  The code has the walk three
  times, once per scheme; here the schemes differ in `FilterTags` and
  `IndexTags`, the tags the code passes to `make_cache_key`.  The Bloom filter
  is a choice that a present key does not have.  Costs are left out.
* **ShardedCache.** `cached` is the union of the shards' `entries`; `incoming` is
  the argument of a running `insert`.  `per_shard` is the division rounded up of
  `HyperClockCache`'s constructor.  The sums over shards that the report asks for
  change nothing and are left out.
* **CostModel.** Sizes, bandwidths and times are ratios, pairs of integers, so that
  the interpolation and the saturation are exact.  `BandwidthShape` is what the
  measured table respects: larger requests at higher rates but not in less time
  each; TLC evaluates it for the measurements of `sim_engine.hpp:76` too.
* **SimMain.** `NextOp` is the head of the loop with its `continue`;
  `LookupCandidate`, `InLookup`, `AfterLookup` one candidate; `Deepest` is
  `cand.back()`, the owner of a present key, and `FilesLeft` the `break` after it;
  `EndOp` and `Reapply` the test at the end of the iteration.  `select_scheme` is evolved
  code, so `Reapply` takes any element of `Policies`.
* **DesLoop.** An operation makes any run of accesses, each a hit or a miss of some
  size, which includes the runs that `point_lookup_des` makes: the walk itself,
  with its schemes and filters, is that of `IOModel` and not repeated.  `served` keeps every request with its arrival, start and
  end.  The operations run one after the other, as in the code: it is the clocks
  that are concurrent.
* **LayoutLoader.** `pc` is the place in the loops; the tokens are those `next`,
  `expect`, `read_string` and `read_int` consume, and what they throw is the state
  "refused".  The text is the bracket and then one line of tokens for each object,
  and `pos_` is a line and a column.  `CutShort` ends the file at any token
  (`cut`): the writer may have been stopped.  Numbers are `int64_t` in the code and
  unbounded here; `AsInt` is the cast of a level to `int`.  `NewFile` is the record declared inside the loop.
* **CacheKeys.** The fields of a key do not overlap, so their bitwise or is a
  sum; the widths are parameters.  `KeyNamesOneBlock` has `FieldsFit` for a premise:
  there are no more files and partitions than their fields can number, which every
  layout of the run satisfies.  The ratio that the code computes in floating
  point is exact here: a key next to a partition's border may fall on the other
  side of it in the code.
* **Workload.** `weights[pfx] / Denominator` is the probability that the two-term
  exponential gives the range; `Shuffle` is a swap of the Fisher-Yates loop, with
  any random position; `Bisect` is an iteration of the search in
  `mixgraph_next_key`; `Return` the offset and the clamp.  A sum of accesses is
  the number of random numbers that go to its ranges.  The thresholds of the
  operation mix are ceilings of products of doubles: where the exact product is
  whole the double may be above it and its ceiling one more, which `rounding`
  chooses for each type; no rounding crosses a whole number otherwise, as the
  ratios are of small integers.
* **Evaluator.** The four files are the disk state; a measurement is the program
  whose binary was measured.  One step is one write or one subprocess; `ConfigureBaseline` and
  `ConfigureCandidate` are `_ensure_build_configured`, which runs cmake, without a
  timeout, until there is a CMakeCache.txt.  `Kill`
  ends the session at any step and may cut the write in progress short.  A build
  compiles what is in `initial_program.cpp` at the time; it may fail or time out
  for any program.  A build that times out or is killed may have got as far as the
  binary; the compiler is taken to have stopped by then, though the code stops
  only cmake and what cmake's children do is up to the build tool.
* **Batch.** `stage[r]` is the line `evolve_recorded.sh` has reached for run r;
  `batch` that of `run_diverse_glm_repeats.sh`.  `wait_for_run` is two steps,
  the test of the status file and `pgrep`: things happen between them.
  `ScriptFails` is `set -e` when a command fails before openevolve-run, while
  status.json is written or at the copy back, and `ExitsWith` a failing summary,
  whose code takes the place of the run's.  Its
  `return 1` is ignored, because the caller has `|| true`.  `SeedReturns` is
  `set -e` with `pipefail`: a failed seed ends the batch.  `Candidate` is the
  evaluator, run by openevolve, that writes `initial_program.cpp`.

## Runs

| run | question | instance | distinct states |
|---|---|---|---|
| `clock_shard` | does the shard keep itself consistent, follow its policy, and implement the bounded cache? | 5 blocks of 3 sizes, one oversize; capacity 4; 8 lookups | 107k |
| `level_search` | does every call return what it should? | all families of disjoint files over 4 keys on level 1, with 2 x 2 other levels | 6k |
| `sim_main` | do the counters agree, is a present key read and does no miss pay, whatever is evicted and whatever the policy chooses? | 2 files in 2 shards, 3 keys, 3 operations, epochs of 2, a filter that never fits | 541k (1.5 min) |
| `des_loop` | do clocks and disk agree? | 2 threads, 4 operations, up to 2 accesses each, 2 sizes | 54k |
| `cache_keys` | is the layout loaded as written, and do keys, partitions and shards fit? | every layout of two objects with three fields in all, three larger ones, each cut short anywhere | 51k |
| `workload` | are keys and operations drawn as often as asked? | 50 choices of weights, 3 key spaces, 6 mixes with every rounding of their thresholds, every shuffle and every random number | 260k |
| `evaluator` | is the score right whatever fails or is killed? | 3 programs, 2 settings, 2 scenarios, 3 sessions of up to 2 calls | 188k |
| `batch` | what do a batch's exit codes, its list of runs and the source it leaves mean? | a run that is waited for, or none, and 2 seeds, each killed or failing anywhere | 10k |
| `sim_main_epoch`, `clock_sweeps`, `stale_build_log`, `batch_wait` | does the code do what its comments say? | small | violated |

The bounds.  Five blocks fill a shard of four bytes several times over; eight
lookups are enough for a block to be inserted, hit beyond the cap, aged to zero
and evicted while an elder waits.  The search is checked on every arrangement of
up to four files on a level, which includes all positions of a key relative to
a midpoint.  In `sim_main` a shard of five bytes cannot hold the eight blocks of
the upper file; three operations make an epoch and the operation after it, so a
file is read, moved to another scheme and read again, and an operation may look
in both files.  Four operations give each of two threads two, so that one
overtakes the other at the disk; one size is between two of the table and one
beyond it, and both give whole service times, which `DesLoop` assumes.  Two
objects are enough for one to leave a field out that the one before had, and a
cache key of 6, 4 and 3 bits has the fields next to each other as in 64.  The
weights fall, rise, are equal and vanish, and the trees have fewer keys than
ranges, as many and some left over.  Three sessions let one be killed, one run
over what it left and one profit from what that one wrote, and two settings let
the cache be another's.  Two seeds make a batch with one behind the other.
`MaxLookups`, `num_operations`, `MaxAccesses`, `MaxCalls` and `MaxSessions` are the
only bounds on behaviours; all are constants of the modules.

Fairness.  The simulator is one thread: once an insert, a search or a lookup has
begun, nothing else runs until it returns, hence weak fairness of its steps and
of nothing else.  In `Evaluator`, `evaluate()` goes on because every build and
every run has a timeout (`evaluator.py` 118 and 137).  The configuration of the
build directory has none (line 110), so no fairness is assumed of that step while
there is no CMakeCache.txt (`Untimed`), and `EvaluateReturns` speaks of the time
when there is one.  Nothing is assumed of the callers, and a kill may come at any
time.  In `Batch` the scripts go on by
themselves, the loop in `wait_for_run` because it sleeps and looks again, and
openevolve-run stops after its iterations; that a run is killed is possible at
any step and never assumed.

Every property has a fault in `PROJECT.json` ("mutants"), a definition with a
bug somebody could make (the operators marked `Fault` in the modules), which the
run must find.

### What the runs found

* `ReappliesEveryEpoch` fails: `continue` at `sim_main.cpp:203` leaves the
  iteration before the re-application, so an epoch whose last operation no file
  can answer has none, while `sim_main.cpp:187` says every N operations.
* `SweepsAsDeclared` fails: `sim_engine.hpp:186-189` and 213 give a data block a
  countdown of 1 and one sweep, the code 2 and two, and a hit adds one to the
  countdown where the header saturates it at 3.  The repository has more
  versions: `sim_engine.cpp:51` says two sweeps, which is what `SurvivalIsExact`
  shows; `docs/IMPLEMENTATION.md:97` says a cold entry survives three, and so does
  `docs/PRESENTATION_SUMMARY.md:366` of RocksDB; `sim_engine.cpp:49-50` says that all
  inserts are LOW, but line 184 inserts metadata HIGH, which survive three.
* `BuildErrorIsOfProgram` fails: a build that times out reports the log of an
  earlier one (`evaluator.py:132`).
* `WaitsForTheRun` fails: `wait_for_run` ("waiting for ${run_dir}",
  `run_diverse_glm_repeats.sh:70`) returns when it sees no openevolve-run process
  and when there is a status file.  The first is also so before that process has
  been started, while the preflight runs, and the second before
  `evolve_recorded.sh` has put `initial_program.cpp` back: the seed then saves a
  candidate of the other run as the program to restore.  Hence the condition in
  `SeedsRestoreTheProgram` that no other run was under way.

Met while reading, and not properties of a run: the "FIFO" disk of
`sim_engine.hpp:259` serves in program order, not in order of arrival;
`OneRequestAtATime` and `ThreadsAreSequential` are what does hold.  "Amplify by
1/min_p" (`workload.cpp:92`) takes the last prefix's probability for the least: it
is when the probabilities fall from prefix to prefix, a premise of `NoRangeIsLost`.
Mixgraph takes the range and the offset from the same random number, and keys
beyond the ranges' sizes times their number are never drawn.  `workload.hpp` has
thresholds over [0, 1000); as both are rounded up they may end at 1001, with the
range adjusted to it.  `read_int` reads "1e5" as 1; an empty object in a layout is
refused, and what follows the closing bracket is not read.  `manual_smoke.py`
prints `avg_us_per_op`, which `evaluate()` does not return.  The branch on
`scan_count > point_lookup_count * 2` that evolved policies have can never be taken
(`FileStatsAreRatios`).  The discrete-event mode records no phase statistics.  A
build that times out kills cmake and not the compiler it started.  The restore at
`manual_smoke.py:72` is not in a finally: when the baseline fails and `evaluate()`
raises, the smoke test's policy stays in `initial_program.cpp` (`Propagate`).
A block too large for its shard
is a miss of no type, so it lowers `cache_hit_rate` and not `metadata_hit_rate`
(SIMULATOR.md section 4.7 calls it "same but excluding data blocks");
SIMULATOR.md 4.3 shows
an insert before the evictions, the code evicts first; SIMULATOR.md 4.8 and
section 7 call re-application not implemented; the comment at
`sim_engine.cpp:426` has the UNIFY index phase all-hit when the filter phase
was, the code always.

## Proofs

Every safety property that a passing run checks is a theorem, for every set of
blocks, sizes and capacity, every tree and key, layout, number of threads,
operations, scenarios, sessions and seeds, from the named assumptions of the
modules.  The eight `*Proofs` modules hold them; the order below is theirs.

* **ClockShard.** `TypeCorrect` first.  `RingCorrect` needs no strengthening
  beyond the type: each step moves, removes or appends one element of a queue
  without repetitions.  `SizeCorrect` and `CapacityCorrect` share an invariant
  of both, because an eviction may subtract the victim's size only if the victim
  is counted, and an insert stays within capacity only if the byte count is
  exact when the loop ends; that the loop does not end with an empty map and no
  room is the refused size.  `CountersCorrect` rests on the cardinality of the
  map.  `ClockShardImplementsBoundedCache` maps each step to one of
  `BoundedCache` or to a stutter, using the invariants above.
  The sum of sizes is a parameter with its two defining equations
  (`TotalSizeAssumption`), because a proof cannot use a recursive sum; TLC
  evaluates the equations for the sum it is given.
* **ClockHistory** (in `ClockShardProofs`). `SurvivalCorrect`: the inductive
  invariant relates a block's countdown to its last touch and the passes since,
  distinguishing the first pass, which caps, from the later ones, which
  decrement.  `WeakerElderCorrect` adds `EldersInv`: since the touch of a block
  the hand has passed it and each elder in turn, so that it has passed the elder
  as often or, if the elder is next, once less.  That takes the order of two
  blocks in the queue through every step (`TurnsStep`).
* **LevelSearch.** `BoundsCorrect` and `SearchCorrect`: the invariant says that
  every file of the level that holds the key is between the bounds, and that
  the files found are the holders on the levels before; disjointness and order
  of the files give the step of the bisection.  `OrderCorrect`: the files found
  are of levels already left, or of level 0 while that is scanned.
* **ShardedCache** (in `SimMainProofs`, as the next three). `TotalCorrect`: no
  shard exceeds its share, and the sizes of the shards add up to that of the
  whole.  A sum over any number of shards would be an induction; it is done as
  the least number of shards for which it fails, which the well-foundedness of
  the naturals provides.
* **SimMain.** The invariant `Inv` ties the running lookup to the loop: it is a
  lookup of the operation's key in the next of its files, it has still to read
  only blocks of the scheme that file has, and it knows the key to be there if
  and only if the file is the operation's owner.  From it follow that every block
  asked for is one there is, and so that each step of the loop is a step of the
  cache or none (`SimTotalCorrect`).  `PresentKeysCorrect` needs that the owner is
  the last of the candidates and that the files still to look in end with it, so
  that the loop gets to it; a lookup that knows the key to be there cannot be
  rejected and so reaches its data block.  And, with the invariant `Ratios` of each
  file's counters, `RatiosCorrect`.  `Ratios` needs to count what the running
  lookup has read and is still sure to read (`Pending`), because a rejection
  ends a lookup after its filter's blocks and no other does.
* **Phase statistics.** `PhaseInv` says how many misses the running phase can
  have had, given the blocks it has still to read.  `SumsInv` has the three sums
  at every step of a lookup, with what the running lookup has added to one and
  not yet to another.  The sums are numbers of marks, one for each count, so that
  a step adds a mark to a finite set and the finite-set theorems apply: no
  induction over files.  They give `PhasesCorrect`, `TrafficCorrect` and
  `MissPhasesCorrect`.  `ColdInv`, that whatever is resident was missed in a phase
  of a scheme that reads its tag, gives `ColdCorrect`; no two schemes read the
  same metadata tags.
* **Costs.** `MissesCorrect` holds for any table of `BandwidthShape`: a larger
  average request has no lower rate and takes no less time.  Within one interval
  of the table both are inequalities between polynomials; across several they
  chain through the entries between, by the least entry for which they fail.
* **DesLoop.** `DesTypeCorrect` needs that the clock of the running operation is
  never behind its thread's (`GoesForward`), and that every size has a positive
  bandwidth, which is proved of the interpolation.  `DiskCorrect` is inductive
  with the type: a request starts when the last one has ended.  `ThreadsCorrect`
  rests on `ClocksCoverRequests`: no thread's clock is behind the end of a request
  it has made.  `DiskBoundsThroughput`: every request occupies the disk for what
  its size takes at the highest rate, and some clock is not before the disk is
  free (`DiskBehindClock`).  Times are whole numbers in the model, which
  `ServiceTimesAreWhole` says of the service times.
* **CacheKeys, LayoutLoader.** `LoaderInv` relates the place in the loops to the
  place in the text, and the record being filled to the fields read: each of its
  numbers is the last one given under its name, or the default.  So a file
  left over from an earlier object has no place in it, and the end of the array
  is reached only in a text that has it (`LoaderCorrect`).  `NamesCorrect`: keys
  are numbers of three digits, which are equal if the digits are; no partition is
  too large for its digit, by `PartitionsCorrect`.  `FilesCorrect`: the shards are a
  power of two that divides the unit of the next field.
* **Workload.** The shuffle is a bijection of the ranges at every step, and once
  it is done each range starts where those before it end (`WorkloadInv`), so the
  bisection keeps the number drawn between its bounds and the range found is as
  wide as its access says (`DrawsCorrect`, `KeyCorrect`).  `NoRangeCorrect`: if the
  probabilities fall, amplifying by the last one leaves each range that has a
  probability at least one number.  `OpMixCorrect` counts the numbers below each
  threshold; `RoundingsStay` and `CeilingOf` bound what a rounded ceiling can be.
* **Evaluator.** `BaselineHeld`, `CandidateHeld` and `SourceHeld` say at each step
  of `evaluate()` whose program is in the source, in the binary and in the saved
  copy, and what has been measured.  They are one invariant: a kill leaves only
  the files, of which it promises nothing but that a baseline cache is complete.
  `BaselineIsKept` is an action property: the cache is only written by a call
  that found none.  `InPlaceCorrect`: from `write_baseline` to the finally clause a
  program that is evaluated in place is in the saved copy, before and after it in
  the source (`CandidateHeld`).
* **Batch.** The seeds that have run are the first ones, each with exit code 0, and
  none after the next has started (`SeedsInOrder`); a status says what the exit
  code says (`StatusIsExitCode`); the list of runs is the seeds that ran
  (`DirsInOrder`); and, as long as no other run was under way and none was killed or ended by
  `set -e`, every run saved the original source and it is back whenever no run has
  it displaced (`SourceIsOriginal`).

Liveness is only model-checked: `InsertReturns`, `SearchReturns`, `LookupReturns`,
`EvaluateReturns`, `BatchEnds` and the liveness part of `ImplementsBoundedCache`
need fairness and ENABLED, which are beyond the prover.  What the first four rest
on is proved as safety:

* `SweepCanProceed` and `SweepGetsShorter`: the eviction loop always has a step to
  take (the queue is not empty while the map is not), and each takes away some of
  the finitely many passes that the residents have left;
* `SearchGetsShorter`: each step of a search finishes a level, passes a file of level
  0 or at least halves what is left of a level;
* `LookupGetsShorter`: an insert has a block to evict, or it fits, or it is refused;
  and each step of a lookup ends it or a phase, asks for one of the blocks left,
  ends an insert or leaves fewer bytes in the cache;
* `EvaluateGetsShorter`: `evaluate()` takes at most two steps for each scenario
  and nine others, whatever fails, once each step has come back.

A batch waits for another process, so no step of its own brings its end nearer.

## Not modelled

* Microseconds of the phases and lookups, which no control depends on; the
  per-file counters of the discrete-event branch, which repeat those of
  `point_lookup`.
* The formulas of the zipfian and power-law distributions and of the two-term
  exponential: floating point.  The models take any result they may have.
* Characters of a layout within a token; flags; the text of reports.
* `run_diverse_experiment.sh` and `evolve_diverse.sh`, which call openevolve-run once.
* Validation, summaries and plots: statistics and formatting over logs.  The
  RocksDB benchmark scripts drive programs that are not in the repository.
* Two evaluations at once, which share `initial_program.cpp` and the build directory
  without a lock: `Evaluator` has one session at a time, as the batch arranges it;
  `WaitsForTheRun` shows when it does not.
* Compilers that outlive their cmake, after a timeout or a kill, and write while the
  next program is built.
* A baseline cache of an older simulator: its key is the settings alone
  (`evaluator.py:162`), and sources of the simulator do not change in the model.

## Plan

1. `DesLoop` on top of `IOModel`'s walk, with hits and misses from the cache.
2. The refinement of `ShardedCache` by one `ClockShard` for each shard, so that what
   is shown of the policy and of the loop meet in one module.
