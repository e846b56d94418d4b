----------------------------- MODULE Evaluator ------------------------------
(***************************************************************************)
(* evaluator.py: the score of an evolved policy, and the three programs    *)
(* that ask for it: scripts/evolve_recorded.sh through OpenEvolve,         *)
(* manual_smoke.py and evaluator.py run by itself.                         *)
(*                                                                         *)
(* They share files and nothing locks them: the policy source that the     *)
(* build reads (initial_program.cpp), the binary, the baseline cache and   *)
(* the log of the last build error.  One session runs at a time and can be *)
(* killed at any step, in the middle of a write too; the next session      *)
(* starts from the files it left, perhaps with the evaluator's settings    *)
(* edited.  A measurement is represented by the program whose binary was   *)
(* measured.  A compiler is taken to stop with the cmake that started it,  *)
(* also when that is stopped for its time or is killed.                    *)
(***************************************************************************)
EXTENDS Integers, Sequences

CONSTANTS Programs,     \* policy sources
          Compiles,     \* those the compiler accepts
          Baseline,     \* BASELINE_POLICY_SRC
          Torn,         \* what a write that was cut short leaves
          None,
          Settings,     \* what _baseline_key hashes
          NumScenarios, \* Len(SCENARIOS)
          MaxCalls,     \* evaluations in one session
          MaxSessions

Kinds == {"recorded", "smoke", "direct"}
Session == [kind : Kinds, orig : Programs \cup {Torn}, calls : 0..MaxCalls]

ASSUME EvaluatorAssumption ==
  /\ Compiles \subseteq Programs
  /\ Baseline \in Compiles
  /\ Torn \notin Programs /\ Torn # None
  /\ None \notin Programs \cup Session
  /\ NumScenarios \in Nat \ {0}
  /\ MaxCalls \in Nat /\ MaxSessions \in Nat

VARIABLES init_prog,      \* contents of initial_program.cpp
          sim_bin,        \* the program build/sim_main was built from
          baseline_cache, \* baseline_cache.json
          err_log,        \* the program last_build_error.log is about
          configured,     \* build/CMakeCache.txt exists
          setting,        \* the key of this session's settings
          session,        \* the running session, or None
          sessions,       \* sessions so far
          pc,             \* where evaluate() is
          call,           \* its program_path, and whether it is INIT_PROG
          saved,          \* _ensure_baseline's copy of initial_program.cpp
          base,           \* the baseline in hand: one program per scenario
          runs,           \* the scenario runs so far
          result          \* what evaluate() returned

disk == <<init_prog, sim_bin, baseline_cache, err_log, configured>>
caller == <<setting, session, sessions>>
locals == <<pc, call, saved, base, runs, result>>
vars == <<disk, caller, locals>>

Init ==
  /\ init_prog \in Programs
  /\ sim_bin = None
  /\ baseline_cache = None
  /\ err_log = None
  /\ configured \in BOOLEAN
  /\ setting \in Settings
  /\ session = None
  /\ sessions = 0
  /\ pc = "idle"
  /\ call = None
  /\ saved = None
  /\ base = <<>>
  /\ runs = <<>>
  /\ result = None

-----------------------------------------------------------------------------
(* The sessions.  evolve_recorded.sh and manual_smoke.py save the policy
   source and put it back at the end. *)
StartSession(kind, key) ==
  /\ session = None
  /\ sessions < MaxSessions
  /\ session' = [kind |-> kind, orig |-> init_prog, calls |-> 0]
  /\ sessions' = sessions + 1
  /\ setting' = key
  /\ UNCHANGED <<disk, locals>>

Enter(program, in_place) ==
  /\ session # None
  /\ pc = "idle"
  /\ session.calls < MaxCalls
  /\ session' = [session EXCEPT !.calls = @ + 1]
  /\ call' = [program |-> program, in_place |-> in_place]
  /\ result' = None
  /\ runs' = <<>>
  /\ pc' = "baseline"
  /\ UNCHANGED <<sim_bin, baseline_cache, err_log, configured, setting, sessions,
                 saved, base>>

(* OpenEvolve evaluates a candidate that it has written to a file of its own. *)
EvaluateCandidate(p) ==
  session # None /\ session.kind = "recorded" /\ Enter(p, FALSE)
    /\ UNCHANGED init_prog

(* manual_smoke.py writes a policy over initial_program.cpp ... *)
EvaluateSmoke(p) ==
  session # None /\ session.kind = "smoke" /\ Enter(p, TRUE) /\ init_prog' = p

(* ... and evaluator.py by itself takes what is there. *)
EvaluateDirect ==
  session # None /\ session.kind = "direct" /\ session.calls = 0
    /\ Enter(init_prog, TRUE) /\ UNCHANGED init_prog

Close ==
  /\ session' = None
  /\ pc' = "idle"
  /\ UNCHANGED <<sim_bin, baseline_cache, err_log, configured, setting, sessions,
                 call, saved, base, runs, result>>

(* evolve_recorded.sh copies the source back whatever openevolve-run did,
   and manual_smoke.py once all its policies are scored. *)
EndSession ==
  /\ session # None
  /\ pc = "idle"
  /\ init_prog' = IF session.kind = "direct" THEN init_prog ELSE session.orig
  /\ Close

(* An exception out of evaluate() ends a session, but for OpenEvolve's,
   which goes on to its next candidate. *)
Propagate ==
  /\ pc = "raised"
  /\ IF session.kind = "recorded"
     THEN pc' = "idle" /\ UNCHANGED <<disk, caller, call, saved, base, runs, result>>
     ELSE Close /\ UNCHANGED init_prog

-----------------------------------------------------------------------------
(* evaluate() *)
CacheIsValid == baseline_cache \notin {None, Torn} /\ baseline_cache.key = setting

\* Fault: the baseline is computed anew by every call.
TakeNever == FALSE

TakeCached == CacheIsValid

ReadBaselineCache ==
  /\ pc = "baseline"
  /\ IF TakeCached
     THEN base' = baseline_cache.by /\ pc' = "copy" /\ UNCHANGED saved
     ELSE saved' = init_prog /\ pc' = "write_baseline" /\ UNCHANGED base
  /\ UNCHANGED <<disk, caller, call, runs, result>>

WriteBaseline ==
  /\ pc = "write_baseline"
  /\ init_prog' = Baseline
  /\ base' = <<>>
  /\ pc' = "configure_baseline"
  /\ UNCHANGED <<sim_bin, baseline_cache, err_log, configured, caller, call, saved, runs,
                 result>>

(* _ensure_build_configured: one run of cmake, which may fail, having written
   its cache or not, and whose time nothing bounds. *)
Configured == configured' = TRUE
ConfigureFails == ~configured /\ configured' \in BOOLEAN

ConfigureBaseline ==
  /\ pc = "configure_baseline"
  /\ \/ Configured /\ pc' = "build_baseline"
     \/ ConfigureFails /\ pc' = "restore_and_raise"
  /\ UNCHANGED <<init_prog, sim_bin, baseline_cache, err_log, caller, call, saved,
                 base, runs, result>>

ConfigureCandidate ==
  /\ pc = "configure"
  /\ \/ Configured /\ pc' = "build"
     \/ ConfigureFails /\ pc' = "raised"
  /\ UNCHANGED <<init_prog, sim_bin, baseline_cache, err_log, caller, call, saved,
                 base, runs, result>>

(* _rebuild: a build that fails leaves a log, one that times out does not; the
   compiler may have got as far as the binary when it is stopped. *)
Rebuilt == init_prog \in Compiles /\ sim_bin' = init_prog /\ UNCHANGED err_log
RebuildFailed == err_log' = init_prog /\ UNCHANGED sim_bin
RebuildStopped == sim_bin' = sim_bin \/ (init_prog \in Compiles /\ sim_bin' = init_prog)
RebuildTimedOut == RebuildStopped /\ UNCHANGED err_log

BuildBaseline ==
  /\ pc = "build_baseline"
  /\ \/ Rebuilt /\ pc' = "run_baseline"
     \/ (RebuildFailed \/ RebuildTimedOut) /\ pc' = "restore_and_raise"
  /\ UNCHANGED <<init_prog, baseline_cache, configured, caller, call, saved, base, runs,
                 result>>

\* Fault: a scenario that fails is skipped.
SkipScenario == "restore"

ScenarioFails == "restore_and_raise"

RunBaseline ==
  /\ pc = "run_baseline"
  /\ \/ /\ base' = Append(base, sim_bin)
        /\ pc' = IF Len(base') = NumScenarios THEN "restore" ELSE pc
     \/ pc' = ScenarioFails /\ UNCHANGED base
  /\ UNCHANGED <<disk, caller, call, saved, runs, result>>

\* Fault: the source is put back only if nothing failed.
RestoredOnSuccess == IF pc = "restore" THEN saved ELSE init_prog

Restored == saved

(* The finally clause. *)
Restore ==
  /\ pc \in {"restore", "restore_and_raise"}
  /\ init_prog' = Restored
  /\ pc' = IF pc = "restore" THEN "write_cache" ELSE "raised"
  /\ UNCHANGED <<sim_bin, baseline_cache, err_log, configured, caller, call, saved, base,
                 runs, result>>

WriteBaselineCache ==
  /\ pc = "write_cache"
  /\ baseline_cache' = [key |-> setting, by |-> base]
  /\ pc' = "copy"
  /\ UNCHANGED <<init_prog, sim_bin, err_log, configured, caller, call, saved, base,
                 runs, result>>

CopyCandidate ==
  /\ pc = "copy"
  /\ init_prog' = IF call.in_place THEN init_prog ELSE call.program
  /\ pc' = "configure"
  /\ UNCHANGED <<sim_bin, baseline_cache, err_log, configured, caller, call, saved, base,
                 runs, result>>

Score(fitness, build_error) ==
  [fitness |-> fitness, build_error |-> build_error]

\* Fault: the binary that is there runs although the build timed out.
RebuildUnchecked == Rebuilt \/ UNCHANGED <<sim_bin, err_log>>

CandidateBuilt == Rebuilt

BuildCandidate ==
  /\ pc = "build"
  /\ \/ CandidateBuilt /\ pc' = "run" /\ UNCHANGED result
     \/ /\ RebuildFailed \/ RebuildTimedOut
        /\ result' = Score("zero", err_log')
        /\ pc' = "idle"
  /\ UNCHANGED <<init_prog, baseline_cache, configured, caller, call, saved, base, runs>>

GiveUp == result' = Score("zero", None) /\ pc' = "idle" /\ UNCHANGED runs

(* A scenario runs, or fails, times out or reports no positive time. *)
RunScenario ==
  /\ pc = "run"
  /\ \/ /\ runs' = Append(runs, sim_bin)
        /\ IF Len(runs') = NumScenarios
           THEN result' = Score("speedup", None) /\ pc' = "idle"
           ELSE UNCHANGED <<result, pc>>
     \/ GiveUp
  /\ UNCHANGED <<disk, caller, call, saved, base>>

Evaluate ==
  \/ ReadBaselineCache \/ WriteBaseline \/ ConfigureBaseline \/ BuildBaseline
  \/ RunBaseline \/ Restore \/ WriteBaselineCache
  \/ CopyCandidate \/ ConfigureCandidate \/ BuildCandidate \/ RunScenario
  \/ Propagate

\* Fault: the builds and the runs of scenarios have no timeout either.
UntimedAll ==
  pc \in {"configure_baseline", "configure", "build_baseline", "build",
         "run_baseline", "run"}

(* evaluate() waits for a program and has set it no timeout. *)
Untimed == pc \in {"configure_baseline", "configure"} /\ ~configured

(* What the session is writing when it is killed may be cut short. *)
WritingProgram ==
  \/ pc \in {"write_baseline", "restore", "restore_and_raise"}
  \/ pc = "copy" /\ ~call.in_place
  \/ pc = "baseline" /\ session.kind = "smoke"
  \/ pc = "idle" /\ session.kind # "direct"

Kill ==
  /\ session # None
  /\ init_prog' = init_prog \/ (WritingProgram /\ init_prog' = Torn)
  /\ baseline_cache' = baseline_cache
       \/ (pc = "write_cache" /\ baseline_cache' = Torn)
  /\ err_log' = err_log
       \/ (pc \in {"build_baseline", "build"} /\ err_log' = Torn)
  /\ configured' = configured
       \/ (pc \in {"configure_baseline", "configure"} /\ configured' = TRUE)
  /\ UNCHANGED sim_bin \/ (pc \in {"build_baseline", "build"} /\ RebuildStopped)
  /\ session' = None
  /\ pc' = "idle"
  /\ result' = None
  /\ UNCHANGED <<setting, sessions, call, saved, base, runs>>

Stopped == session = None /\ sessions = MaxSessions /\ UNCHANGED vars

Next ==
  \/ \E kind \in Kinds, key \in Settings : StartSession(kind, key)
  \/ \E p \in Programs : EvaluateCandidate(p) \/ EvaluateSmoke(p)
  \/ EvaluateDirect
  \/ Evaluate
  \/ EndSession
  \/ Kill
  \/ Stopped

(* Every build and every run has a timeout, so evaluate() goes on, but for
   the first configuration of the build directory. *)
Spec == Init /\ [][Next]_vars /\ WF_vars(Evaluate /\ ~Untimed)

-----------------------------------------------------------------------------
Measurements == [1..NumScenarios -> Programs]
Call == [program : Programs \cup {Torn}, in_place : BOOLEAN]

TypeOK ==
  /\ init_prog \in Programs \cup {Torn}
  /\ sim_bin \in Programs \cup {None}
  /\ baseline_cache \in {None, Torn} \/
       baseline_cache \in [key : Settings, by : Measurements]
  /\ err_log \in Programs \cup {None, Torn}
  /\ configured \in BOOLEAN
  /\ setting \in Settings
  /\ session \in Session \cup {None}
  /\ sessions \in 0..MaxSessions
  /\ pc \in {"idle", "baseline", "write_baseline", "configure_baseline",
             "build_baseline", "run_baseline", "restore", "restore_and_raise",
             "write_cache", "copy", "configure", "build", "run", "raised"}
  /\ pc # "idle" => session # None
  /\ call \in Call \cup {None}
  /\ saved \in Programs \cup {Torn, None}
  /\ base \in Seq(Programs) /\ Len(base) <= NumScenarios
  /\ runs \in Seq(Programs) /\ Len(runs) <= NumScenarios

All(p) == [i \in 1..NumScenarios |-> p]

(* A positive fitness compares the program that was asked for with the
   baseline: every scenario ran its binary and nobody else's, and every
   baseline scenario ran the baseline's, whatever earlier sessions left
   behind and wherever they were killed ("Rebuild sim_main (incremental).
   Run sim_main across SCENARIOS", evaluator.py:21). *)
ScoreIsOfProgram ==
  result # None /\ result.fitness = "speedup" =>
    runs = All(call.program) /\ base = All(Baseline)

(* The cached baseline is complete and was measured on the baseline: no
   failed or killed computation leaves a partial one that a later session
   would take for it. *)
BaselineIsBaseline ==
  baseline_cache \notin {None, Torn} => baseline_cache.by = All(Baseline)

(* "computed once on first call and cached" (evaluator.py:14): while the
   settings stay, a valid baseline is never lost, nor put at risk by a
   computation that a kill may cut short. *)
ValidBaselineKept ==
  [][CacheIsValid /\ setting' = setting => CacheIsValid']_vars

(* A program that is evaluated in place exists only in initial_program.cpp,
   which _ensure_baseline overwrites: when evaluate() returns or raises, the
   program is there again, whichever builds and scenarios have failed
   ("Restore caller's initial_program.cpp", evaluator.py:203). *)
InPlaceSourceKept ==
  session # None /\ session.calls > 0 /\ call.in_place /\ pc \in {"idle", "raised"} =>
    init_prog = call.program

(* Once the build directory is configured, evaluate() returns, however long
   the compiler or the simulator runs (timeout_s, evaluator.py:118 and 137). *)
EvaluateReturns == pc # "idle" /\ configured ~> pc = "idle"

(* evaluator.py:232: the build_error artifact is "the compiler error", by
   which later candidates "can self-correct": that of this candidate. *)
BuildErrorIsOfProgram ==
  result # None /\ result.build_error # None =>
    result.build_error = call.program
=============================================================================
