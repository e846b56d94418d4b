--------------------------- MODULE EvaluatorProofs --------------------------
(***************************************************************************)
(* The score of a policy and the files that the sessions share, for any    *)
(* set of policies, any number of scenarios and any sequence of sessions,  *)
(* killed wherever they may be; and how long an evaluation can take.       *)
(***************************************************************************)
EXTENDS Evaluator, TLAPS

(* While the baseline is computed, from the copy of the caller's source to
   the write of the cache. *)
Computing == {"write_baseline", "configure_baseline", "build_baseline",
              "run_baseline", "restore", "restore_and_raise", "write_cache"}

(* While initial_program.cpp holds something else than the caller left. *)
Displaced == {"write_baseline", "configure_baseline", "build_baseline",
              "run_baseline", "restore", "restore_and_raise"}

(* The baseline in hand is the baseline's, and a complete one outlives its
   computation. *)
BaselineHeld ==
  /\ pc \in {"configure_baseline", "build_baseline"} =>
       init_prog = Baseline /\ base = <<>>
  /\ pc = "run_baseline" => /\ sim_bin = Baseline
                            /\ base \in Seq({Baseline})
                            /\ Len(base) < NumScenarios
  /\ pc \in {"restore", "write_cache", "copy", "configure", "build", "run"} =>
       base = All(Baseline)
  /\ pc \in Computing => ~CacheIsValid

(* The candidate is the one that was asked for.  Between the copy of the
   caller's source and its return, a candidate evaluated in place exists
   only in that copy. *)
CandidateHeld ==
  /\ pc # "idle" => call \in Call /\ result = None
  /\ pc \in {"baseline", "write_cache", "copy", "raised"} /\ call.in_place =>
       init_prog = call.program
  /\ pc \in Displaced /\ call.in_place => saved = call.program
  /\ pc \in {"configure", "build", "run"} => init_prog = call.program
  /\ pc \notin {"idle", "run"} => runs = <<>>
  /\ pc = "run" => /\ sim_bin = call.program
                   /\ runs \in Seq({call.program})
                   /\ Len(runs) < NumScenarios

(* There is a copy while the file holds something else. *)
SourceHeld == pc \in Displaced => saved # None

Inv ==
  /\ TypeOK
  /\ BaselineHeld /\ CandidateHeld /\ SourceHeld
  /\ ScoreIsOfProgram /\ BaselineIsBaseline /\ InPlaceSourceKept

-----------------------------------------------------------------------------
(* What the assumptions say of the constants. *)
LEMMA Constants ==
  /\ Baseline \in Programs /\ Baseline \in Compiles
  /\ Compiles \subseteq Programs
  /\ Torn \notin Programs /\ None \notin Programs /\ Torn # None
  /\ None \notin Session
  /\ NumScenarios \in Nat /\ NumScenarios > 0
  /\ MaxCalls \in Nat /\ MaxSessions \in Nat
BY EvaluatorAssumption

(* As many measurements of one program as there are scenarios are its
   measurement. *)
LEMMA FullRun ==
  ASSUME NEW p, NEW s \in Seq({p}), Len(s) = NumScenarios
  PROVE  s = All(p)
BY Constants DEF All

LEMMA FullRunIsMeasurement ==
  ASSUME NEW p \in Programs
  PROVE  /\ All(p) \in Measurements
         /\ All(p) \in Seq(Programs)
         /\ Len(All(p)) = NumScenarios
BY Constants DEF All, Measurements

(* Nothing is cached and no session runs. *)
LEMMA InitInv == Init => Inv
<1> SUFFICES ASSUME Init PROVE Inv
  OBVIOUS
<1> USE Constants DEF Init
<1>1. TypeOK
  BY DEF TypeOK
<1>2. BaselineHeld
  BY DEF BaselineHeld, Computing
<1>3. CandidateHeld
  BY DEF CandidateHeld, Displaced
<1>4. SourceHeld
  BY DEF SourceHeld, Displaced
<1>5. ScoreIsOfProgram /\ BaselineIsBaseline /\ InPlaceSourceKept
  BY DEF ScoreIsOfProgram, BaselineIsBaseline, InPlaceSourceKept
<1> QED
  BY <1>1, <1>2, <1>3, <1>4, <1>5 DEF Inv

(* What begins and ends a session, killed or not. *)
LEMMA SessionsKeepInv ==
  ASSUME Inv,
         \/ \E kind \in Kinds, key \in Settings : StartSession(kind, key)
         \/ EndSession
         \/ Propagate
         \/ Kill
  PROVE  Inv'
<1> USE Constants DEF Inv
<1>1. ASSUME NEW kind \in Kinds, NEW key \in Settings,
             StartSession(kind, key)
      PROVE  Inv'
  <2> USE <1>1 DEF StartSession, Session, disk, locals
  <2>1. TypeOK'
    BY DEF TypeOK, Call, Measurements
  <2>2. BaselineHeld'
    BY DEF TypeOK, BaselineHeld, BaselineIsBaseline, CacheIsValid, Computing
  <2>3. CandidateHeld'
    BY DEF TypeOK, CandidateHeld, Displaced
  <2>4. SourceHeld'
    BY DEF TypeOK, SourceHeld, CandidateHeld, Displaced
  <2>5. ScoreIsOfProgram' /\ BaselineIsBaseline' /\ InPlaceSourceKept'
    BY DEF ScoreIsOfProgram, BaselineIsBaseline, BaselineHeld, CandidateHeld,
           InPlaceSourceKept, SourceHeld
  <2> QED
    BY <2>1, <2>2, <2>3, <2>4, <2>5
<1>2. ASSUME EndSession
      PROVE  Inv'
  <2> USE <1>2 DEF EndSession, Close, Session
  <2>1. TypeOK'
    BY DEF TypeOK, Call, Measurements
  <2>2. BaselineHeld'
    BY DEF TypeOK, BaselineHeld, BaselineIsBaseline, CacheIsValid, Computing
  <2>3. CandidateHeld'
    BY DEF TypeOK, CandidateHeld, Displaced
  <2>4. SourceHeld'
    BY DEF TypeOK, SourceHeld, CandidateHeld, Displaced
  <2>5. ScoreIsOfProgram'
    BY DEF TypeOK, ScoreIsOfProgram, BaselineHeld, CandidateHeld
  <2>6. BaselineIsBaseline'
    BY DEF TypeOK, BaselineIsBaseline, BaselineHeld
  <2>7. InPlaceSourceKept'
    BY DEF TypeOK, InPlaceSourceKept, SourceHeld, Displaced, Kinds
  <2> QED
    BY <2>1, <2>2, <2>3, <2>4, <2>5, <2>6, <2>7
<1>3. ASSUME Propagate
      PROVE  Inv'
  <2> USE <1>3 DEF Propagate, Close, disk, caller, Session
  <2>1. TypeOK'
    BY DEF TypeOK, Call, Measurements
  <2>2. BaselineHeld'
    BY DEF TypeOK, BaselineHeld, BaselineIsBaseline, CacheIsValid, Computing
  <2>3. CandidateHeld'
    BY DEF TypeOK, CandidateHeld, Displaced
  <2>4. SourceHeld'
    BY DEF TypeOK, SourceHeld, CandidateHeld, Displaced
  <2>5. ScoreIsOfProgram'
    BY DEF TypeOK, ScoreIsOfProgram, BaselineHeld, CandidateHeld
  <2>6. BaselineIsBaseline'
    BY DEF TypeOK, BaselineIsBaseline, BaselineHeld
  <2>7. InPlaceSourceKept'
    BY DEF TypeOK, InPlaceSourceKept, SourceHeld, Displaced, Kinds
  <2> QED
    BY <2>1, <2>2, <2>3, <2>4, <2>5, <2>6, <2>7
<1>4. ASSUME Kill
      PROVE  Inv'
  <2> USE <1>4 DEF Kill, RebuildStopped
  <2>1. TypeOK'
    BY DEF TypeOK, Call, Measurements
  <2>2. BaselineHeld'
    BY DEF TypeOK, BaselineHeld, BaselineIsBaseline, CacheIsValid, Computing
  <2>3. CandidateHeld'
    BY DEF TypeOK, CandidateHeld, Displaced
  <2>4. SourceHeld'
    BY DEF TypeOK, SourceHeld, CandidateHeld, Displaced
  <2>5. ScoreIsOfProgram' /\ BaselineIsBaseline' /\ InPlaceSourceKept'
    BY DEF ScoreIsOfProgram, BaselineIsBaseline, BaselineHeld, CandidateHeld,
           InPlaceSourceKept, SourceHeld
  <2> QED
    BY <2>1, <2>2, <2>3, <2>4, <2>5
<1> QED
  BY <1>1, <1>2, <1>3, <1>4

(* The three ways into evaluate(). *)
LEMMA CallsKeepInv ==
  ASSUME Inv,
         \/ \E p \in Programs : EvaluateCandidate(p) \/ EvaluateSmoke(p)
         \/ EvaluateDirect
  PROVE  Inv'
<1> USE Constants DEF Inv, Enter, Session, Call
<1>1. ASSUME NEW p \in Programs, EvaluateCandidate(p)
      PROVE  Inv'
  <2> USE <1>1 DEF EvaluateCandidate
  <2>1. TypeOK'
    <3>1. session' \in Session /\ call' \in Call
      <4>1. session \in Session /\ session.calls < MaxCalls
        BY DEF TypeOK
      <4>2. session.calls + 1 \in 0..MaxCalls
        BY <4>1
      <4>3. session' \in Session
        BY <4>1, <4>2
      <4>4. call' \in Call
        BY DEF TypeOK
      <4> QED
        BY <4>3, <4>4
    <3>2. init_prog' \in Programs \cup {Torn}
      BY DEF TypeOK
    <3>3. runs' \in Seq(Programs) /\ Len(runs') <= NumScenarios
      OBVIOUS
    <3> QED
      BY <3>1, <3>2, <3>3 DEF TypeOK
  <2>2. BaselineHeld'
    BY DEF TypeOK, BaselineHeld, BaselineIsBaseline, CacheIsValid, Computing
  <2>3. CandidateHeld'
    BY DEF TypeOK, CandidateHeld, Displaced
  <2>4. SourceHeld'
    BY DEF TypeOK, SourceHeld, CandidateHeld, Displaced
  <2>5. ScoreIsOfProgram' /\ BaselineIsBaseline' /\ InPlaceSourceKept'
    BY DEF ScoreIsOfProgram, BaselineIsBaseline, BaselineHeld, CandidateHeld,
           InPlaceSourceKept, SourceHeld
  <2> QED
    BY <2>1, <2>2, <2>3, <2>4, <2>5
<1>2. ASSUME NEW p \in Programs, EvaluateSmoke(p)
      PROVE  Inv'
  <2> USE <1>2 DEF EvaluateSmoke
  <2>1. TypeOK'
    <3>1. session' \in Session /\ call' \in Call
      <4>1. session \in Session /\ session.calls < MaxCalls
        BY DEF TypeOK
      <4>2. session.calls + 1 \in 0..MaxCalls
        BY <4>1
      <4>3. session' \in Session
        BY <4>1, <4>2
      <4>4. call' \in Call
        BY DEF TypeOK
      <4> QED
        BY <4>3, <4>4
    <3>2. init_prog' \in Programs \cup {Torn}
      BY DEF TypeOK
    <3>3. runs' \in Seq(Programs) /\ Len(runs') <= NumScenarios
      OBVIOUS
    <3> QED
      BY <3>1, <3>2, <3>3 DEF TypeOK
  <2>2. BaselineHeld'
    BY DEF TypeOK, BaselineHeld, BaselineIsBaseline, CacheIsValid, Computing
  <2>3. CandidateHeld'
    BY DEF TypeOK, CandidateHeld, Displaced
  <2>4. SourceHeld'
    BY DEF TypeOK, SourceHeld, CandidateHeld, Displaced
  <2>5. ScoreIsOfProgram' /\ BaselineIsBaseline' /\ InPlaceSourceKept'
    BY DEF ScoreIsOfProgram, BaselineIsBaseline, BaselineHeld, CandidateHeld,
           InPlaceSourceKept, SourceHeld
  <2> QED
    BY <2>1, <2>2, <2>3, <2>4, <2>5
<1>3. ASSUME EvaluateDirect
      PROVE  Inv'
  <2> USE <1>3 DEF EvaluateDirect
  <2>1. TypeOK'
    <3>1. session' \in Session /\ call' \in Call
      <4>1. session \in Session /\ session.calls < MaxCalls
        BY DEF TypeOK
      <4>2. session.calls + 1 \in 0..MaxCalls
        BY <4>1
      <4>3. session' \in Session
        BY <4>1, <4>2
      <4>4. call' \in Call
        BY DEF TypeOK
      <4> QED
        BY <4>3, <4>4
    <3>2. init_prog' \in Programs \cup {Torn}
      BY DEF TypeOK
    <3>3. runs' \in Seq(Programs) /\ Len(runs') <= NumScenarios
      OBVIOUS
    <3> QED
      BY <3>1, <3>2, <3>3 DEF TypeOK
  <2>2. BaselineHeld'
    BY DEF TypeOK, BaselineHeld, BaselineIsBaseline, CacheIsValid, Computing
  <2>3. CandidateHeld'
    BY DEF TypeOK, CandidateHeld, Displaced
  <2>4. SourceHeld'
    BY DEF TypeOK, SourceHeld, CandidateHeld, Displaced
  <2>5. ScoreIsOfProgram' /\ BaselineIsBaseline' /\ InPlaceSourceKept'
    BY DEF ScoreIsOfProgram, BaselineIsBaseline, BaselineHeld, CandidateHeld,
           InPlaceSourceKept, SourceHeld
  <2> QED
    BY <2>1, <2>2, <2>3, <2>4, <2>5
<1> QED
  BY <1>1, <1>2, <1>3

(* The steps of evaluate(). *)
LEMMA EvaluateKeepsInv ==
  ASSUME Inv, Evaluate
  PROVE  Inv'
<1> USE Constants DEF Inv, disk, caller
<1>1. ASSUME ReadBaselineCache
      PROVE  Inv'
  <2> USE <1>1 DEF ReadBaselineCache, TakeCached
  <2>1. TypeOK'
    <3>1. base' \in Seq(Programs) /\ Len(base') <= NumScenarios
      BY FullRunIsMeasurement DEF TypeOK, BaselineIsBaseline, CacheIsValid
    <3> QED
      BY <3>1 DEF TypeOK
  <2>2. BaselineHeld'
    BY DEF TypeOK, BaselineHeld, BaselineIsBaseline, CacheIsValid, Computing
  <2>3. CandidateHeld'
    BY DEF TypeOK, CandidateHeld, Displaced
  <2>4. SourceHeld'
    BY DEF TypeOK, SourceHeld, CandidateHeld, Displaced
  <2>5. ScoreIsOfProgram' /\ BaselineIsBaseline' /\ InPlaceSourceKept'
    BY DEF ScoreIsOfProgram, BaselineIsBaseline, BaselineHeld, CandidateHeld,
           InPlaceSourceKept, SourceHeld
  <2> QED
    BY <2>1, <2>2, <2>3, <2>4, <2>5
<1>2. ASSUME WriteBaseline
      PROVE  Inv'
  <2> USE <1>2 DEF WriteBaseline
  <2>1. TypeOK'
    BY DEF TypeOK, Call, Measurements
  <2>2. BaselineHeld'
    BY DEF TypeOK, BaselineHeld, BaselineIsBaseline, CacheIsValid, Computing
  <2>3. CandidateHeld'
    BY DEF TypeOK, CandidateHeld, Displaced
  <2>4. SourceHeld'
    BY DEF TypeOK, SourceHeld, CandidateHeld, Displaced
  <2>5. ScoreIsOfProgram'
    BY DEF TypeOK, ScoreIsOfProgram, BaselineHeld, CandidateHeld
  <2>6. BaselineIsBaseline'
    BY DEF TypeOK, BaselineIsBaseline, BaselineHeld
  <2>7. InPlaceSourceKept'
    BY DEF TypeOK, InPlaceSourceKept, CandidateHeld, Displaced
  <2> QED
    BY <2>1, <2>2, <2>3, <2>4, <2>5, <2>6, <2>7
<1>3. ASSUME BuildBaseline
      PROVE  Inv'
  <2> USE <1>3 DEF BuildBaseline, Rebuilt, RebuildFailed, RebuildTimedOut, RebuildStopped
  <2>1. TypeOK'
    BY DEF TypeOK, Call, Measurements
  <2>2. BaselineHeld'
    BY DEF TypeOK, BaselineHeld, BaselineIsBaseline, CacheIsValid, Computing
  <2>3. CandidateHeld'
    BY DEF TypeOK, CandidateHeld, Displaced
  <2>4. SourceHeld'
    BY DEF TypeOK, SourceHeld, CandidateHeld, Displaced
  <2>5. ScoreIsOfProgram' /\ BaselineIsBaseline' /\ InPlaceSourceKept'
    BY DEF ScoreIsOfProgram, BaselineIsBaseline, BaselineHeld, CandidateHeld,
           InPlaceSourceKept, SourceHeld
  <2> QED
    BY <2>1, <2>2, <2>3, <2>4, <2>5
<1>4. ASSUME RunBaseline
      PROVE  Inv'
  <2> USE <1>4 DEF RunBaseline, ScenarioFails
  <2>0. /\ base' \in Seq({Baseline}) /\ Len(base') <= NumScenarios
        /\ pc' = "restore" => Len(base') = NumScenarios
        /\ pc' = "run_baseline" => Len(base') < NumScenarios
    BY DEF BaselineHeld
  <2>1. TypeOK'
    <3>1. base' \in Seq(Programs)
      BY <2>0
    <3> QED
      BY <2>0, <3>1 DEF TypeOK
  <2>2. BaselineHeld'
    BY <2>0, FullRun DEF BaselineHeld, CacheIsValid, Computing
  <2>3. CandidateHeld'
    BY DEF TypeOK, CandidateHeld, Displaced
  <2>4. SourceHeld'
    BY DEF TypeOK, SourceHeld, CandidateHeld, Displaced
  <2>5. ScoreIsOfProgram' /\ BaselineIsBaseline' /\ InPlaceSourceKept'
    BY DEF ScoreIsOfProgram, BaselineIsBaseline, BaselineHeld, CandidateHeld,
           InPlaceSourceKept, SourceHeld
  <2> QED
    BY <2>1, <2>2, <2>3, <2>4, <2>5
<1>5. ASSUME Restore
      PROVE  Inv'
  <2> USE <1>5 DEF Restore, Restored
  <2>1. TypeOK'
    BY DEF TypeOK, SourceHeld, Displaced
  <2>2. BaselineHeld'
    BY DEF TypeOK, BaselineHeld, BaselineIsBaseline, CacheIsValid, Computing
  <2>3. CandidateHeld'
    BY DEF TypeOK, CandidateHeld, Displaced
  <2>4. SourceHeld'
    BY DEF TypeOK, SourceHeld, CandidateHeld, Displaced
  <2>5. ScoreIsOfProgram'
    BY DEF TypeOK, ScoreIsOfProgram, BaselineHeld, CandidateHeld
  <2>6. BaselineIsBaseline'
    BY DEF TypeOK, BaselineIsBaseline, BaselineHeld
  <2>7. InPlaceSourceKept'
    BY DEF TypeOK, InPlaceSourceKept, CandidateHeld, Displaced
  <2> QED
    BY <2>1, <2>2, <2>3, <2>4, <2>5, <2>6, <2>7
<1>6. ASSUME WriteBaselineCache
      PROVE  Inv'
  <2> USE <1>6 DEF WriteBaselineCache
  <2>1. TypeOK'
    BY FullRunIsMeasurement DEF TypeOK, BaselineHeld
  <2>2. BaselineHeld'
    BY DEF TypeOK, BaselineHeld, BaselineIsBaseline, CacheIsValid, Computing
  <2>3. CandidateHeld'
    BY DEF TypeOK, CandidateHeld, Displaced
  <2>4. SourceHeld'
    BY DEF TypeOK, SourceHeld, CandidateHeld, Displaced
  <2>5. ScoreIsOfProgram' /\ BaselineIsBaseline' /\ InPlaceSourceKept'
    BY DEF ScoreIsOfProgram, BaselineIsBaseline, BaselineHeld, CandidateHeld,
           InPlaceSourceKept, SourceHeld
  <2> QED
    BY <2>1, <2>2, <2>3, <2>4, <2>5
<1>7. ASSUME CopyCandidate
      PROVE  Inv'
  <2> USE <1>7 DEF CopyCandidate
  <2>1. TypeOK'
    <3>1. call \in Call
      BY DEF CandidateHeld
    <3> QED
      BY <3>1 DEF TypeOK, Call
  <2>2. BaselineHeld'
    BY DEF TypeOK, BaselineHeld, BaselineIsBaseline, CacheIsValid, Computing
  <2>3. CandidateHeld'
    BY DEF TypeOK, CandidateHeld, Displaced
  <2>4. SourceHeld'
    BY DEF TypeOK, SourceHeld, CandidateHeld, Displaced
  <2>5. ScoreIsOfProgram'
    BY DEF TypeOK, ScoreIsOfProgram, BaselineHeld, CandidateHeld
  <2>6. BaselineIsBaseline'
    BY DEF TypeOK, BaselineIsBaseline, BaselineHeld
  <2>7. InPlaceSourceKept'
    BY DEF TypeOK, InPlaceSourceKept, CandidateHeld, Displaced
  <2> QED
    BY <2>1, <2>2, <2>3, <2>4, <2>5, <2>6, <2>7
<1>8. ASSUME BuildCandidate
      PROVE  Inv'
  <2> USE <1>8
      DEF BuildCandidate, CandidateBuilt, Rebuilt, RebuildFailed, RebuildTimedOut,
          RebuildStopped, Score
  <2>1. TypeOK'
    BY DEF TypeOK, Call, Measurements
  <2>2. BaselineHeld'
    BY DEF TypeOK, BaselineHeld, BaselineIsBaseline, CacheIsValid, Computing
  <2>3. CandidateHeld'
    BY DEF TypeOK, CandidateHeld, Displaced
  <2>4. SourceHeld'
    BY DEF TypeOK, SourceHeld, CandidateHeld, Displaced
  <2>5. ScoreIsOfProgram' /\ BaselineIsBaseline' /\ InPlaceSourceKept'
    BY DEF ScoreIsOfProgram, BaselineIsBaseline, BaselineHeld, CandidateHeld,
           InPlaceSourceKept, SourceHeld
  <2> QED
    BY <2>1, <2>2, <2>3, <2>4, <2>5
<1>9. ASSUME RunScenario
      PROVE  Inv'
  <2> USE <1>9 DEF RunScenario, Score, GiveUp
  <2>0. /\ runs' \in Seq({call.program}) /\ Len(runs') <= NumScenarios
        /\ pc' = "run" => Len(runs') < NumScenarios
        /\ pc' # "run" /\ result'.fitness = "speedup" => Len(runs') = NumScenarios
    <3>1. /\ sim_bin = call.program
          /\ runs \in Seq({call.program}) /\ Len(runs) < NumScenarios
      BY DEF CandidateHeld
    <3>2. Len(runs) \in Nat
      BY <3>1
    <3>3. CASE GiveUp
      BY <3>1, <3>2, <3>3
    <3>4. CASE runs' = Append(runs, sim_bin)
      <4>1. runs' \in Seq({call.program}) /\ Len(runs') = Len(runs) + 1
        BY <3>1, <3>4
      <4>2. Len(runs') = NumScenarios \/ (Len(runs') < NumScenarios /\ pc' = pc)
            \/ GiveUp
        BY <3>1, <3>2, <4>1
      <4> QED
        BY <3>1, <3>3, <4>1, <4>2
    <3> QED
      BY <3>3, <3>4
  <2>1. TypeOK'
    <3>1. runs' \in Seq(Programs)
      <4>1. call.program \in Programs
        BY DEF TypeOK, CandidateHeld, Call
      <4> QED
        BY <2>0, <4>1
    <3> QED
      BY <2>0, <3>1 DEF TypeOK
  <2>2. BaselineHeld'
    BY DEF TypeOK, BaselineHeld, BaselineIsBaseline, CacheIsValid, Computing
  <2>3. CandidateHeld'
    BY DEF TypeOK, CandidateHeld, Displaced
  <2>4. SourceHeld'
    BY DEF TypeOK, SourceHeld, CandidateHeld, Displaced
  <2>5. ScoreIsOfProgram'
    BY <2>0, FullRun DEF ScoreIsOfProgram, BaselineHeld, CandidateHeld
  <2>6. BaselineIsBaseline'
    BY DEF TypeOK, BaselineIsBaseline, BaselineHeld
  <2>7. InPlaceSourceKept'
    BY DEF TypeOK, InPlaceSourceKept, CandidateHeld, Displaced
  <2> QED
    BY <2>1, <2>2, <2>3, <2>4, <2>5, <2>6, <2>7
<1>10. CASE Propagate
  BY <1>10, SessionsKeepInv
<1>11. ASSUME ConfigureBaseline
       PROVE  Inv'
  <2> USE <1>11 DEF ConfigureBaseline, Configured, ConfigureFails
  <2>1. TypeOK'
    BY DEF TypeOK, Call, Measurements
  <2>2. BaselineHeld'
    BY DEF TypeOK, BaselineHeld, BaselineIsBaseline, CacheIsValid, Computing
  <2>3. CandidateHeld'
    BY DEF TypeOK, CandidateHeld, Displaced
  <2>4. SourceHeld'
    BY DEF TypeOK, SourceHeld, CandidateHeld, Displaced
  <2>5. ScoreIsOfProgram' /\ BaselineIsBaseline' /\ InPlaceSourceKept'
    BY DEF ScoreIsOfProgram, BaselineIsBaseline, BaselineHeld, CandidateHeld,
           InPlaceSourceKept, SourceHeld
  <2> QED
    BY <2>1, <2>2, <2>3, <2>4, <2>5
<1>12. ASSUME ConfigureCandidate
       PROVE  Inv'
  <2> USE <1>12 DEF ConfigureCandidate, Configured, ConfigureFails
  <2>1. TypeOK'
    BY DEF TypeOK, Call, Measurements
  <2>2. BaselineHeld'
    BY DEF TypeOK, BaselineHeld, BaselineIsBaseline, CacheIsValid, Computing
  <2>3. CandidateHeld'
    BY DEF TypeOK, CandidateHeld, Displaced
  <2>4. SourceHeld'
    BY DEF TypeOK, SourceHeld, CandidateHeld, Displaced
  <2>5. ScoreIsOfProgram' /\ BaselineIsBaseline' /\ InPlaceSourceKept'
    BY DEF ScoreIsOfProgram, BaselineIsBaseline, BaselineHeld, CandidateHeld,
           InPlaceSourceKept, SourceHeld
  <2> QED
    BY <2>1, <2>2, <2>3, <2>4, <2>5
<1> QED
  BY <1>1, <1>2, <1>3, <1>4, <1>5, <1>6, <1>7, <1>8, <1>9, <1>10, <1>11, <1>12
     DEF Evaluate

(* No step of a session, of a call or of evaluate() breaks the invariant. *)
LEMMA InvStep == Inv /\ [Next]_vars => Inv'
<1> SUFFICES ASSUME Inv, [Next]_vars
             PROVE  Inv'
  OBVIOUS
<1>1. CASE UNCHANGED vars
  BY <1>1 DEF Inv, vars, disk, caller, locals, TypeOK, BaselineHeld,
     CandidateHeld, SourceHeld, ScoreIsOfProgram, BaselineIsBaseline,
     InPlaceSourceKept, CacheIsValid
<1>2. CASE Next
  BY <1>1, <1>2, SessionsKeepInv, CallsKeepInv, EvaluateKeepsInv
     DEF Next, Stopped
<1> QED
  BY <1>1, <1>2

LEMMA InvHolds == Spec => []Inv
BY InitInv, InvStep, PTL DEF Spec

(* Every variable keeps its type, initial_program.cpp and the cache being
   whole or torn. *)
THEOREM EvaluatorTypeCorrect == Spec => []TypeOK
<1>1. Inv => TypeOK
  BY DEF Inv
<1> QED
  BY <1>1, InvHolds, PTL

(* evaluate() scores the program it was asked for, against the baseline and
   nothing else, whatever earlier sessions left behind. *)
THEOREM ScoreCorrect == Spec => []ScoreIsOfProgram
<1>1. Inv => ScoreIsOfProgram
  BY DEF Inv
<1> QED
  BY <1>1, InvHolds, PTL

(* _ensure_baseline caches a complete measurement of the baseline policy or
   none, wherever a session is killed. *)
THEOREM BaselineCorrect == Spec => []BaselineIsBaseline
<1>1. Inv => BaselineIsBaseline
  BY DEF Inv
<1> QED
  BY <1>1, InvHolds, PTL

(* A program evaluated in place is in initial_program.cpp again when
   evaluate() returns or raises: _ensure_baseline's finally clause puts it
   back, and while the file holds the baseline the copy is the program. *)
THEOREM InPlaceCorrect == Spec => []InPlaceSourceKept
<1>1. Inv => InPlaceSourceKept
  BY DEF Inv
<1> QED
  BY <1>1, InvHolds, PTL

(* A valid baseline is not lost while the settings stay: _ensure_baseline
   writes the cache only when it found none that is valid, and nothing makes
   one valid while it computes. *)
THEOREM BaselineIsKept == Spec => ValidBaselineKept
<1>1. Inv /\ [Next]_vars =>
        [CacheIsValid /\ setting' = setting => CacheIsValid']_vars
  <2> SUFFICES ASSUME Inv, Next, CacheIsValid, setting' = setting
               PROVE  CacheIsValid'
    BY DEF vars
  <2>1. baseline_cache' = baseline_cache \/ pc = "write_cache"
    BY DEF Next, StartSession, EvaluateCandidate, EvaluateSmoke,
       EvaluateDirect, Enter, EndSession, Close, Kill, Stopped, Evaluate,
       ReadBaselineCache, WriteBaseline, ConfigureBaseline, BuildBaseline,
       RunBaseline, Restore, WriteBaselineCache, CopyCandidate,
       ConfigureCandidate, BuildCandidate, RunScenario, Propagate, vars, disk, caller, locals
  <2>2. pc # "write_cache"
    BY DEF Inv, BaselineHeld, Computing
  <2> QED
    BY <2>1, <2>2 DEF CacheIsValid
<1> QED
  BY <1>1, InvHolds, PTL DEF Spec, ValidBaselineKept
-----------------------------------------------------------------------------
(* The steps evaluate() has still to take at the most: writes, builds and
   runs, two of each scenario. *)
StepsToCome ==
  CASE pc = "idle" -> 0
    [] pc = "raised" -> 1
    [] pc = "restore_and_raise" -> 2
    [] pc = "run" -> NumScenarios - Len(runs)
    [] pc = "build" -> NumScenarios + 1
    [] pc = "configure" -> NumScenarios + 2
    [] pc = "copy" -> NumScenarios + 3
    [] pc = "write_cache" -> NumScenarios + 4
    [] pc = "restore" -> NumScenarios + 5
    [] pc = "run_baseline" -> 2 * NumScenarios + 5 - Len(base)
    [] pc = "build_baseline" -> 2 * NumScenarios + 6
    [] pc = "configure_baseline" -> 2 * NumScenarios + 7
    [] pc = "write_baseline" -> 2 * NumScenarios + 8
    [] pc = "baseline" -> 2 * NumScenarios + 9

LEMMA StepsAreFew ==
  ASSUME Inv
  PROVE  StepsToCome \in 0..2 * NumScenarios + 9 /\ (StepsToCome = 0 => pc = "idle")
<1>1. /\ NumScenarios \in Nat /\ NumScenarios > 0
      /\ Len(base) \in Nat /\ Len(base) <= NumScenarios
      /\ Len(runs) \in Nat /\ Len(runs) <= NumScenarios
  BY Constants DEF Inv, TypeOK
<1>2. pc = "run" => Len(runs) < NumScenarios
  BY DEF Inv, CandidateHeld
<1>3. pc \in {"idle", "baseline", "write_baseline", "configure_baseline",
              "build_baseline", "run_baseline", "restore", "restore_and_raise",
              "write_cache", "copy", "configure", "build", "run", "raised"}
  BY DEF Inv, TypeOK
<1>4. /\ pc = "idle" => StepsToCome = 0
      /\ pc = "raised" => StepsToCome = 1
      /\ pc = "restore_and_raise" => StepsToCome = 2
      /\ pc = "run" => StepsToCome = NumScenarios - Len(runs)
      /\ pc = "build" => StepsToCome = NumScenarios + 1
      /\ pc = "configure" => StepsToCome = NumScenarios + 2
      /\ pc = "copy" => StepsToCome = NumScenarios + 3
  BY DEF StepsToCome
<1>5. /\ pc = "write_cache" => StepsToCome = NumScenarios + 4
      /\ pc = "restore" => StepsToCome = NumScenarios + 5
      /\ pc = "run_baseline" => StepsToCome = 2 * NumScenarios + 5 - Len(base)
      /\ pc = "build_baseline" => StepsToCome = 2 * NumScenarios + 6
      /\ pc = "configure_baseline" => StepsToCome = 2 * NumScenarios + 7
      /\ pc = "write_baseline" => StepsToCome = 2 * NumScenarios + 8
      /\ pc = "baseline" => StepsToCome = 2 * NumScenarios + 9
  BY DEF StepsToCome
<1>6. CASE pc \in {"idle", "raised", "restore_and_raise", "run", "build",
                   "configure", "copy"}
  BY <1>1, <1>2, <1>4, <1>6
<1>7. CASE pc \in {"write_cache", "restore", "run_baseline", "build_baseline",
                   "configure_baseline", "write_baseline", "baseline"}
  BY <1>1, <1>5, <1>7
<1> QED
  BY <1>3, <1>6, <1>7

LEMMA StepsGetFewer ==
  ASSUME Inv, Evaluate
  PROVE  StepsToCome' < StepsToCome
<1>1. /\ NumScenarios \in Nat /\ NumScenarios > 0
      /\ Len(base) \in Nat /\ Len(base) <= NumScenarios /\ base \in Seq(Programs)
      /\ Len(runs) \in Nat /\ Len(runs) <= NumScenarios /\ runs \in Seq(Programs)
      /\ sim_bin \in Programs \cup {None}
  BY Constants DEF Inv, TypeOK
<1>2. /\ pc = "run" => Len(runs) < NumScenarios
      /\ pc = "run_baseline" => Len(base) < NumScenarios
      /\ pc = "build" => runs = <<>>
      /\ pc \in {"configure_baseline", "build_baseline"} => base = <<>>
  BY DEF Inv, CandidateHeld, BaselineHeld
<1>3. CASE ReadBaselineCache \/ WriteBaseline
  BY <1>1, <1>3 DEF ReadBaselineCache, WriteBaseline, StepsToCome
<1>4. CASE BuildBaseline
  BY <1>1, <1>2, <1>4 DEF BuildBaseline, StepsToCome
<1>5. CASE RunBaseline
  <2>1. CASE base' = base
    BY <1>1, <1>2, <1>5, <2>1 DEF RunBaseline, ScenarioFails, StepsToCome
  <2>2. CASE /\ base' = Append(base, sim_bin)
             /\ pc' = IF Len(base') = NumScenarios THEN "restore" ELSE pc
    <3>1. Len(base') = Len(base) + 1
      BY <1>1, <2>2
    <3> QED
      BY <1>1, <1>2, <1>5, <2>2, <3>1 DEF RunBaseline, StepsToCome
  <2> QED
    BY <1>5, <2>1, <2>2 DEF RunBaseline
<1>6. CASE Restore \/ WriteBaselineCache \/ CopyCandidate
  BY <1>1, <1>6 DEF Restore, WriteBaselineCache, CopyCandidate, StepsToCome
<1>7. CASE BuildCandidate
  BY <1>1, <1>2, <1>7 DEF BuildCandidate, StepsToCome
<1>8. CASE RunScenario
  <2>1. CASE GiveUp
    BY <1>1, <1>2, <1>8, <2>1 DEF RunScenario, GiveUp, StepsToCome
  <2>2. CASE /\ runs' = Append(runs, sim_bin)
             /\ IF Len(runs') = NumScenarios
                THEN pc' = "idle" ELSE pc' = pc
    <3>1. Len(runs') = Len(runs) + 1
      BY <1>1, <2>2
    <3> QED
      BY <1>1, <1>2, <1>8, <2>2, <3>1 DEF RunScenario, StepsToCome
  <2> QED
    BY <1>8, <2>1, <2>2 DEF RunScenario
<1>9. CASE Propagate
  BY <1>9 DEF Propagate, Close, StepsToCome
<1>10. CASE ConfigureBaseline \/ ConfigureCandidate
  BY <1>1, <1>10 DEF ConfigureBaseline, ConfigureCandidate, StepsToCome
<1> QED
  BY <1>3, <1>4, <1>5, <1>6, <1>7, <1>8, <1>9, <1>10 DEF Evaluate

(* evaluate() has no more than two steps for each scenario and nine others to
   take, whatever fails: nothing is tried again. *)
THEOREM EvaluateGetsShorter ==
  Spec => /\ []/\ StepsToCome \in 0..2 * NumScenarios + 9
               /\ StepsToCome = 0 => pc = "idle"
          /\ [][Evaluate => StepsToCome' < StepsToCome]_vars
<1>1. Inv => /\ StepsToCome \in 0..2 * NumScenarios + 9
             /\ StepsToCome = 0 => pc = "idle"
  BY StepsAreFew
<1>2. Inv /\ [Next]_vars => [Evaluate => StepsToCome' < StepsToCome]_vars
  BY StepsGetFewer
<1> QED
  BY <1>1, <1>2, InvHolds, PTL DEF Spec
=============================================================================
