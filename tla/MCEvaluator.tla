---------------------------- MODULE MCEvaluator -----------------------------
(***************************************************************************)
(* The baseline policy, one that compiles and one that does not; two       *)
(* scenarios, two settings, three sessions of up to two evaluations.       *)
(***************************************************************************)
EXTENDS Evaluator

CONSTANTS good, bad

MCPrograms == {Baseline, good, bad}
MCCompiles == {Baseline, good}
=============================================================================
