------------------------------ MODULE MCBatch -------------------------------
(***************************************************************************)
(* A run that is waited for, or none, and two seeds.                       *)
(***************************************************************************)
EXTENDS Batch

CONSTANTS seed1, seed2

MCSeeds == <<seed1, seed2>>
=============================================================================
