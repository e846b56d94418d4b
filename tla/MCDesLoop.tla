----------------------------- MODULE MCDesLoop ------------------------------
(***************************************************************************)
(* Two threads, four operations of up to two block accesses; requests of a *)
(* size between two of the table and of one beyond it.                     *)
(***************************************************************************)
EXTENDS DesLoop

MCTable == <<<<1, 1>>, <<4, 2>>>>
MCSizes == {2, 12}
MCComputeCosts == {1}
=============================================================================
