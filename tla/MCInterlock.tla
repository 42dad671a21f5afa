----------------------------- MODULE MCInterlock -----------------------------
(***************************************************************************)
(* A small instance of Interlock: two or three requests at a time, two     *)
(* grants and two adapters.                                                *)
(***************************************************************************)
EXTENDS Interlock, TLC

CONSTANTS c1, c2, c3, g1, g2

Alike == Permutations(Callers) \cup Permutations(Grants)
=============================================================================
