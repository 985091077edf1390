--------------------------- MODULE MCObjectGraph ---------------------------
(* A small instance of ObjectGraph for TLC. *)
EXTENDS ObjectGraph, TLC

Symmetry == Permutations(Refs \ Players)
=============================================================================
