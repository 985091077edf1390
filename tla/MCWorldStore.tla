---------------------------- MODULE MCWorldStore ----------------------------
(* Small instances of WorldStore for TLC. *)
EXTENDS WorldStore, TLC

DataSymmetry == Permutations(Data)

=============================================================================
