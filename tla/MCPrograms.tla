---------------------------- MODULE MCPrograms ----------------------------
(* Small instances of Programs for TLC. *)
EXTENDS Programs, TLC

HeadOnly == {[h \in Hunks |-> IF h = 1 THEN CHOOSE w \in Wordings : TRUE ELSE ""]}
AccountSymmetry == Permutations(Accounts)
=============================================================================
