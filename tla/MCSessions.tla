----------------------------- MODULE MCSessions -----------------------------
(* Small instances of Sessions for TLC. *)
EXTENDS Sessions, TLC
N == INSTANCE Telnet

Symmetry == Permutations(Conns) \cup Permutations(Accounts)

(* After the last crash nothing reads the database any more: states that      *)
(* differ only in it are one.                                                 *)
State == <<sess, acct, world, IF crashes < MaxCrashes THEN <<disk>> ELSE <<>>, crashes, rolledBack, left>>
-----------------------------------------------------------------------------
(* The messages are what the telnet parser makes of bytes: every well formed  *)
(* stream of up to two parts, and of three of each sort.                      *)
ASSUME \A n \in 0..2 : \A parts \in [1..n -> N!Parts] : N!AgreeOnStream(parts)
ASSUME \A parts \in [1..3 -> N!Sample] : N!AgreeOnStream(parts)
=============================================================================
