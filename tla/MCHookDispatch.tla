--------------------------- MODULE MCHookDispatch ---------------------------
(* A small instance of HookDispatch for TLC. *)
EXTENDS HookDispatch
=============================================================================
