-------------------------------- MODULE MCHooks --------------------------------
(* A hall with two players and a lamp that delegates to a kind, and one       *)
(* reference to spare.  The kind's script came disabled out of an old         *)
(* database, or not.                                                          *)
EXTENDS Hooks, TLC

CONSTANTS hall, ann, bob, lamp, kind, spare

Defined(tick, cmd) == "on_tick" :> tick @@ "cmd_rub" :> cmd
MCSources == {Defined(1, 1), Defined(2, 0)}
Start(on) ==
    [o \in {hall, ann, bob, lamp, kind} |->
        [Blank(None, None) EXCEPT
            !.home = IF o \in {ann, bob, lamp} THEN hall ELSE None,
            !.arch = IF o = lamp THEN kind ELSE None,
            !.source = IF o = kind THEN Defined(1, 1) ELSE NoSource,
            !.enabled = o # kind \/ on]]
MCStarts == {Start(on) : on \in BOOLEAN}

Symmetry == Permutations({ann, bob})
=============================================================================
