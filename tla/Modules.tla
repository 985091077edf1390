-------------------------------- MODULE Modules --------------------------------
(* Libraries scripts `require` (softcode/mod.rs): shipped ones out of files,  *)
(* and those any object of the world carries.  What a library returns is      *)
(* kept, with all it was made of, until everything kept is dropped.           *)
(*                                                                            *)
(* The host's tables are [shipped, sources, dirty, cache]: the text of each   *)
(* name out of files and out of the world as last looked at, whether the      *)
(* world has to be looked at again, and for each name what its value was made *)
(* of: pairs of a name and a text, none if it is not kept.                    *)
EXTENDS Integers, Sequences

CONSTANTS
    LibNames,
    Texts,
    Needs               \* [Texts -> sequences of the names they require]

NoText == 0

(* load_modules, set_game_dir: nothing kept, the world to be looked at. *)
FreshModules(shipped) ==
    [shipped |-> shipped, sources |-> [n \in LibNames |-> NoText], dirty |-> TRUE,
     cache |-> [n \in LibNames |-> {}]]

(* sync_user_lib_sources: of two objects with a library of the same name      *)
(* either may be the one.  Gives the set of the possible tables.              *)
Hosted(w, n) == {w[o].libs[n] : o \in DOMAIN w} \ {NoText}
Found(w, f) == \A n \in LibNames : IF Hosted(w, n) = {} THEN f[n] = NoText ELSE f[n] \in Hosted(w, n)
SyncUserLibSources(w, m) ==
    IF ~m.dirty THEN {m}
    ELSE {[m EXCEPT !.dirty = FALSE, !.sources = f] :
             f \in {g \in [LibNames -> Texts \cup {NoText}] : Found(w, g)}}

InvalidateModuleCache(m) == [m EXCEPT !.dirty = TRUE, !.cache = [n \in LibNames |-> {}]]

(* invalidate_libs_touched_by: whether a batch wrote a library is all that    *)
(* counts.  Mutant: only what it wrote is dropped, not what was made of it.   *)
Wrote(b) == {b[i].k : i \in {j \in DOMAIN b : b[j].op = "lib"}}
InvalidateLibsTouchedBy_Named(b, m) ==
    IF Wrote(b) = {} THEN m
    ELSE [m EXCEPT !.dirty = TRUE, !.cache = [n \in LibNames |-> IF n \in Wrote(b) THEN {} ELSE @[n]]]
InvalidateLibsTouchedBy(b, m) == IF Wrote(b) = {} THEN m ELSE InvalidateModuleCache(m)
-----------------------------------------------------------------------------
(* require.  `loading` has the names being loaded: one that is met again ends *)
(* in an error, and so does everything that required it; what was loaded      *)
(* before that stays.                                                         *)
TextOf(m, n) == IF m.shipped[n] # NoText THEN m.shipped[n] ELSE m.sources[n]

Tables ==
    [shipped : [LibNames -> Texts \cup {NoText}], sources : [LibNames -> Texts \cup {NoText}],
     dirty : BOOLEAN, cache : [LibNames -> SUBSET (LibNames \X Texts)]]
Keep(n, text, st) ==
    IF st.ok
    THEN [st EXCEPT !.m.cache[n] =
             {<<n, text>>} \cup UNION {st.m.cache[Needs[text][i]] : i \in DOMAIN Needs[text]}]
    ELSE st
Require ==
    LET require[p \in LibNames \X (SUBSET LibNames) \X [ok : BOOLEAN, m : Tables]] ==
            LET n == p[1]
                loading == p[2]
                st == p[3]
                text == TextOf(st.m, n)
                each[i \in 0..Len(Needs[text])] ==
                    IF i = 0 THEN st ELSE require[<<Needs[text][i], loading \cup {n}, each[i - 1]>>]
            IN  IF ~st.ok \/ st.m.cache[n] # {} THEN st
                ELSE IF text = NoText \/ n \in loading THEN [st EXCEPT !.ok = FALSE]
                ELSE Keep(n, text, each[Len(Needs[text])])
    IN  require

(* The texts out of the world are what it has, unless it is to be looked at   *)
(* again; and every text something kept was made of is one its name has.      *)
UpToDate(w, m) ==
    /\ m.dirty \/ Found(w, m.sources)
    /\ \A n \in LibNames : \A made \in m.cache[n] :
           made[2] \in (IF m.shipped[made[1]] # NoText THEN {m.shipped[made[1]]} ELSE Hosted(w, made[1]))
=============================================================================
