---------------------------- MODULE MCScheduler ----------------------------
(* Small instances of Scheduler for TLC. *)
EXTENDS Scheduler, Integers, TLC
C == INSTANCE Clock
L == INSTANCE Locks

EveryOtherTick == <<2>>
IdSymmetry == Permutations(TimerIds)
-----------------------------------------------------------------------------
(* The game clock the tick advances, over small calendars and the shipped     *)
(* one's day, from the beginning of time and from a start that is out of the  *)
(* calendar, a minute before an hour.                                         *)
Beginning == [year |-> 1, month |-> 1, day |-> 1, hour |-> 0, minute |-> 0]
OffTheCalendar == [year |-> 2, month |-> 2, day |-> 0, hour |-> 4, minute |-> 59]
Calendars ==
    [hours : {1, 3, 24}, days : {1, 2}, months : {1, 2}, dawn : 0..2, dusk : 0..2,
     start : {Beginning, OffTheCalendar}]
ASSUME \A c \in Calendars : \A k \in 0..20 : C!AgreeOnDate(c, k * 59)
ASSUME \A c \in Calendars : \A rate \in {<<60, 1>>, <<45, 2>>, <<1, 2>>, <<100, 1>>} :
           \A n \in {1, 5, 12} : C!AgreeOnHooks(c, rate, n)
-----------------------------------------------------------------------------
(* Locks, over all expressions of up to five words without functions, and     *)
(* some with.                                                                 *)
Lexicon == [hours |-> "6" :> 6 @@ "20" :> 20 @@ "30" :> 30, tags |-> {"town/key"}, kinds |-> {"npc"}]
Lord ==
    [scopes |-> {"builder"}, tags |-> {"town/key"}, attrs |-> "age" :> "20", carried |-> {}, kind |-> "npc",
     owns |-> FALSE, hour |-> 21, gameHour |-> -1]
Words == {"true", "false", "NOT", "AND", "OR", "(", ")"}
ASSUME \A n \in 0..5 : \A ws \in [1..n -> Words] : L!AgreeOnGrammar(Lexicon, ws, Lord)
ASSUME \A start, end, hour \in 0..23 : L!AgreeOnWindow(start, end, hour)

Admits(ws) == L!CheckLock(Lexicon, ws, Lord)
ASSUME
    /\ Admits(<<"perm", "(", "builder", ")", "AND", "NOT", "perm", "(", "admin", ")">>)
    /\ Admits(<<"has_tag", "(", "town/key", ")">>) /\ ~Admits(<<"has_tag", "(", "key", ")">>)
    /\ Admits(<<"has_attr", "(", "age", ",", "20", ")">>) /\ ~Admits(<<"has_attr", "(", "age", ",", "6", ")">>)
    /\ Admits(<<"is_kind", "(", "npc", ")">>) /\ ~Admits(<<"is_owner", "(", ")">>)
    /\ ~Admits(<<"in_inventory", "(", "town/key", ")">>)
    /\ Admits(<<"time_between", "(", "20", ",", "6", ")">>)
    /\ ~Admits(<<"NOT", "time_between", "(", "20", ",", "30", ")">>)    \* cannot be read
    /\ ~Admits(<<"game_time_between", "(", "20", ",", "6", ")">>)       \* no clock
=============================================================================
