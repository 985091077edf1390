--------------------------------- MODULE Clock ---------------------------------
(* The game clock (clock.rs) and what each tick makes of it (advance_clock in *)
(* engine/mod.rs).  A calendar is [hours, days, months, dawn, dusk, start]:   *)
(* how many hours a day has, and so on, and the moment counting begins, as    *)
(* [year, month, day, hour, minute].  How much time a tick takes is a         *)
(* fraction <<minutes, ticks>>.                                               *)
EXTENDS Integers, Sequences, FiniteSets, FiniteSetsExt

AtLeast(n, m) == IF n < m THEN m ELSE n
MinutesPerDay(c) == c.hours * 60
MinutesPerMonth(c) == c.days * MinutesPerDay(c)
MinutesPerYear(c) == c.months * MinutesPerMonth(c)

EpochMinutes(c) ==
    AtLeast(c.start.year - 1, 0) * MinutesPerYear(c) + AtLeast(c.start.month - 1, 0) * MinutesPerMonth(c)
    + AtLeast(c.start.day - 1, 0) * MinutesPerDay(c) + c.start.hour * 60 + c.start.minute

(* at *)
IsDay(c, hour) ==
    IF c.dawn <= c.dusk THEN hour >= c.dawn /\ hour < c.dusk ELSE hour >= c.dawn \/ hour < c.dusk
Split(c, total, absDay) ==
    LET hour == (total \div 60) % AtLeast(c.hours, 1)
        absMonth == absDay \div AtLeast(c.days, 1)
    IN  [minute |-> total % 60, hour |-> hour, day |-> (absDay % AtLeast(c.days, 1)) + 1,
         month |-> (absMonth % AtLeast(c.months, 1)) + 1, year |-> (absMonth \div AtLeast(c.months, 1)) + 1,
         absDay |-> absDay, isDay |-> IsDay(c, hour)]
At(c, minute) ==
    LET total == EpochMinutes(c) + minute IN Split(c, total, total \div AtLeast(MinutesPerDay(c), 1))

(* advance_clock: the remainder of whole minutes is carried over; each hook   *)
(* fires once at most.  `fired` collects what has been fired so far.          *)
Fired(c, before, after) ==
    (IF after.hour # before.hour THEN <<"on_hour">> ELSE <<>>)
    \o (IF after.absDay # before.absDay THEN <<"on_day">> ELSE <<>>)
    \o (IF after.hour = c.dawn /\ before.hour # c.dawn THEN <<"on_dawn">> ELSE <<>>)
    \o (IF after.hour = c.dusk /\ before.hour # c.dusk THEN <<"on_dusk">> ELSE <<>>)
AdvanceClock(c, rate, st) ==
    LET accum == st.accum + rate[1]
        whole == accum \div rate[2]
    IN  IF whole < 1 THEN [st EXCEPT !.accum = accum]
        ELSE [minute |-> st.minute + whole, accum |-> accum % rate[2],
              fired |-> st.fired \o Fired(c, At(c, st.minute), At(c, st.minute + whole))]
AfterTicks(c, rate, n) ==
    LET after[i \in 0..n] ==
            IF i = 0 THEN [minute |-> 0, accum |-> 0, fired |-> <<>>] ELSE AdvanceClock(c, rate, after[i - 1])
    IN  after[n]
-----------------------------------------------------------------------------
(* The date names the moment it is made of, in a calendar that has time.      *)
AgreeOnDate(c, minute) ==
    LET t == At(c, minute) IN
    /\ (t.year - 1) * MinutesPerYear(c) + (t.month - 1) * MinutesPerMonth(c) + (t.day - 1) * MinutesPerDay(c)
           + t.hour * 60 + t.minute = EpochMinutes(c) + minute
    /\ t.minute \in 0..59 /\ t.hour \in 0..(c.hours - 1) /\ t.day \in 1..c.days /\ t.month \in 1..c.months

(* No time gets lost between ticks; and as long as a tick takes no more than  *)
(* an hour, every hour and every day is rung in once, and it is dawn or dusk  *)
(* exactly when it gets light or dark.                                        *)
Times(hook, fired) == Cardinality({i \in DOMAIN fired : fired[i] = hook})
AgreeOnHooks(c, rate, n) ==
    LET end == AfterTicks(c, rate, n)
        last == At(c, end.minute)
        hours == (EpochMinutes(c) + end.minute) \div 60 - EpochMinutes(c) \div 60
        light == Times("on_dawn", end.fired) - Times("on_dusk", end.fired)
    IN  /\ end.minute = (n * rate[1]) \div rate[2]
        /\ rate[1] <= 60 * rate[2] =>
               /\ Times("on_hour", end.fired) = IF c.hours = 1 THEN 0 ELSE hours
               /\ Times("on_day", end.fired) = last.absDay - At(c, 0).absDay
               /\ (c.dawn # c.dusk /\ c.dawn < c.hours /\ c.dusk < c.hours) =>
                      light = (IF last.isDay THEN 1 ELSE 0) - (IF At(c, 0).isDay THEN 1 ELSE 0)
=============================================================================
