------------------------------ MODULE Scheduler ------------------------------
(***************************************************************************)
(* The heartbeat of the engine (src/src/engine/mod.rs, do_tick): the       *)
(* on_tick hooks, the timers that softcode asks for with after() and       *)
(* cancel_after(), the time budget that cuts both loops short, and the     *)
(* saving and reloading of timers.                                         *)
(*                                                                         *)
(* tick_count only ever meets a timer in `fire_at_tick <= tick_count`, so  *)
(* a timer keeps `left`, the ticks between the two; the absolute number is *)
(* what a save writes and a restart, which starts counting from 0, reads.  *)
(***************************************************************************)
EXTENDS Naturals, Sequences, FiniteSets

CONSTANTS
    Targets,    \* objects whose scripts own timers
    Hooks,      \* names of the hooks they define
    Owned,      \* the targets with an owner (one owner for all of them)
    Quota,      \* OWNER_TIMER_QUOTA
    Intervals,  \* tick_interval of each object with an on_tick hook, in order
    MaxDelay,   \* bound on the ticks asked for
    MaxTick,    \* bound on tick_count: see Wrap
    Period,     \* a common multiple of Intervals
    TimerIds,   \* bound on the timers alive at once
    MaxCrashes  \* bound on the crashes

ASSUME ConstantsAssumption ==
    /\ Owned \subseteq Targets
    /\ Quota \in Nat /\ MaxDelay \in Nat /\ MaxTick \in Nat /\ MaxCrashes \in Nat
    /\ Intervals \in Seq(Nat \ {0})
    /\ Period \in 1..MaxTick
    /\ IsFiniteSet(TimerIds)

VARIABLES
    tick,     \* tick_count
    phase,    \* where do_tick is: "idle", "objects" (on_tick loop), "timers" (due loop)
    pos,      \* position in the list of tickable objects
    over,     \* start.elapsed() > tick_budget
    timers,   \* scheduled_hooks
    due,      \* the due timers do_tick has taken out of scheduled_hooks
    saved,    \* table scheduled_hooks, with the absolute fire_at_tick
    crashes,  \* number of crashes so far
    outcome   \* history: what became of each timer since this boot

vars == <<tick, phase, pos, over, timers, due, saved, crashes, outcome>>

(* A counter that would exceed MaxTick goes back by whole periods: beyond that *)
(* point behaviours repeat, and infinite ones stay within the bound.           *)
Wrap(n) == IF n > MaxTick THEN n - Period ELSE n

Timer == [id : TimerIds, target : Targets, hook : Hooks,
          left : 0..(MaxDelay + MaxTick),
          asked : 1..MaxDelay,  \* history: the ticks asked for
          age : 0..MaxDelay]    \* history: the ticks waited, up to MaxDelay

Ids(s) == {s[i].id : i \in 1..Len(s)}
FreeIds == TimerIds \ (Ids(timers) \cup Ids(due) \cup Ids(saved))
OwnedCount(s) == Cardinality({i \in 1..Len(s) : s[i].target \in Owned})

(* The members of s at the positions in S, in their order: SelectSeq by       *)
(* positions instead of by a test (retain, partition).                        *)
Kept(s, S) ==
    LET upTo[i \in 0..Len(s)] ==
          IF i = 0 THEN <<>>
          ELSE IF i \in S THEN Append(upTo[i - 1], s[i]) ELSE upTo[i - 1]
    IN upTo[Len(s)]

-----------------------------------------------------------------------------
Init ==
    /\ tick = 0
    /\ phase = "idle"
    /\ pos = 1
    /\ over = FALSE
    /\ timers = <<>>
    /\ due = <<>>
    /\ saved = <<>>
    /\ crashes = 0
    /\ outcome = [i \in TimerIds |-> "none"]

-----------------------------------------------------------------------------
(* What the effects of one script do to the timers (bounded to one timer asked *)
(* for or one cancellation per run); `o` is `outcome` as the                  *)
(* step left it before the script ran.                                        *)

(* timer_quota_reached: an unowned target is exempt, the timers of every      *)
(* object of the owner count, those taken out by do_tick do not.              *)
TimerQuotaReached(t) == t \in Owned /\ OwnedCount(timers) >= Quota

(* Mutant: the tick in which the timer is created counts. *)
FireIn_ThisTickCounts(n) == n - 1

(* tick_count + ticks, seen from tick_count *)
FireIn(n) == n

(* Intent::After with ticks > 0, then Effect::ScheduleHook *)
Schedule(o, t, h, n) ==
    /\ ~TimerQuotaReached(t)
    /\ \E i \in FreeIds :
        /\ timers' = Append(timers, [id |-> i, target |-> t, hook |-> h,
                                     left |-> FireIn(n), asked |-> n, age |-> 0])
        /\ outcome' = [o EXCEPT ![i] = "pending"]

ScheduleRefused(o, t) ==
    /\ TimerQuotaReached(t)
    /\ outcome' = o
    /\ UNCHANGED timers

(* Effect::CancelScheduledHook: every pending timer of that target and hook   *)
(* goes, but for those do_tick has already taken out.                         *)
Cancel(o, t, h) ==
    LET hit == {i \in DOMAIN timers : timers[i].target = t /\ timers[i].hook = h}
        gone == {timers[i].id : i \in hit}
    IN /\ timers' = Kept(timers, DOMAIN timers \ hit)
       /\ outcome' = [i \in TimerIds |-> IF i \in gone THEN "cancelled" ELSE o[i]]

ScriptEffects(o) ==
    \/ outcome' = o /\ UNCHANGED timers
    \/ \E t \in Targets, h \in Hooks, n \in 1..MaxDelay : Schedule(o, t, h, n)
    \/ \E t \in Targets : ScheduleRefused(o, t)
    \/ \E t \in Targets, h \in Hooks : Cancel(o, t, h)

(* Any command, API call or hook between two ticks. *)
Command ==
    /\ phase = "idle"
    /\ UNCHANGED <<tick, phase, pos, over, due, saved, crashes>>
    /\ ScriptEffects(outcome)

-----------------------------------------------------------------------------
(* do_tick *)

Older(s) == [s EXCEPT !.left = IF @ = 0 THEN 0 ELSE @ - 1, !.age = IF @ < MaxDelay THEN @ + 1 ELSE @]

BeginTick ==
    /\ phase = "idle"
    /\ tick' = Wrap(tick + 1)
    /\ timers' = [i \in 1..Len(timers) |-> Older(timers[i])]
    /\ phase' = "objects"
    /\ pos' = 1
    /\ over' = FALSE
    /\ UNCHANGED <<due, saved, crashes, outcome>>

(* start.elapsed() is read before each script: once the budget is spent it    *)
(* stays spent for the rest of the tick.                                      *)
ReadClock == over' \in {over, TRUE}

TurnOf(k) == tick % Intervals[k] = 0

(* One object of the tickable list, while the budget holds. *)
TickObject ==
    /\ phase = "objects"
    /\ pos <= Len(Intervals)
    /\ ReadClock
    /\ ~over'
    /\ pos' = pos + 1
    /\ UNCHANGED <<tick, phase, due, saved, crashes>>
    /\ IF TurnOf(pos)
         THEN ScriptEffects(outcome)
         ELSE UNCHANGED <<timers, outcome>>

(* The budget is spent: the rest of the list is not visited in this tick. *)
BreakObjects ==
    /\ phase = "objects"
    /\ pos <= Len(Intervals)
    /\ ReadClock
    /\ over'
    /\ pos' = Len(Intervals) + 1
    /\ UNCHANGED <<tick, phase, timers, due, saved, crashes, outcome>>

(* Mutant: fire_at_tick == tick, so that one put back never comes due again. *)
IsDue_OnTheTick(s) == s.left = 0 /\ s.age = s.asked
(* fire_at_tick <= tick *)
IsDue(s) == s.left = 0

(* Mutant: a due timer is copied, not moved. *)
Remaining_DueToo == timers
Remaining == Kept(timers, {i \in DOMAIN timers : ~IsDue(timers[i])})

(* mem::take and partition *)
TakeDue ==
    /\ phase = "objects"
    /\ pos > Len(Intervals)
    /\ due' = Kept(timers, {i \in DOMAIN timers : IsDue(timers[i])})
    /\ timers' = Remaining
    /\ phase' = "timers"
    /\ UNCHANGED <<tick, pos, over, saved, crashes, outcome>>

(* The next due timer runs its hook, whose effects land in scheduled_hooks. *)
FireTimer ==
    /\ phase = "timers"
    /\ due # <<>>
    /\ ReadClock
    /\ ~over'
    /\ due' = Tail(due)
    /\ UNCHANGED <<tick, phase, pos, saved, crashes>>
    /\ ScriptEffects([outcome EXCEPT ![Head(due).id] = "fired"])

(* The budget is spent: the timer at hand goes back, the others are dropped   *)
(* with the vector they were taken into.                                      *)
BreakTimers ==
    /\ phase = "timers"
    /\ due # <<>>
    /\ ReadClock
    /\ over'
    /\ timers' = Append(timers, Head(due))
    /\ due' = <<>>
    /\ outcome' = [i \in TimerIds |-> IF i \in Ids(Tail(due)) THEN "dropped" ELSE outcome[i]]
    /\ phase' = "idle"
    /\ UNCHANGED <<tick, pos, saved, crashes>>

EndTick ==
    /\ phase = "timers"
    /\ due = <<>>
    /\ phase' = "idle"
    /\ UNCHANGED <<tick, pos, over, timers, due, saved, crashes, outcome>>

-----------------------------------------------------------------------------
FireAtTick(s) == s.left + tick

(* do_save, save_scheduled_hooks: the table is rewritten, with fire_at_tick. *)
SaveTimers ==
    /\ phase = "idle"
    /\ saved' = [i \in 1..Len(timers) |-> [timers[i] EXCEPT !.left = FireAtTick(timers[i])]]
    /\ UNCHANGED <<tick, phase, pos, over, timers, due, crashes, outcome>>

(* The process ends, wherever it is, and boots: load_scheduled_hooks, and     *)
(* tick_count starts from 0.                                                  *)
Restart ==
    /\ crashes < MaxCrashes
    /\ crashes' = crashes + 1
    /\ tick' = 0
    /\ phase' = "idle"
    /\ pos' = 1
    /\ over' = FALSE
    /\ timers' = saved
    /\ due' = <<>>
    /\ outcome' = [i \in TimerIds |-> IF i \in Ids(saved) THEN "pending" ELSE "none"]
    /\ UNCHANGED saved

DoTick ==
    BeginTick \/ TickObject \/ BreakObjects \/ TakeDue \/ FireTimer \/ BreakTimers \/ EndTick

Next == Command \/ DoTick \/ SaveTimers \/ Restart

Spec == Init /\ [][Next]_vars

(* The interval of the engine loop keeps ticking and a tick runs to its end;  *)
(* players, saves and crashes owe nothing.                                    *)
FairSpec == Spec /\ WF_vars(DoTick)

-----------------------------------------------------------------------------
TypeOK ==
    /\ tick \in 0..MaxTick
    /\ phase \in {"idle", "objects", "timers"}
    /\ pos \in 1..(Len(Intervals) + 1)
    /\ over \in BOOLEAN
    /\ timers \in Seq(Timer) /\ due \in Seq(Timer) /\ saved \in Seq(Timer)
    /\ crashes \in 0..MaxCrashes
    /\ outcome \in [TimerIds -> {"none", "pending", "fired", "cancelled", "dropped"}]

(* No timer is in two places and none vanishes unaccounted for: a timer is    *)
(* pending exactly when it is once in scheduled_hooks or once in the vector   *)
(* do_tick works on (do_tick, mem::take, partition and push).                 *)
Ledger ==
    /\ \A i \in TimerIds :
        outcome[i] = "pending" <=> i \in Ids(timers \o due)
    /\ Cardinality(Ids(timers \o due)) = Len(timers) + Len(due)

(* However ticks are cut, saved and restarted, a timer that is about to fire   *)
(* has waited for all the ticks it asked for: never in the tick that created  *)
(* it, and never earlier for a restart (do_tick, save_scheduled_hooks).       *)
NeverEarly == \A i \in 1..Len(due) : due[i].age >= due[i].asked

(* One owner's pending timers exceed the quota by at most the one that a tick *)
(* out of budget puts back.                                                   *)
QuotaPlusOne == phase = "idle" => OwnedCount(timers) <= Quota + 1

(* The books of the scheduler are in order: the two above, over values of     *)
(* their types (scheduled_hooks, OWNER_TIMER_QUOTA).                          *)
TimersAccounted == TypeOK /\ Ledger /\ QuotaPlusOne

(* A tick ends, whatever its scripts schedule: the due list never grows.      *)
TickEnds == (phase # "idle") ~> (phase = "idle")

(* A pending timer is eventually settled, if the ticks do not all run out of  *)
(* budget.                                                                    *)
TimersSettle ==
    []<>(phase = "idle" /\ ~over) =>
        \A i \in TimerIds : (outcome[i] = "pending") ~> (outcome[i] # "pending")

(* The heartbeat comes to an end of what it begins: ticks, and timers.        *)
HeartbeatSettles == TickEnds /\ TimersSettle
=============================================================================
