--------------------------------- MODULE Hooks ---------------------------------
(* Which script answers a hook (softcode/hooks.rs), what a script remembers   *)
(* from tick to tick, and the two lists the engine keeps of who answers what  *)
(* (engine/mod.rs): DerivedIndexes, good while struct_version stands still,   *)
(* and the commands last offered, good while version does.                    *)
(*                                                                            *)
(* A list that is out of date by its version is as good as none, so versions  *)
(* are not counted: what bumps one drops the list.  HookDispatch has the call *)
(* stack, Authority who may write what.                                       *)
EXTENDS Naturals, FiniteSetsExt

CONSTANTS
    Refs, Players, Homes,  \* objects; players; what can contain others
    Commands,              \* hooks cmd_<name>; the other hook is on_tick
    Sources,               \* scripts: what they define each hook as, 0 for not at all
    Intervals,             \* values of tick_interval
    MaxArchetypeDepth,     \* MAX_ARCHETYPE_DEPTH
    None, NoList,
    Starts,                \* the objects there may be at first
    Scripted,              \* bound: objects that have their behaviour changed
    MaxWrites, MaxState    \* bounds: changes of objects; runs remembered

HookNames == Commands \cup {"on_tick"}
NoSource == [h \in HookNames |-> 0]  \* no script, or the stub that only holds state
Object ==
    [arch : Refs \cup {None}, home : Refs \cup {None}, global : BOOLEAN, interval : Intervals \cup {0},
     source : [HookNames -> Nat], enabled : BOOLEAN, state : 0..MaxState]

ASSUME ConstantsAssumption ==
    /\ Players \subseteq Refs /\ Homes \subseteq Refs /\ Scripted \subseteq Refs /\ None \notin Refs
    /\ Sources \subseteq [HookNames -> Nat] /\ Intervals \subseteq Nat \ {0}
    /\ MaxArchetypeDepth \in Nat \ {0} /\ MaxState \in Nat
    /\ \A start \in Starts : DOMAIN start \subseteq Refs /\ \A o \in DOMAIN start : start[o] \in Object

Blank(p, l) ==
    [arch |-> p, home |-> l, global |-> FALSE, interval |-> 0, source |-> NoSource, enabled |-> TRUE, state |-> 0]
Unborn == Blank(None, None)
Builtin(builder) == IF builder THEN {"look", "@dig"} ELSE {"look"}

VARIABLES
    live,      \* objects there are
    objs,      \* their archetype, location, system:global, own tick_interval, script and state
    builders,  \* players with the builder scope
    derived,   \* DerivedIndexes
    offered,   \* commands_cache, and for whom it was made (history)
    late,      \* the on_tick run whose effects are being delivered before its state is written
    bypassed,  \* history: objects changed since the indexes were built by what bumps nothing
    writes     \* bound

vars == <<live, objs, builders, derived, offered, late, bypassed, writes>>

Init ==
    /\ \E start \in Starts :
           /\ live = DOMAIN start
           /\ objs = [o \in Refs |-> IF o \in live THEN start[o] ELSE Unborn]
    /\ builders = {}
    /\ derived = NoList /\ offered = NoList
    /\ late = NoList /\ bypassed = {} /\ writes = 0
-----------------------------------------------------------------------------
(* Resolution: an object and, as far as the walk goes, what it delegates to.  *)

ArchetypeOf(o) == IF o \in live THEN objs[o].arch ELSE None
Line(o) ==
    LET up[i \in 0..(MaxArchetypeDepth - 1)] == IF i = 0 THEN o ELSE ArchetypeOf(up[i - 1]) IN up

Defines(o, h) == o \in live /\ objs[o].enabled /\ objs[o].source[h] # 0

(* resolve_script, object_responds, resolve_hook_names *)
Definers(o, h) == LET up == Line(o) IN {i \in DOMAIN up : Defines(up[i], h)}
ObjectResponds(o, h) == Definers(o, h) # {}
ResolveScript(o, h) == IF ObjectResponds(o, h) THEN Line(o)[Min(Definers(o, h))] ELSE None
ResolveHookNames(o) == {h \in HookNames : ObjectResponds(o, h)}

(* What the hook of an object does *)
Answer(o, h) == IF ObjectResponds(o, h) THEN objs[ResolveScript(o, h)].source[h] ELSE 0

(* flattened_chain_source: all scripts of the line, enabled or not, the       *)
(* nearer shadowing the farther hook by hook.  Mutant: only the nearest.      *)
Authored(o) == LET up == Line(o) IN {i \in DOMAIN up : up[i] \in live /\ objs[up[i]].source # NoSource}
FlattenedChainSource_Nearest(o) ==
    IF Authored(o) = {} THEN NoSource ELSE objs[Line(o)[Min(Authored(o))]].source
FlattenedChainSource(o) ==
    LET up == Line(o)
        with(h) == {i \in Authored(o) : objs[up[i]].source[h] # 0}
    IN  [h \in HookNames |-> IF with(h) = {} THEN 0 ELSE objs[up[Min(with(h))]].source[h]]

(* resolved_attr("tick_interval"), 1 if there is none; resolved_tags *)
Interval(o) ==
    LET up == Line(o)
        set == {i \in DOMAIN up : up[i] \in live /\ objs[up[i]].interval # 0}
    IN  IF set = {} THEN 1 ELSE objs[up[Min(set)]].interval
IsGlobal(o) == LET up == Line(o) IN \E i \in DOMAIN up : up[i] \in live /\ objs[up[i]].global

(* DerivedIndexes::build *)
Ticks(o) == IF ObjectResponds(o, "on_tick") THEN {Interval(o)} ELSE {}
Serves(o) == IF IsGlobal(o) THEN ResolveHookNames(o) ELSE {}
Build == [o \in live |-> [ticks |-> Ticks(o), serves |-> Serves(o)]]

(* Engine::indexes                                                            *)
Indexes == IF derived = NoList THEN Build ELSE derived
Consult ==
    /\ derived' = Indexes
    /\ bypassed' = IF derived = NoList THEN {} ELSE bypassed
-----------------------------------------------------------------------------
(* Commands.                                                                  *)

Within(l) == {o \in live : objs[o].home = l}
(* The room, what is in it but the actor, what the actor carries *)
Nearby(p) == {objs[p].home} \cup (Within(objs[p].home) \ {p}) \cup Within(p)
Placed(p) == objs[p].home # None

(* find_cmd_hook, as dispatch_fallback asks it *)
Answering(p, h) ==
    IF Placed(p)
    THEN LET idx == Indexes IN
         {o \in Nearby(p) : ObjectResponds(o, h)} \cup {o \in DOMAIN idx : h \in idx[o].serves}
    ELSE {}

CommandsFor(p) ==
    Builtin(p \in builders)
    \cup IF Placed(p)
         THEN LET idx == Indexes IN
              ((UNION {ResolveHookNames(o) : o \in Nearby(p)}) \cup (UNION {idx[o].serves : o \in DOMAIN idx}))
              \cap Commands
         ELSE {}

(* What makes the list kept good for another, too: not who he is.             *)
Fits(p) == offered # NoList /\ offered.room = objs[p].home /\ offered.builder = (p \in builders)

(* send_commands, after every command and when the world is entered *)
SendCommands(p) ==
    /\ p \in live /\ ~Fits(p)
    /\ offered' = [room |-> objs[p].home, builder |-> p \in builders, list |-> CommandsFor(p), for |-> p]
    /\ Consult
    /\ UNCHANGED <<live, objs, builders, late, writes>>

(* dispatch_fallback and fire_global_hooks look who answers.                  *)
DispatchFallback(p) ==
    /\ p \in live /\ Placed(p)
    /\ Consult
    /\ UNCHANGED <<live, objs, builders, offered, late, writes>>

Grant(p) ==
    /\ writes < MaxWrites /\ writes' = writes + 1
    /\ builders' = IF p \in builders THEN builders \ {p} ELSE builders \cup {p}
    /\ UNCHANGED <<live, objs, derived, offered, late, bypassed>>
-----------------------------------------------------------------------------
(* Writing objects.  bump_struct drops the indexes, and every access by       *)
(* get_mut the commands.                                                      *)

Changes(new) ==
    /\ writes < MaxWrites /\ writes' = writes + 1
    /\ objs' = new
    /\ offered' = NoList
    /\ UNCHANGED <<builders, late>>
BumpStruct == derived' = NoList /\ bypassed' = {}
NoBump(os) == derived' = derived /\ bypassed' = bypassed \cup os
Edit(o, new) == o \in live /\ Changes([objs EXCEPT ![o] = new]) /\ live' = live

(* set_object_script, Intent::SetScript: the state stays.                     *)
WithSource(o, s) == [objs[o] EXCEPT !.source = s, !.enabled = TRUE]
SetScript(o, s) == Edit(o, WithSource(o, s)) /\ BumpStruct

(* ClearScript, @rmprogram, @rmscript: the state goes, too.                   *)
ClearScript(o) ==
    /\ Edit(o, [objs[o] EXCEPT !.source = NoSource, !.enabled = TRUE, !.state = 0])
    /\ BumpStruct

(* add_tag, remove_tag.  Mutant: it is an edit like any other.                *)
Retag_NoBump(o) == Edit(o, [objs[o] EXCEPT !.global = ~@]) /\ UNCHANGED <<derived, bypassed>>
Retag(o) == Edit(o, [objs[o] EXCEPT !.global = ~@]) /\ BumpStruct

(* set_object_archetype, where would_cycle_archetype lets it *)
SetArchetype(o, p) ==
    /\ p \in live /\ \A i \in DOMAIN Line(p) : Line(p)[i] # o
    /\ Edit(o, [objs[o] EXCEPT !.arch = p])
    /\ BumpStruct

(* detach_object: the state is its own, and stays.                            *)
Detached(o) ==
    [objs[o] EXCEPT !.arch = None,
                    !.global = IsGlobal(o),
                    !.interval = LET up == Line(o)
                                     set == {i \in DOMAIN up : up[i] \in live /\ objs[up[i]].interval # 0}
                                 IN  IF set = {} THEN 0 ELSE Interval(o),
                    !.source = FlattenedChainSource(o),
                    !.enabled = (@ \/ Authored(o) # {})]
Detach(o) == o \in live /\ objs[o].arch # None /\ Edit(o, Detached(o)) /\ BumpStruct

(* @script-interval, Intent::SetAttr of tick_interval                         *)
SetInterval(o, n) == Edit(o, [objs[o] EXCEPT !.interval = n]) /\ BumpStruct

(* @set of the same attribute bumps nothing, nor does transfer_attr of it.    *)
CmdSet(o, n) == Edit(o, [objs[o] EXCEPT !.interval = n]) /\ NoBump({o})
TransferAttr(o, p) ==
    /\ {o, p} \subseteq live /\ o # p /\ objs[o].interval # 0
    /\ \E m, n \in Intervals :
           Changes([objs EXCEPT ![o].interval = m, ![p].interval = n])
    /\ live' = live
    /\ NoBump({o, p})

(* @reload of a script the migration of an old table left disabled            *)
CmdReload(o) ==
    /\ o \in live /\ objs[o].source # NoSource
    /\ Edit(o, [objs[o] EXCEPT !.enabled = TRUE])
    /\ NoBump({o})

(* Content files write over what is there; @reload-world and @import start    *)
(* both lists afresh, the import over REST does not.                          *)
Rewritten(o) ==
    {WithSource(o, s) : s \in Sources}
    \cup {[objs[o] EXCEPT !.global = TRUE]}
    \cup {[objs[o] EXCEPT !.interval = n] : n \in Intervals}
Idle == late = NoList
ReloadWorld(o) == Idle /\ o \in live /\ \E new \in Rewritten(o) : Edit(o, new) /\ BumpStruct
ImportOverRest(o) == Idle /\ o \in live /\ \E new \in Rewritten(o) : Edit(o, new) /\ NoBump({o})

(* add_object: a clone, its script's state with it, or a new instance.        *)
NewRef(r) == r \notin live /\ objs[r] = Unborn
Clone(o, r) ==
    /\ o \in live \ Players /\ NewRef(r)
    /\ Changes([objs EXCEPT ![r] = [objs[o] EXCEPT !.global = FALSE]])
    /\ live' = live \cup {r}
    /\ BumpStruct
Spawn(p, l, r) ==
    /\ p \in live /\ l \in live \cap Homes /\ NewRef(r)
    /\ Changes([objs EXCEPT ![r] = Blank(p, l)])
    /\ live' = live \cup {r}
    /\ BumpStruct
(* remove_object *)
Destroy(o) ==
    /\ o \in live \ (Players \cup Homes) /\ \A i \in live : objs[i].arch # o
    /\ Changes(objs)
    /\ live' = live \ {o}
    /\ BumpStruct

(* relocate bumps version, and struct_version not.                            *)
Relocate(o, l) ==
    /\ o \in live \ {l} /\ l \in live \cap Homes /\ objs[o].home # l
    /\ l \in Players => o \notin Homes
    /\ Edit(o, [objs[o] EXCEPT !.home = l])
    /\ UNCHANGED <<derived, bypassed>>
-----------------------------------------------------------------------------
(* Ticks.  An on_tick run is given the state of the object it runs for, never *)
(* that of the archetype whose script it is; here it adds one to it.          *)

Remembers(o) ==
    /\ ObjectResponds(o, "on_tick")
    /\ objs[o].state < MaxState /\ \A q \in live \ {o} : objs[q].state = 0  \* bound
After(o) == objs[o].state + 1
WriteBackScriptState(o, s) ==
    /\ objs' = IF o \in live THEN [objs EXCEPT ![o].state = s] ELSE objs
    /\ offered' = NoList

(* do_tick runs what the indexes list, when its interval comes round (left    *)
(* open); fire_tick_hook_with_args delivers the effects of a run before it    *)
(* writes its state.                                                          *)
FireTick(o) ==
    /\ Idle
    /\ o \in DOMAIN Indexes /\ Indexes[o].ticks # {}
    /\ Consult
    /\ late' = IF o \in live /\ Remembers(o) THEN [of |-> o, state |-> After(o)] ELSE NoList
    /\ UNCHANGED <<live, objs, builders, offered, writes>>
DeliveryEnd ==
    /\ late # NoList
    /\ WriteBackScriptState(late.of, late.state)
    /\ late' = NoList
    /\ UNCHANGED <<live, builders, derived, bypassed, writes>>

(* fire_hook of on_tick, as a trigger or a command causes it: the state is    *)
(* written at once.  Mutant: the state of whoever has the script.             *)
FireHook_Delegated(o) ==
    /\ o \in live /\ ObjectResponds(o, "on_tick")
    /\ objs[ResolveScript(o, "on_tick")].state < MaxState
    /\ WriteBackScriptState(o, After(ResolveScript(o, "on_tick")))
    /\ UNCHANGED <<live, builders, derived, late, bypassed, writes>>
FireHook(o) ==
    /\ o \in live /\ Remembers(o)
    /\ WriteBackScriptState(o, After(o))
    /\ UNCHANGED <<live, builders, derived, late, bypassed, writes>>
-----------------------------------------------------------------------------
Behaviour ==
    \E o \in Scripted :
        \/ ClearScript(o) \/ Retag(o) \/ Detach(o) \/ CmdReload(o)
        \/ \E s \in Sources : SetScript(o, s)
        \/ \E p \in Scripted : TransferAttr(o, p)
        \/ \E p \in Refs : SetArchetype(p, o)
        \/ \E n \in Intervals : SetInterval(o, n) \/ CmdSet(o, n)
Files == \E o \in Scripted : ReloadWorld(o) \/ ImportOverRest(o)
Existence ==
    \E o \in Refs :
        \/ Destroy(o)
        \/ \E l \in Homes : Relocate(o, l)
        \/ o \in Scripted /\ \E r \in Refs : Clone(o, r) \/ (\E l \in Homes : Spawn(o, l, r))
Asking == \E p \in Players : SendCommands(p) \/ DispatchFallback(p) \/ Grant(p)
Ticking == DeliveryEnd \/ \E o \in Refs : FireTick(o) \/ FireHook(o)

Next == Behaviour \/ Files \/ Existence \/ Asking \/ Ticking
Spec == Init /\ [][Next]_vars
-----------------------------------------------------------------------------
(* The lists the engine keeps are what it would make afresh (world/mod.rs:33: *)
(* "every mutation that could change what those indexes contain must call     *)
(* bump_struct"), but for objects something that bumps nothing has changed,   *)
(* themselves or above them: @set, transfer_attr, @reload, an import over     *)
(* REST.                                                                      *)
Unbypassed(o) == LET up == Line(o) IN \A i \in DOMAIN up : up[i] \notin bypassed
IndexesFollow ==
    derived # NoList =>
        /\ DOMAIN derived = live
        /\ \A o \in live : Unbypassed(o) => derived[o] = [ticks |-> Ticks(o), serves |-> Serves(o)]

(* The commands offered are those that find somebody who answers, if the list *)
(* was made for the player himself.  One made for somebody else in the room   *)
(* is wrong only in what either of them carries or answers himself.           *)
Own(p) == {h \in Commands : \E o \in {p} \cup Within(p) : ObjectResponds(o, h)}
CommandsFollow ==
    \A p \in Players \cap live : Fits(p) =>
        \A h \in Commands \cup Builtin(TRUE) :
            \/ h \in offered.list <=> h \in Builtin(p \in builders) \/ (h \in Commands /\ Answering(p, h) # {})
            \/ offered.for # p /\ h \in Own(p) \cup Own(offered.for)

ListsFollow == live \subseteq Refs /\ objs \in [Refs -> Object] /\ IndexesFollow /\ CommandsFollow

(* Whatever hooks and commands come in between, what an object remembers is   *)
(* lost only with its script, and by the end of an on_tick run of the engine's*)
(* own tick, whose effects made the object run again (fire_tick_hook_with_args*)
(* writes after delivering, fire_hook_inner before).                          *)
StateKept ==
    [][\A o \in live \cap live' : objs'[o].state < objs[o].state =>
          \/ ClearScript(o)
          \/ DeliveryEnd /\ late.of = o]_vars

(* Detaching an object from its archetype changes neither what it answers nor *)
(* what its instances do, how often they tick, or whom they serve, unless one *)
(* of its scripts was disabled, or an instance's line is so long that the     *)
(* walk never saw its end (detach_object, flattened_chain_source).            *)
SeenWhole(q) == ArchetypeOf(Line(q)[MaxArchetypeDepth - 1]) = None
AllEnabled(o) == \A i \in DOMAIN Line(o) : Line(o)[i] \in live => objs[Line(o)[i]].enabled
DetachKeepsAnswers ==
    [][\A o \in live : Detach(o) /\ AllEnabled(o) =>
            \A q \in live : q = o \/ SeenWhole(q) =>
                /\ \A h \in HookNames : Answer(q, h)' = Answer(q, h)
                /\ Ticks(q)' = Ticks(q) /\ Serves(q)' = Serves(q)]_vars
=============================================================================
