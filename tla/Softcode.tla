------------------------------- MODULE Softcode -------------------------------
(* A script at work: the run of a hook or of @eval (softcode/mod.rs), the     *)
(* functions it calls (softcode/api.rs) and what becomes of its batch.        *)
(*                                                                            *)
(* Everything a script asks for is applied when it is done, or nothing is.    *)
(* Two things lie outside that transaction: the counter references are taken  *)
(* from, and the stories being told (softcode/ink.rs).                        *)
(*                                                                            *)
(* A repertoire is the set of the concrete calls [fn, t, k, v, r, a] the      *)
(* scripts of a behaviour are made of; t, r and a say how the script comes by *)
(* the objects (Denotes).  Repertoires keep unrelated functions apart for TLC.*)
EXTENDS Dungeon, SequencesExt

CONSTANTS
    Start, FirstId,     \* the world at first, and the first free reference
    Repertoires,
    This,               \* the object whose hook runs; it tells a story, too
    Actor,              \* the player it runs for
    MapFiles, Palette,  \* the maps under maps/, and terrain.toml
    Dungeons,           \* the zones dungeons may come to have
    Seed,               \* their seed
    ShippedVersions,    \* what lib/ may hold, [LibNames -> texts]
    MaxCalls, MaxRuns, MaxLevel, MaxStory   \* bounds

(* What an object and a template are made of *)
AttrValues == {Unset} \cup (Int \X Int)
Object ==
    [kind : STRING, key : STRING, loc : Nat, arch : Nat, target : Nat, owner : Nat, title : STRING,
     desc : STRING, attrs : [AttrKeys -> AttrValues], tags : SUBSET STRING,
     libs : [LibNames -> Texts \cup {NoText}]]
IsWorld(w) == IsFiniteSet(DOMAIN w) /\ DOMAIN w \subseteq Nat \ {Nobody} /\ w \in [DOMAIN w -> Object]
Terrains(f) == f \in [DOMAIN f -> [passable : BOOLEAN, arch : STRING, attrs : BOOLEAN]]
IsTemplate(tpl) ==
    /\ tpl \in [name : STRING, rows : Seq(Seq(STRING)), terrain : {tpl.terrain}, cells : {tpl.cells}]
    /\ Terrains(tpl.terrain)
    /\ tpl.cells \in [DOMAIN tpl.cells -> [fixed : STRING, passable : Seq(BOOLEAN), lock : BOOLEAN,
                                          things : Seq(STRING), encounters : BOOLEAN, tidy : BOOLEAN]]

(* The attributes the functions write by themselves *)
OwnKeys == {"gold", "pos", "blocked", "cell", "terrain", "encounters", "triggered", "seed", "layout", "story", "prompt"}
Ways ==
    {"none", "this", "actor", "here", "contents", "exits", "north", "carried", "sword", "chest", "mates", "found",
     "npcs", "near", "rich", "keyed", "named", "entrance", "returned", "made"}

(* A call a script can make: Lua gives each function what it asks for. *)
IsCall(c) ==
    /\ c \in [fn : STRING, t : Ways, k : STRING, v : Seq(Int), r : Ways, a : Ways]
    /\ c.fn \in {"set_attr", "assign_attr", "unset_attr", "clear_attr", "set_val", "transfer_attr"} => c.k \in AttrKeys
    /\ c.fn \in {"set_attr", "assign_attr"} => c.v \in AttrValues
    /\ c.fn = "set_val" => c.v \in {1, 2} \X Int
    /\ c.fn = "transfer_attr" => c.v \in Int \X Int
    /\ c.fn = "spawn_as" => c.v[1] \in Nat \ {Nobody}
    /\ c.fn \in {"set_lib", "require"} => c.k \in LibNames
    /\ c.fn = "set_lib" => c.v[1] \in Texts
    /\ c.fn = "ink_goto" => c.v[1] \in Nat \ {0}
    /\ c.fn \in {"set_title", "assign_title"} => c.k # NoWord     \* NoWord is None, not the empty text

ASSUME SoftcodeAssumption ==
    /\ IsFiniteSet(AttrKeys) /\ OwnKeys \subseteq AttrKeys /\ AttrKeys \subseteq STRING
    /\ IsFiniteSet(LibNames) /\ LibNames \subseteq STRING /\ Texts \subseteq Nat \ {NoText}
    /\ Needs \in [Texts -> Seq(LibNames)] /\ ShippedVersions \subseteq [LibNames -> Texts \cup {NoText}]
    /\ IsWorld(Start) /\ FirstId \in Nat \ {Nobody} /\ \A r \in DOMAIN Start : r < FirstId
    /\ {This, Actor} \subseteq Nat \ {Nobody}
    /\ \A f \in MapFiles : IsTemplate(f)
    /\ Terrains(Palette)
    /\ Dungeons \subseteq Seq([rooms : Nat \ {0}, narrow : SUBSET Nat, fights : SUBSET Nat])
    /\ Seed \in Int \X Int
    /\ \A rep \in Repertoires : \A c \in rep : IsCall(c)
    /\ {MaxContainerDepth, ArchetypeDepth, MaxCalls, MaxRuns, MaxLevel, MaxStory} \subseteq Nat

VARIABLES
    world,              \* [reference -> object]
    nextId,             \* World::next_id
    running,            \* "no", "hook" or "eval"
    level,              \* how deep pass() has gone
    batch, counter,     \* the running script's intents and its reference counter
    told,               \* how far the story being told is, 0 if none is
    templates,          \* the maps as loaded, by name
    modules,            \* the host's tables of libraries
    repertoire, calls, runs,
    chosen              \* history: references a script chose by itself

script == <<running, level, batch, counter>>
vars == <<world, nextId, script, told, templates, modules, repertoire, calls, runs, chosen>>

Init ==
    /\ world = Start /\ nextId = FirstId
    /\ running = "no" /\ level = 0 /\ batch = <<>> /\ counter = FirstId
    /\ told = 0
    /\ templates \in BuildTemplates(MapFiles, Palette)
    /\ modules = FreshModules([n \in LibNames |-> NoText])
    /\ repertoire \in Repertoires /\ calls = 0 /\ runs = 0
    /\ chosen = {}

Room == LocationOf(world, Actor)    \* default_location
-----------------------------------------------------------------------------
(* Runs.                                                                      *)

Begins(how, deep) ==
    /\ running = "no" /\ runs < MaxRuns
    /\ running' = how /\ level' = deep
    /\ batch' = <<>> /\ counter' = nextId
    /\ runs' = runs + 1
    /\ modules' \in SyncUserLibSources(world, modules)
    /\ UNCHANGED <<world, nextId, told, templates, repertoire, calls, chosen>>

(* run_hook, run_eval *)
RunHook == Exists(world, This) /\ Begins("hook", 1)
RunEval == Begins("eval", 0)

(* pass(): the hook of the archetype above the one running (run_hook_level),  *)
(* with the same batch and counter.  Its return and its error, if the caller  *)
(* catches that, leave what it has recorded.                                  *)
Pass ==
    /\ running = "hook" /\ level < MaxLevel
    /\ Exists(world, Line(world, This)[level])
    /\ level' = level + 1
    /\ UNCHANGED <<world, nextId, running, batch, counter, told, templates, modules, repertoire, calls, runs, chosen>>
Return ==
    /\ level > 1
    /\ level' = level - 1
    /\ UNCHANGED <<world, nextId, running, batch, counter, told, templates, modules, repertoire, calls, runs, chosen>>

Ends(w, next, m) ==
    /\ world' = w /\ nextId' = next
    /\ running' = "no" /\ level' = 0
    /\ batch' = <<>> /\ counter' = next
    /\ modules' = m
    /\ UNCHANGED <<told, templates, repertoire, calls, runs, chosen>>

(* An error nobody catches; a preview, whose batch only dry_run sees          *)
Dies == running # "no" /\ Ends(world, nextId, modules)

(* The end of fire_hook_inner and of @eval: the counter is kept with the      *)
(* batch, and lost with it.                                                   *)
Finish ==
    /\ running # "no" /\ level <= 1
    /\ \E done \in {Apply(world, batch)} :
           IF done.ok THEN Ends(done.w, counter, InvalidateLibsTouchedBy(batch, modules))
           ELSE Ends(world, nextId, modules)
-----------------------------------------------------------------------------
(* How a script comes by an object: what it was called with, what a reading   *)
(* function gives it, what it has just made (Handed).                         *)
Denotes(way) ==
    CASE way = "none" -> {Nobody}
      [] way = "this" -> {This}
      [] way = "actor" -> {Actor}
      [] way = "here" -> GetLocation(world, Actor)
      [] way = "contents" -> GetRoomContents(world, Room)
      [] way = "exits" -> ExitsFrom(world, Room)
      [] way = "north" -> FindExit(world, Room, "north")
      [] way = "carried" -> GetContents(world, Actor)
      [] way = "sword" -> FindInInventory(world, Actor, "sword")
      [] way = "chest" -> {o \in FindInRoom(world, Room, "chest") : IsContainer(world, o)}
      [] way = "mates" -> {p \in PlayersInRoom(world, Room) : p # Actor /\ SameRoom(world, p, Actor)}
      [] way = "found" -> FindPlayer(world, "bob")
      [] way = "npcs" -> AllByKind(world, "npc")
      [] way = "near" -> Nearby(world, Room, <<0, 0>>, 1)
      [] way = "rich" -> FindByAttr(world, "gold", <<2, 0>>)
      [] way = "keyed" -> IF IsCarrying(world, Actor, "key") THEN {Actor} ELSE {}
      [] way = "named" -> BareRefs(world, This)
      [] way = "entrance" -> FindByTag(world, "dungeon:entrance")
      [] way = "returned" -> {i.t : i \in {x \in Range(batch) : x.op = "tag" /\ x.k = "dungeon:entrance"}}
      [] way = "made" -> Handed(batch)

Says(fn) == {c \in repertoire : c.fn = fn}

(* A call that reads, pushes intents, or takes references *)
Called(intents, next, picks) ==
    /\ running # "no" /\ calls < MaxCalls
    /\ batch' = batch \o intents
    /\ counter' = next
    /\ chosen' = chosen \cup picks
    /\ calls' = calls + 1
    /\ UNCHANGED <<world, nextId, running, level, told, templates, modules, repertoire, runs>>
Asks(fn, For(_, _, _, _)) ==
    \E c \in Says(fn) : \E t \in Denotes(c.t), r \in Denotes(c.r), a \in Denotes(c.a) :
        Called(For(c, t, r, a), counter, {})
Makes(fn, For(_, _, _)) ==
    \E c \in Says(fn) : \E r \in Denotes(c.r), a \in Denotes(c.a) :
        Called(For(c, r, a), counter + 1, {})
-----------------------------------------------------------------------------
(* Attributes, names, tags.                                                   *)
SetAttr == Asks("set_attr", LAMBDA c, t, r, a : <<I("attr", t, c.k, c.v, Nobody, Nobody)>>)
UnsetAttr == Asks("unset_attr", LAMBDA c, t, r, a : <<I("attr", t, c.k, Unset, Nobody, Nobody)>>)
ClearAttr == Asks("clear_attr", LAMBDA c, t, r, a : <<I("attr", t, c.k, Unset, Nobody, Nobody)>>)

(* handle.title = text, handle.description = text; handle.attrs.key = value   *)
AssignField ==
    \/ Asks("assign_title", LAMBDA c, t, r, a : <<I("title", t, c.k, Unset, Nobody, Nobody)>>)
    \/ Asks("assign_description", LAMBDA c, t, r, a : <<I("desc", t, c.k, Unset, Nobody, Nobody)>>)
AssignAttr == Asks("assign_attr", LAMBDA c, t, r, a : <<I("attr", t, c.k, c.v, Nobody, Nobody)>>)

(* for key, value in pairs(handle.attrs) do set_attr(other, key, value) end:  *)
(* iterating shows the world as it was when the script began.                 *)
CopyAttrs ==
    Asks("copy_attrs", LAMBDA c, t, r, a :
        LET has == Fields(world, r).attrs
            keys == SetToSeq({k \in AttrKeys : has[k] # Unset})
        IN  [i \in DOMAIN keys |-> I("attr", t, keys[i], has[keys[i]], Nobody, Nobody)])

(* set_val: one slot of a nested value, the rest as the world has it.         *)
SetNested(root, slot, x) == [(IF root = Unset THEN <<0, 0>> ELSE root) EXCEPT ![slot] = x]
SetVal ==
    Asks("set_val", LAMBDA c, t, r, a :
        <<I("attr", t, c.k, SetNested(ResolvedAttr(world, t, c.k), c.v[1], c.v[2]), Nobody, Nobody)>>)

SetTitle == Asks("set_title", LAMBDA c, t, r, a : <<I("title", t, c.k, Unset, Nobody, Nobody)>>)
SetDescription == Asks("set_description", LAMBDA c, t, r, a : <<I("desc", t, c.k, Unset, Nobody, Nobody)>>)
SetTag == Asks("set_tag", LAMBDA c, t, r, a : <<I("tag", t, c.k, Unset, Nobody, Nobody)>>)
UnsetTag == Asks("unset_tag", LAMBDA c, t, r, a : <<I("untag", t, c.k, Unset, Nobody, Nobody)>>)
Prompt == Asks("prompt", LAMBDA c, t, r, a : <<I("attr", t, "prompt", <<r, 1>>, Nobody, Nobody)>>)
TransferAttr ==
    Asks("transfer_attr", LAMBDA c, t, r, a : <<I("transfer", t, c.k, c.v, r, Nobody)>>)

(* What only has to name an object that is there: aliases, locks, scripts,    *)
(* libraries, templates, messages, triggers, timers, forced commands.         *)
SetAliases == Asks("set_aliases", LAMBDA c, t, r, a : <<I("effect", t, "aliases", Unset, Nobody, Nobody)>>)
SetLock == Asks("set_lock", LAMBDA c, t, r, a : <<I("effect", t, "lock", Unset, Nobody, Nobody)>>)
SetScript == Asks("set_script", LAMBDA c, t, r, a : <<I("effect", t, "script", Unset, Nobody, Nobody)>>)
ApplyTemplate == Asks("apply_template", LAMBDA c, t, r, a : <<I("effect", t, "script", Unset, Nobody, Nobody)>>)
SetLib == Asks("set_lib", LAMBDA c, t, r, a : <<I("lib", t, c.k, c.v, Nobody, Nobody)>>)

(* require: an error the script may catch leaves what was loaded on the way.  *)
CallRequire ==
    \E c \in Says("require") :
        /\ running # "no" /\ calls < MaxCalls
        /\ modules' = Require[<<c.k, {}, [ok |-> TRUE, m |-> modules]>>].m
        /\ calls' = calls + 1
        /\ UNCHANGED <<world, nextId, script, told, templates, repertoire, runs, chosen>>
Trigger == Asks("trigger", LAMBDA c, t, r, a : <<I("effect", t, "trigger", Unset, r, Nobody)>>)
After == Asks("after", LAMBDA c, t, r, a : <<I("effect", t, "after", Unset, Nobody, Nobody)>>)
CancelAfter == Asks("cancel_after", LAMBDA c, t, r, a : <<I("effect", t, "cancel", Unset, Nobody, Nobody)>>)
RunCommandAs == Asks("run_command_as", LAMBDA c, t, r, a : <<I("command", t, c.k, Unset, Nobody, Nobody)>>)
Emit == Asks("emit", LAMBDA c, t, r, a : <<I("effect", t, "emit", Unset, Nobody, Nobody)>>)
EmitNearby == Asks("emit_nearby", LAMBDA c, t, r, a : <<I("nearby", t, "emit", Unset, Nobody, Nobody)>>)
-----------------------------------------------------------------------------
(* Things and places.                                                         *)
MoveObject == Asks("move_object", LAMBDA c, t, r, a : <<I("move", t, NoWord, Unset, r, Nobody)>>)
UpdateExit == Asks("update_exit", LAMBDA c, t, r, a : <<I("update", t, c.k, Unset, r, Nobody)>>)
Destroy == Asks("destroy", LAMBDA c, t, r, a : <<I("destroy", t, NoWord, Unset, Nobody, Nobody)>>)
Clone == Asks("clone", LAMBDA c, t, r, a : <<I("detach", t, NoWord, Unset, Nobody, Nobody)>>)
SetOwner == Asks("set_owner", LAMBDA c, t, r, a : <<I("owner", t, NoWord, Unset, r, Nobody)>>)
SetArchetype == Asks("set_archetype", LAMBDA c, t, r, a : <<I("arch", t, NoWord, Unset, r, Nobody)>>)

CloneObject == Makes("clone_object", LAMBDA c, r, a : <<I("clone", counter, NoWord, Unset, r, a)>>)
CreateExit == Makes("create_exit", LAMBDA c, r, a : <<I("exit", counter, c.k, Unset, r, a)>>)

(* spawn: where nothing is said and it is no room, where the actor is.  The   *)
(* archetype has to be there already.                                         *)
SpawnIn(c, r) == IF r = Nobody /\ c.k # "room" THEN Room ELSE r
Spawn ==
    \E c \in Says("spawn") : \E r \in Denotes(c.r), a \in Denotes(c.a) :
        /\ ThereOrNobody(world, a)
        /\ Called(<<I("spawn", counter, c.k, Unset, SpawnIn(c, r), a)>>, counter + 1, {})
(* spawn with the option `ref` *)
SpawnAs ==
    \E c \in Says("spawn_as") : \E r \in Denotes(c.r) :
        Called(<<I("spawn", c.v[1], c.k, Unset, SpawnIn(c, r), Nobody)>>, counter, {c.v[1]})

(* Whole regions, in the name of the room the actor is in.  Mutant: the       *)
(* counter stays where it was.                                                *)
Region_CounterKept(made) == made.ok /\ Called(made.intents, counter, {})
Region(made) == made.ok /\ Called(made.intents, made.next, {})
GenerateDungeon ==
    /\ Says("generate_dungeon") # {} /\ Room # Nobody
    /\ \E zones \in Dungeons : \E made \in {Generate(zones, Seed, counter, Room)} : Region(made)
InstantiateMap ==
    /\ Says("instantiate_map") # {} /\ Room # Nobody
    /\ \E n \in DOMAIN templates :
           \E made \in {Instantiate(world, templates[n], counter, Room)} : Region(made)
CallDestroyDungeon == Asks("destroy_dungeon", LAMBDA c, t, r, a : DestroyDungeon(world, Seed))

(* The two hooks a dungeon's rooms bring with them *)
CallOnExpire == Asks("on_expire", LAMBDA c, t, r, a : OnExpire(batch, world, t))
CallOnEnter == Asks("on_enter", LAMBDA c, t, r, a : OnEnter(batch, world, Actor, Room))

CallGridMove ==
    \E n \in DOMAIN templates :
        Asks("grid_move", LAMBDA c, t, r, a : GridMove(world, templates[n], t, c.k))
-----------------------------------------------------------------------------
(* Stories.  One is told by This to Actor; how far it has come is saved in an *)
(* attribute of This, for the actor.  What they do is done at once.           *)
Tells(intents, far) ==
    /\ running # "no" /\ calls < MaxCalls
    /\ told' = far
    /\ batch' = batch \o intents
    /\ calls' = calls + 1
    /\ UNCHANGED <<world, nextId, running, level, counter, templates, modules, repertoire, runs, chosen>>

(* ink_start: over what is being told, from what is saved unless told not to. *)
(* load_state refuses what is no place in a story: nothing has changed then.  *)
IsPlace(v) == v # Unset /\ v[1] \in Nat \ {0}
InkStart ==
    \E c \in Says("ink_start") :
        /\ Exists(world, This)
        /\ \E saved \in {IF c.k = "resume" THEN world[This].attrs["story"] ELSE Unset} :
               /\ saved = Unset \/ IsPlace(saved)
               /\ Tells(<<>>, IF saved = Unset THEN 1 ELSE saved[1])
InkContinue == Says("ink_continue") # {} /\ told # 0 /\ Tells(<<>>, told)
InkChoose == Says("ink_choose") # {} /\ told \in 1..(MaxStory - 1) /\ Tells(<<>>, told + 1)
InkGoto == \E c \in Says("ink_goto") : told # 0 /\ Tells(<<>>, c.v[1])
InkSetVar == Says("ink_set_var") # {} /\ told # 0 /\ Tells(<<>>, told)

(* ink_end: mutant, the story is ended before it is saved.                    *)
InkEnd_Forgets == \E c \in Says("ink_end") : Tells(<<>>, 0)
InkEnd ==
    \E c \in Says("ink_end") :
        Tells(IF c.k = "save" /\ told # 0
              THEN <<I("attr", This, "story", <<told, 0>>, Nobody, Nobody)>> ELSE <<>>, 0)
-----------------------------------------------------------------------------
(* Between scripts.                                                           *)

Between(w, m) ==
    /\ running = "no"
    /\ world' = w /\ modules' = m
    /\ UNCHANGED <<nextId, script, templates, repertoire, calls, runs, chosen>>

(* do_move: through an exit, unless something holds the player.               *)
Walk ==
    \E x \in ExitsFrom(world, Room) :
        /\ "walk" \in {c.fn : c \in repertoire}
        /\ world[Actor].attrs["blocked"] = Unset
        /\ Exists(world, world[x].target)
        /\ Between([world EXCEPT ![Actor].loc = world[x].target], modules)
        /\ UNCHANGED told

(* handle_disconnect: the player's stories are over (cleanup_player).         *)
Disconnect ==
    /\ Says("leave") # {} /\ "offline" \notin world[Actor].tags
    /\ Between([world EXCEPT ![Actor].tags = @ \cup {"offline"}], modules)
    /\ told' = 0
Reconnect ==
    /\ Says("leave") # {} /\ "offline" \in world[Actor].tags
    /\ Between([world EXCEPT ![Actor].tags = @ \ {"offline"}], modules)
    /\ UNCHANGED told

(* Libraries change hands outside scripts, too: SetLib of the REST interface, *)
(* @reload-world, and an import over REST, which drops nothing that is kept.  *)
WriteLib ==
    \E c \in Says("set_lib") : \E o \in Denotes(c.t) \cap DOMAIN world :
        /\ told' = told
        /\ Between([world EXCEPT ![o].libs[c.k] = c.v[1]], InvalidateModuleCache(modules))
ReloadModules ==
    \E shipped \in ShippedVersions :
        /\ Says("require") # {} /\ told' = told
        /\ Between(world, FreshModules(shipped))
ImportOverRest ==
    \E c \in Says("set_lib") : \E o \in Denotes(c.t) \cap DOMAIN world :
        /\ told' = told
        /\ Between([world EXCEPT ![o].libs[c.k] = c.v[1]], modules)
-----------------------------------------------------------------------------
Run == RunHook \/ RunEval \/ Pass \/ Return \/ Dies \/ Finish
Values ==
    \/ SetAttr \/ UnsetAttr \/ ClearAttr \/ AssignField \/ AssignAttr \/ CopyAttrs \/ SetVal \/ SetTitle \/ SetDescription
    \/ SetTag \/ UnsetTag \/ Prompt \/ TransferAttr
Effects ==
    \/ SetAliases \/ SetLock \/ SetScript \/ ApplyTemplate \/ SetLib \/ Trigger \/ After
    \/ CancelAfter \/ RunCommandAs \/ Emit \/ EmitNearby
Places ==
    \/ MoveObject \/ UpdateExit \/ Destroy \/ Clone \/ SetOwner \/ SetArchetype \/ CloneObject
    \/ CreateExit \/ Spawn \/ SpawnAs \/ GenerateDungeon \/ InstantiateMap
    \/ CallDestroyDungeon \/ CallOnExpire \/ CallOnEnter \/ CallGridMove
Stories == InkStart \/ InkContinue \/ InkChoose \/ InkGoto \/ InkSetVar \/ InkEnd

Libraries == CallRequire \/ WriteLib \/ ReloadModules \/ ImportOverRest

Next ==
    Run \/ Values \/ Effects \/ Places \/ Stories \/ Libraries \/ Walk \/ Disconnect \/ Reconnect

Spec == Init /\ [][Next]_vars
-----------------------------------------------------------------------------
(* Properties.                                                                *)

(* What a script reads back of its own writes (get_attr, attrs, has_attr,     *)
(* pick, title, description) is what the world will say of the objects it     *)
(* wrote to, once its batch is applied.  Left out: batches that transfer or   *)
(* change archetypes, objects that are destroyed and made again, or whose     *)
(* archetypes the batch touches, or are more than the walk sees; has_attr and *)
(* pick of what is unset over an archetype that has it; an empty description. *)
ReadsSeeOwnWrites ==
    \A done \in {Apply(world, batch)} :
        (done.ok /\ \A i \in DOMAIN batch : batch[i].op \notin {"transfer", "arch", "detach"}) =>
            \A o \in {batch[i].t : i \in DOMAIN batch} \cap DOMAIN world \cap DOMAIN done.w :
                (/\ \A j \in 1..ArchetypeDepth : \A i \in DOMAIN batch : batch[i].t # Line(world, o)[j]
                 /\ ~Exists(world, Line(world, o)[ArchetypeDepth])
                 /\ \A i \in DOMAIN batch : batch[i].op = "destroy" => batch[i].t # o) =>
                    /\ TitleOf(batch, world, o) = ResolvedTitle(done.w, o)
                    /\ DescriptionOf(batch, world, o) \in {NoWord, ResolvedDescription(done.w, o)}
                    /\ \A k \in AttrKeys :
                           /\ GetAttr(batch, world, o, k) = ResolvedAttr(done.w, o, k)
                           /\ HasAttr(batch, world, o, k) =>
                                 \A slot \in 1..2 : Pick(batch, world, o, k, slot)
                                                     = <<ResolvedAttr(done.w, o, k)[slot]>>

(* A reference is handed out once: no two things a script makes share one,    *)
(* and none is that of something in the world, whatever mixture of spawn,     *)
(* clone_object, create_exit, generate_dungeon and instantiate_map made them. *)
(* Only a reference a script chose itself (spawn's `ref`) may collide.        *)
Making(b) == {i \in DOMAIN b : b[i].op \in {"spawn", "exit", "clone"} /\ b[i].t \notin chosen}
HandedOutOnce ==
    \A i \in Making(batch) :
        /\ batch[i].t \notin DOMAIN world
        /\ \A j \in Making(batch) \ {i} : batch[i].t # batch[j].t

(* However many transfer_attr a script makes between however many objects,    *)
(* with however large or negative amounts, what there is of the attribute     *)
(* stays the same.  Only a transfer to oneself makes or destroys it.          *)
Total(w) == MapThenSumSet(LAMBDA o : IF w[o].attrs["gold"] = Unset THEN 0 ELSE Amount(w, o, "gold"),
                          DOMAIN w)
OnlyTransfers(b) == \A i \in DOMAIN b : b[i].op = "transfer" /\ b[i].t # b[i].r
TransfersConserve ==
    [][(running # "no" /\ running' = "no" /\ OnlyTransfers(batch)) => Total(world') = Total(world)]_vars

(* The rooms of a map, the exits between them, grid_can_move and              *)
(* get_map_template tell of the same places: a room has an exit to the next   *)
(* cell if and only if one may step there.  Left out: cells whose override    *)
(* has an untidy key, and maps a script has taken apart.                      *)
CellOf(r) == world[r].attrs["cell"]
MapRooms(n) == {r \in DOMAIN world : n \in world[r].tags /\ CellOf(r) # Unset}
ExitsAgree(tpl, r, dir, to) ==
    (\E x \in ExitsFrom(world, r) :
        world[x].key = dir /\ Exists(world, world[x].target) /\ CellOf(world[x].target) = to)
    <=> GridCanMove(tpl, CellOf(r)[1], CellOf(r)[2], dir)
PlacesAgree ==
    \A n \in DOMAIN templates : LET tpl == templates[n] IN
        \A r \in MapRooms(n), dir \in Directions :
            LET to == ResolveGridStep(tpl, CellOf(r)[1], CellOf(r)[2], dir).to IN
            Override(tpl, to[1], to[2]).tidy =>
                /\ ExitsAgree(tpl, r, dir, to)
                /\ GridCanMove(tpl, CellOf(r)[1], CellOf(r)[2], dir) <=>
                       (to \in DOMAIN TemplateCells(tpl) /\ TemplateCells(tpl)[to] = <<TRUE>>)

(* What require has at hand and what it has kept is made of texts the         *)
(* libraries still have, those of the libraries they required among them.  It *)
(* becomes stale only when a script destroys objects, the one that carried a  *)
(* library perhaps, and when an import over REST replaces a library.          *)
ModulesFollow ==
    [][(UpToDate(world, modules) /\ ~UpToDate(world', modules')) =>
        \/ \E i \in DOMAIN batch : batch[i].op = "destroy"
        \/ ImportOverRest]_vars

(* From the entrance of a dungeon every one of its rooms can be walked to,    *)
(* and the entrance from every room, through all zones; and no two exits of   *)
(* a room have the same name.                                                 *)
Leads(w, rooms) ==
    LET next(s) == s \cup {w[x].target : x \in {e \in DOMAIN w : w[e].kind = "exit" /\ w[e].loc \in s}}
        upTo[n \in 0..Cardinality(OfDungeon(w, Seed))] == IF n = 0 THEN rooms ELSE next(upTo[n - 1])
    IN  upTo[Cardinality(OfDungeon(w, Seed))]
DungeonsHangTogether ==
    LET rooms == OfDungeon(world, Seed)
        entrances == {r \in rooms : "dungeon:entrance" \in world[r].tags}
    IN  /\ rooms \subseteq Leads(world, entrances)
        /\ \A r \in rooms : Leads(world, {r}) \cap entrances # {}
        /\ \A r \in rooms : \A x, y \in ExitsFrom(world, r) : world[x].key = world[y].key => x = y

(* Generated places are whole: what one way of asking tells of them is what   *)
(* another tells, and every part can be reached.                              *)
PlacesHangTogether == PlacesAgree /\ DungeonsHangTogether

(* How far a story has come is lost only if the script starts another over    *)
(* it, goes elsewhere in it or ends it without saving, if the player leaves,  *)
(* if the script that ended it comes to nothing, if the story was begun anew  *)
(* and is saved over one that was further, or if a script destroys who tells  *)
(* it, or changes by itself the attribute it is kept in.                      *)
SavedPoint ==
    LET i == LastWrite(batch, This, "story")
        v == IF i # 0 THEN batch[i].v ELSE IF Exists(world, This) THEN world[This].attrs["story"] ELSE Unset
    IN  IF IsPlace(v) THEN v[1] ELSE 0
Progress == Max({told, SavedPoint})
Meddles(x) == (x.op = "destroy" /\ x.t = This) \/ (x.op = "transfer" /\ x.k = "story")
StoryKept ==
    [][Progress' < Progress =>
        \/ (InkStart /\ told # 0)
        \/ InkGoto
        \/ ((\E c \in Says("ink_end") : c.k # "save") /\ told' = 0 /\ batch' = batch)
        \/ (InkEnd /\ told \in 1..(SavedPoint - 1))
        \/ Disconnect
        \/ (LastWrite(batch, This, "story") # 0 /\ running' = "no" /\ world' = world)
        \/ (LastWrite(batch, This, "story") < LastWrite(batch', This, "story") /\ ~InkEnd)
        \/ (running' = "no" /\ \E i \in DOMAIN batch : Meddles(batch[i]))]_vars
=============================================================================
