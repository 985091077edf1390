------------------------------ MODULE MCSoftcode ------------------------------
(* A hall with two players, a keeper with an archetype, a chest, a sword and  *)
(* an exit to a square; a 3 x 2 map and dungeons of one and of two zones.     *)
(* The pure algorithms scripts call are compared with what they are for on    *)
(* all small inputs, by the assumptions at the end.                           *)
EXTENDS Softcode, Sound, TLC
G == INSTANCE Grid

Hall == 1
Alice == 2
Bob == 3
Keeper == 4
KeeperKind == 5
Chest == 6
Sword == 7
North == 8
Square == 9
Terrain == 10

Keys == {"gold", "bag", "pos", "blocked", "cell", "terrain", "encounters", "triggered",
         "seed", "layout", "story", "prompt"}
Thing(kind, key, loc) == [Blank(kind, key, loc) EXCEPT !.title = key]
MCStart ==
    Hall :> Thing("room", "hall", Nobody)
    @@ Alice :> [Thing("player", "alice", Hall) EXCEPT !.attrs["gold"] = <<2, 0>>, !.attrs["pos"] = <<0, 0>>]
    @@ Bob :> [Thing("player", "bob", Hall) EXCEPT !.tags = {"troupe"}]
    @@ Keeper :> [Blank("npc", "keeper", Hall) EXCEPT !.arch = KeeperKind, !.attrs["gold"] = <<1, 0>>,
                                                     !.attrs["story"] = <<2, 0>>,
                                                     !.libs = ("first" :> 1 @@ "second" :> 2)]
    @@ KeeperKind :> [Thing("npc", "kind", Nobody) EXCEPT !.attrs["bag"] = <<3, 4>>, !.desc = "gruff"]
    @@ Chest :> [Thing("item", "chest", Hall) EXCEPT !.tags = {"container"}]
    @@ Sword :> [Thing("item", "sword", Alice) EXCEPT !.tags = {"key"}, !.owner = Bob]
    @@ North :> [Thing("exit", "north", Hall) EXCEPT !.target = Square]
    @@ Square :> [Thing("room", "square", Nobody) EXCEPT !.tags = {"wild/square"}]
    @@ Terrain :> [Thing("item", "grass", Nobody) EXCEPT !.tags = {"wild/grass"}]

(* Two files draw the wild; one has a cell nobody knows the terrain of.       *)
Grass == [passable |-> TRUE, arch |-> "wild/grass", attrs |-> TRUE]
Water == [passable |-> FALSE, arch |-> "", attrs |-> FALSE]
Drawing ==
    [name |-> "wild", rows |-> <<<<".", ".", "~">>, <<".", " ", "~">>>>, terrain |-> "." :> Grass,
     cells |-> <<0, 0>> :> [Plain EXCEPT !.fixed = "wild/square", !.things = <<"item">>]
               @@ <<1, 0>> :> [Plain EXCEPT !.lock = TRUE, !.encounters = TRUE]
               @@ <<0, 1>> :> [Plain EXCEPT !.passable = <<FALSE>>, !.tidy = FALSE]
               @@ <<2, 1>> :> [Plain EXCEPT !.passable = <<TRUE>>]]
Redrawn == [Drawing EXCEPT !.rows = <<<<".", ".", "?">>, <<".", " ", "~">>>>]
MCMapFiles == {Drawing, Redrawn}
MCPalette == "~" :> Water

MCDungeons ==
    {<<[rooms |-> 3, narrow |-> {2}, fights |-> {2}]>>,
     <<[rooms |-> 2, narrow |-> {1}, fights |-> {}], [rooms |-> 2, narrow |-> {}, fights |-> {}]>>}
MCSeed == <<9, 9>>
-----------------------------------------------------------------------------
C(fn, t, k, v, r, a) == [fn |-> fn, t |-> t, k |-> k, v |-> v, r |-> r, a |-> a]
On(fn, t, k, v) == C(fn, t, k, v, "none", "none")

ValueCalls ==
    {On("set_attr", "this", "bag", <<5, 5>>), On("unset_attr", "this", "bag", Unset),
     On("assign_attr", "npcs", "gold", <<7, 7>>), On("set_val", "this", "bag", <<2, 9>>)}
TextCalls ==
    {On("clear_attr", "actor", "gold", Unset), On("assign_title", "keyed", "lady", Unset),
     On("set_title", "this", "host", Unset), On("assign_description", "this", "kind", Unset),
     On("set_description", "this", "", Unset), C("copy_attrs", "mates", "", Unset, "this", "none")}
GoldCalls ==
    {C("transfer_attr", "rich", "gold", <<1, 0>>, "npcs", "none"),
     C("transfer_attr", "this", "gold", <<-3, 0>>, "mates", "none"),
     C("transfer_attr", "this", "gold", <<2, 0>>, "actor", "none"),
     C("transfer_attr", "actor", "gold", <<1, 0>>, "actor", "none")}
MakeCalls ==
    {C("spawn", "none", "item", Unset, "none", "this"), C("spawn", "none", "room", Unset, "here", "none"),
     C("spawn_as", "none", "item", <<12>>, "carried", "none"),
     C("clone_object", "none", "", Unset, "chest", "none"),
     C("clone_object", "none", "", Unset, "made", "here"),
     C("create_exit", "none", "down", Unset, "here", "named")}
ThingCalls ==
    {C("move_object", "sword", "", Unset, "chest", "none"), C("move_object", "found", "", Unset, "made", "none"),
     On("destroy", "contents", "", Unset), C("spawn", "none", "room", Unset, "here", "none"),
     C("set_archetype", "this", "", Unset, "npcs", "none"), On("clone", "this", "", Unset)}
DoorCalls ==
    {C("update_exit", "north", "up", Unset, "none", "none"), C("update_exit", "exits", "", Unset, "here", "none"),
     C("set_owner", "near", "", Unset, "actor", "none")}
TagCalls ==
    {C("prompt", "actor", "", Unset, "this", "none"),
     On("set_tag", "here", "lit", Unset), On("unset_tag", "carried", "key", Unset)}
Call(fn) == On(fn, "this", "", Unset)
EffectCalls ==
    {{Call("set_aliases"), Call("set_lock")},
     {On("set_script", "made", "", Unset), On("set_script", "this", "", Unset), Call("apply_template")},
     {Call("trigger"), Call("after"), Call("cancel_after")},
     {On("run_command_as", "contents", "look", Unset), Call("emit"), Call("emit_nearby")}}
MapCalls ==
    {Call("instantiate_map"), On("grid_move", "actor", "east", Unset), On("grid_move", "actor", "south", Unset),
     On("grid_move", "actor", "west", Unset), C("spawn", "none", "item", Unset, "here", "none"), Call("walk")}
DungeonCalls ==
    {Call("generate_dungeon"), C("move_object", "actor", "", Unset, "returned", "none"),
     C("move_object", "actor", "", Unset, "entrance", "none"), On("on_enter", "actor", "", Unset), Call("walk")}
RazingCalls ==
    {Call("generate_dungeon"), C("move_object", "actor", "", Unset, "returned", "none"),
     On("on_expire", "entrance", "", Unset), Call("destroy_dungeon"), Call("walk"), Call("leave")}
StoryCalls ==
    {On("ink_start", "none", "resume", Unset), Call("ink_continue"), Call("ink_choose"),
     On("ink_end", "none", "save", Unset), Call("leave")}
DroppedCalls ==
    {On("ink_start", "none", "resume", Unset), On("ink_start", "none", "fresh", Unset), Call("ink_choose"),
     On("ink_goto", "none", "", <<1>>), Call("ink_set_var"), On("ink_end", "none", "save", Unset),
     On("ink_end", "none", "drop", Unset)}
(* The keeper carries two libraries, the first of which requires the second,  *)
(* or, rewritten, is required by it.                                          *)
LibCalls ==
    {On("set_lib", "this", "second", <<3>>), On("set_lib", "this", "first", <<4>>), On("require", "none", "first", Unset),
     On("require", "none", "second", Unset), C("clone_object", "none", "", Unset, "this", "none"),
     On("destroy", "npcs", "", Unset)}
MCNeeds == <<<<"second">>, <<>>, <<"first">>, <<>>, <<>>>>
NoneShipped == [n \in {"first", "second"} |-> NoText]
MCShipped == {NoneShipped, [NoneShipped EXCEPT !["second"] = 5]}

MCRepertoires ==
    {ValueCalls, TextCalls, GoldCalls, MakeCalls, ThingCalls, DoorCalls, TagCalls, MapCalls, DungeonCalls,
     RazingCalls, StoryCalls, DroppedCalls, LibCalls}
    \cup EffectCalls
-----------------------------------------------------------------------------
Squares == G!Grids(2, 2) \cup G!Grids(3, 2)
ASSUME \A g \in Squares :
    G!AgreeOnPaths(g) /\ G!AgreeOnDistances(g) /\ G!AgreeOnFilling(g) /\ G!AgreeOnSight(g) /\ G!AgreeOnView(g, 2)

(* A sound among three rooms, each way clear, muffled, blocked or walled off  *)
Passages == {<<1, 2>>, <<2, 1>>, <<2, 3>>, <<1, 3>>, <<3, 2>>}
Doorways == {"clear", "muffled", "blocked", "wall"}
Doors3 ==
    {{[from |-> p[1], to |-> p[2], muffle |-> IF d[p] = "muffled" THEN 1 ELSE 0, blocked |-> d[p] = "blocked"] :
        p \in {q \in Passages : d[q] # "wall"}} : d \in [Passages -> Doorways]}
ASSUME \A doors \in Doors3, radius \in 0..3 : AgreeOnSound(doors, 1, radius)

(* The rooms of a zone have no two doors in one direction.                    *)
ASSUME \A n \in 1..8 :
    LET edges == BspLayout(n)
        leaves == [i \in DOMAIN edges |-> {<<edges[i][1], edges[i][3]>>, <<edges[i][2], Opposite(edges[i][3])>>}]
    IN  \A i, j \in DOMAIN edges : i # j => leaves[i] \cap leaves[j] = {}
=============================================================================
