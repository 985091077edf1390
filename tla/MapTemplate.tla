------------------------------ MODULE MapTemplate ------------------------------
(* Maps drawn as text (map_template.rs): a template gives every character of  *)
(* a grid a terrain, and single cells an override.  instantiate makes rooms   *)
(* and exits of one; the functions for single steps (softcode/api.rs,         *)
(* grid_move) read the same template without rooms.                           *)
(*                                                                            *)
(* A template is [name, rows, terrain, cells]: rows of characters, for each   *)
(* character [passable, arch, attrs], for the coordinates with an override    *)
(* [fixed, passable, lock, things, encounters, tidy]; what an override leaves *)
(* out is the empty sequence, what it gives a sequence of one; tidy tells     *)
(* whether its key is spelled "x,y" to the letter.                            *)
EXTENDS Intents

Space == " "            \* no cell at all
BadKind == "no such kind"
-----------------------------------------------------------------------------
(* build_templates_from_sources, effective_terrain: a map's own terrain goes  *)
(* before the palette's.                                                      *)
EffectiveTerrain(terrain, palette) ==
    [ch \in DOMAIN terrain \cup DOMAIN palette |->
        IF ch \in DOMAIN terrain THEN terrain[ch] ELSE palette[ch]]

(* Two files may draw a map of the same name: either is the one. *)
BuildTemplates(maps, palette) ==
    LET names == {f.name : f \in maps}
    IN  {[n \in names |-> [choice[n] EXCEPT !.terrain = EffectiveTerrain(@, palette)]] :
            choice \in {c \in [names -> maps] : \A n \in names : c[n].name = n}}

(* parse_grid: rows may be short, cells are counted from 0. *)
Width(tpl) == Max({Len(tpl.rows[i]) : i \in DOMAIN tpl.rows} \cup {0})
Height(tpl) == Len(tpl.rows)
Drawn(tpl, x, y) ==
    IF x \in 0..(Width(tpl) - 1) /\ y \in 0..(Height(tpl) - 1) /\ x < Len(tpl.rows[y + 1])
    THEN tpl.rows[y + 1][x + 1] ELSE Space

(* Keys of overrides are "x,y".  parse_cell_key trims the two numbers, the    *)
(* functions that look a cell up spell the key themselves: they miss one that *)
(* is not tidy.                                                               *)
Plain == [fixed |-> NoWord, passable |-> <<>>, lock |-> FALSE, things |-> <<>>,
          encounters |-> FALSE, tidy |-> TRUE]
Override(tpl, x, y) == IF <<x, y>> \in DOMAIN tpl.cells THEN tpl.cells[<<x, y>>] ELSE Plain
LookedUp(tpl, x, y) == IF Override(tpl, x, y).tidy THEN Override(tpl, x, y) ELSE Plain
Known(tpl, ch) == ch \in DOMAIN tpl.terrain

(* instantiate asks for the terrain first, resolve_grid_step only where no    *)
(* override answers.                                                          *)
RoomPassable(tpl, x, y) ==
    LET ov == Override(tpl, x, y).passable
    IN  IF ov # <<>> THEN ov[1] ELSE tpl.terrain[Drawn(tpl, x, y)].passable
StepPassable(tpl, x, y) ==
    LET ov == LookedUp(tpl, x, y).passable
    IN  IF ov # <<>> THEN ov[1]
        ELSE Known(tpl, Drawn(tpl, x, y)) /\ tpl.terrain[Drawn(tpl, x, y)].passable

(* get_map_template: what a script is told of each cell; nothing where the    *)
(* terrain is not known and no override says.                                 *)
TemplateCells(tpl) ==
    [at \in {<<x, y>> : x \in 0..(Width(tpl) - 1), y \in 0..(Height(tpl) - 1)} |->
        LET ch == Drawn(tpl, at[1], at[2])
            ov == LookedUp(tpl, at[1], at[2]).passable
        IN  IF ch = Space THEN <<>> ELSE IF ov # <<>> THEN ov
            ELSE IF Known(tpl, ch) THEN <<tpl.terrain[ch].passable>> ELSE <<>>]

(* resolve_file_key: objects carry their file key as a tag here. *)
WithKey(w, key) == {r \in DOMAIN w : key \in w[r].tags}
-----------------------------------------------------------------------------
(* dir_delta, resolve_grid_step *)
Directions == {"north", "south", "east", "west"}
Delta(dir) ==
    CASE dir = "north" -> <<0, -1>> [] dir = "south" -> <<0, 1>>
      [] dir = "east" -> <<1, 0>> [] dir = "west" -> <<-1, 0>>
Opposite(dir) ==
    CASE dir = "north" -> "south" [] dir = "south" -> "north"
      [] dir = "east" -> "west" [] dir = "west" -> "east" [] OTHER -> "back"

ResolveGridStep(tpl, x, y, dir) ==
    IF dir \notin Directions THEN [kind |-> "bad_dir", to |-> <<x, y>>]
    ELSE LET nx == x + Delta(dir)[1]
             ny == y + Delta(dir)[2]
         IN  [kind |-> IF Drawn(tpl, nx, ny) = Space THEN "off_grid"
                       ELSE IF StepPassable(tpl, nx, ny) THEN "ok" ELSE "impassable",
              to |-> <<nx, ny>>]
GridCanMove(tpl, x, y, dir) == ResolveGridStep(tpl, x, y, dir).kind = "ok"

(* grid_move: what it asks for, from where the world has the actor.           *)
TerrainHook(w, tpl, actor, at, hook) ==
    IF ~Known(tpl, Drawn(tpl, at[1], at[2])) THEN <<>>
    ELSE LET hosts == WithKey(w, tpl.terrain[Drawn(tpl, at[1], at[2])].arch)
         IN  IF hosts = {} THEN <<>> ELSE <<I("effect", Min(hosts), hook, Unset, actor, Nobody)>>
GridMove(w, tpl, actor, dir) ==
    IF ~Exists(w, actor) \/ w[actor].attrs["pos"] = Unset \/ w[actor].attrs["blocked"] # Unset
    THEN <<>>
    ELSE LET at == w[actor].attrs["pos"]
             step == ResolveGridStep(tpl, at[1], at[2], dir)
         IN  IF step.kind # "ok" THEN <<>>
             ELSE <<I("attr", actor, "pos", step.to, Nobody, Nobody)>>
                  \o TerrainHook(w, tpl, actor, at, "on_leave")
                  \o TerrainHook(w, tpl, actor, step.to, "on_enter")
-----------------------------------------------------------------------------
(* instantiate.  `st` is what the loop over the cells has so far: what it     *)
(* asks for, the next reference, the rooms by coordinate, the room before,    *)
(* and whether the template has proved wrong.                                 *)

(* The things a cell's override puts into its room *)
Things(ov, room, next) ==
    [i \in DOMAIN ov.things |->
        I("spawn", next + i - 1, ov.things[i], Unset, room, Nobody)]

(* What is pushed for a room however it was found *)
Marks(tpl, x, y, room) ==
    <<I("attr", room, "cell", <<x, y>>, Nobody, Nobody)>>
    \o (IF tpl.terrain[Drawn(tpl, x, y)].attrs
        THEN <<I("attr", room, "terrain", <<1, 1>>, Nobody, Nobody)>> ELSE <<>>)
    \o <<I("tag", room, tpl.name, Unset, Nobody, Nobody)>>
    \o (IF Override(tpl, x, y).lock
        THEN <<I("effect", room, "set_lock", Unset, Nobody, Nobody)>> ELSE <<>>)

Furnish(tpl, x, y, st, room, fresh) ==
    LET ov == Override(tpl, x, y)
        next == st.next + Len(fresh)
    IN  [st EXCEPT
            !.intents = @ \o fresh \o Marks(tpl, x, y, room) \o Things(ov, room, next)
                          \o (IF ov.encounters
                              THEN <<I("attr", room, "encounters", <<1, 1>>, Nobody, Nobody)>>
                              ELSE <<>>),
            !.next = next + Len(ov.things),
            !.rooms = Append(@, [at |-> <<x, y>>, room |-> room]),
            !.prev = room,
            !.ok = \A i \in DOMAIN ov.things : ov.things[i] # BadKind]

(* One cell *)
Cell(w, tpl, x, y, st) ==
    IF ~st.ok \/ Drawn(tpl, x, y) = Space THEN st
    ELSE IF ~Known(tpl, Drawn(tpl, x, y)) THEN [st EXCEPT !.ok = FALSE]
    ELSE IF ~RoomPassable(tpl, x, y) THEN st
    ELSE IF Override(tpl, x, y).fixed = NoWord
         THEN Furnish(tpl, x, y, st, st.next,
                      <<I("spawn", st.next, "room", Unset, st.prev, Nobody)>>)
    ELSE LET rooms == WithKey(w, Override(tpl, x, y).fixed)
         IN  IF rooms = {} THEN [st EXCEPT !.ok = FALSE]
             ELSE Furnish(tpl, x, y, st, Min(rooms), <<>>)

(* Row by row *)
Cells(w, tpl, start, anchor) ==
    LET width == Width(tpl)
        upTo[n \in 0..(width * Height(tpl))] ==
            IF n = 0 THEN [intents |-> <<>>, next |-> start, rooms |-> <<>>,
                           prev |-> anchor, ok |-> TRUE]
            ELSE Cell(w, tpl, (n - 1) % width, (n - 1) \div width, upTo[n - 1])
    IN  upTo[width * Height(tpl)]

(* push_bidirectional_exit *)
BothWays(a, b, dir, next) ==
    <<I("exit", next, dir, Unset, a, b), I("exit", next + 1, Opposite(dir), Unset, b, a)>>

RoomAt(rooms, at) == {rooms[i].room : i \in {j \in DOMAIN rooms : rooms[j].at = at}}

(* Each room and the ones east and south of it, row by row *)
Doors(st, at, dir) ==
    LET a == RoomAt(st.rooms, at)
        b == RoomAt(st.rooms, <<at[1] + Delta(dir)[1], at[2] + Delta(dir)[2]>>)
    IN  IF a = {} \/ b = {} THEN st
        ELSE [st EXCEPT !.intents = @ \o BothWays(Min(a), Min(b), dir, st.next),
                        !.next = @ + 2]
Connected(st) ==
    LET upTo[n \in 0..Len(st.rooms)] ==
            IF n = 0 THEN st
            ELSE Doors(Doors(upTo[n - 1], st.rooms[n].at, "east"), st.rooms[n].at, "south")
    IN  upTo[Len(st.rooms)]

(* Nothing is made of a template that is wrong or has nowhere to stand.       *)
Instantiate(w, tpl, start, anchor) ==
    LET st == Cells(w, tpl, start, anchor)
    IN  IF ~st.ok \/ st.rooms = <<>> THEN [ok |-> FALSE, intents |-> <<>>, next |-> start]
        ELSE LET all == Connected(st) IN [ok |-> TRUE, intents |-> all.intents, next |-> all.next]
=============================================================================
