-------------------------------- MODULE Dungeon --------------------------------
(* Dungeons made on demand (dungeon.rs): each zone is a rectangle cut in two  *)
(* again and again, one room to a piece and one door to a cut.  What the      *)
(* random numbers decide (how many rooms, which are corridors) is given; the  *)
(* places of the cuts decide nothing but the drawing.  A dungeon is known by  *)
(* its seed, an attribute of its rooms.                                       *)
EXTENDS MapTemplate

(* build_bsp: `first` is the number the piece's first room gets, n, s, e and  *)
(* w the rooms a door in that direction leads from.  The two halves of a cut  *)
(* reach equally far along it, and ties go to the first.                      *)
BuildBsp(roomCount) ==
    LET piece[p \in (1..roomCount) \X Nat \X Nat] ==
            LET budget == p[1]
                depth == p[2]
                first == p[3]
                half == piece[<<budget \div 2, depth + 1, first>>]
                rest == piece[<<budget - budget \div 2, depth + 1, first + budget \div 2>>]
                edges == half.edges \o rest.edges
            IN  IF budget = 1
                THEN [n |-> first, s |-> first, e |-> first, w |-> first, edges |-> <<>>]
                ELSE IF depth % 2 = 0
                     THEN [half EXCEPT !.e = rest.e, !.edges = Append(edges, <<half.e, rest.w, "east">>)]
                     ELSE [half EXCEPT !.s = rest.s, !.edges = Append(edges, <<half.s, rest.n, "south">>)]
    IN  piece[<<roomCount, 0, 1>>]

(* bsp_layout *)
BspLayout(roomCount) == BuildBsp(roomCount).edges
-----------------------------------------------------------------------------
(* generate.  `zones` has for each zone [rooms, narrow, fights]: how many     *)
(* rooms, which of them are corridors, and which got monsters.                *)

(* One room: the i-th of the zone.  Rooms lie in the room made before them.   *)
ZoneRoom(zone, z, last, i, seed, room, before) ==
    LET Tag(k) == <<I("tag", room, k, Unset, Nobody, Nobody)>>
    IN  <<I("spawn", room, "room", Unset, before, Nobody),
          I("attr", room, "seed", seed, Nobody, Nobody)>>
        \o Tag(IF i \in zone.narrow THEN "dungeon:corridor" ELSE "dungeon:room")
        \o (IF z = 1 /\ i = 1 THEN Tag("dungeon:entrance") ELSE <<>>)
        \o (IF i = zone.rooms THEN Tag("dungeon:exit") ELSE <<>>)
        \o (IF last /\ i = zone.rooms THEN Tag("dungeon:boss") ELSE <<>>)
        \o (IF (z # 1 \/ i # 1) /\ (i \in zone.fights \/ (last /\ i = zone.rooms))
            THEN <<I("attr", room, "encounters", <<1, 1>>, Nobody, Nobody)>> ELSE <<>>)
        \o <<I("effect", room, "set_script", Unset, Nobody, Nobody)>>

ZoneRooms(zone, z, last, seed, start, before) ==
    LET upTo[i \in 0..zone.rooms] ==
            IF i = 0 THEN <<>>
            ELSE upTo[i - 1] \o ZoneRoom(zone, z, last, i, seed, start + i - 1,
                                         IF i = 1 THEN before ELSE start + i - 2)
    IN  upTo[zone.rooms]

ZoneExits(zone, start) ==
    LET edges == BspLayout(zone.rooms)
        upTo[i \in 0..Len(edges)] ==
            IF i = 0 THEN <<>>
            ELSE upTo[i - 1] \o BothWays(start + edges[i][1] - 1, start + edges[i][2] - 1,
                                         edges[i][3], start + zone.rooms + 2 * (i - 1))
    IN  upTo[Len(edges)]

(* Zones hang together by the last room of one and the first of the next.     *)
(* Mutant: the way back leads from the same side.                             *)
Deeper_OneWay(before, room, next) ==
    <<I("exit", next, "deeper", Unset, before, room), I("exit", next + 1, "back", Unset, before, room)>>
Deeper(before, room, next) ==
    <<I("exit", next, "deeper", Unset, before, room), I("exit", next + 1, "back", Unset, room, before)>>

Zone(zones, z, seed, st) ==
    LET rooms == zones[z].rooms
        own == ZoneRooms(zones[z], z, z = Len(zones), seed, st.next, st.last)
               \o ZoneExits(zones[z], st.next)
        next == st.next + rooms + 2 * (rooms - 1)
    IN  IF z = 1
        THEN [intents |-> own, next |-> next, last |-> st.next + rooms - 1]
        ELSE [intents |-> st.intents \o own \o Deeper(st.last, st.next, next),
              next |-> next + 2, last |-> st.next + rooms - 1]

(* The drawing of the whole is an attribute of the entrance                   *)
(* (build_layout_grid, generate_dungeon).                                     *)
Layout(entrance) == <<I("attr", entrance, "layout", <<1, 1>>, Nobody, Nobody)>>

Generate(zones, seed, start, anchor) ==
    LET upTo[z \in 0..Len(zones)] ==
            IF z = 0 THEN [intents |-> <<>>, next |-> start, last |-> anchor]
            ELSE Zone(zones, z, seed, upTo[z - 1])
        all == upTo[Len(zones)]
        out == <<I("exit", all.next, "out", Unset, start, anchor)>>
    IN  IF zones = <<>> THEN [ok |-> FALSE, intents |-> <<>>, next |-> start]
        ELSE [ok |-> TRUE, intents |-> all.intents \o out \o Layout(start), next |-> all.next + 1]
-----------------------------------------------------------------------------
(* destroy_dungeon: what has the seed itself, and the exits from there.       *)
OfDungeon(w, seed) == {r \in DOMAIN w : w[r].attrs["seed"] = seed}
InOrder(refs) ==
    [i \in 1..Cardinality(refs) |->
        CHOOSE r \in refs : Cardinality({q \in refs : q < r}) = i - 1]
DestroyDungeon(w, seed) ==
    LET rooms == OfDungeon(w, seed)
        doors == UNION {ExitsFrom(w, r) : r \in rooms} \ rooms
        doomed == InOrder(rooms) \o InOrder(doors)
    IN  [i \in DOMAIN doomed |-> I("destroy", doomed[i], NoWord, Unset, Nobody, Nobody)]

(* on_expire, the script of an entrance: it waits for the players in the      *)
(* rooms it finds by their tag.                                               *)
OnExpire(b, w, this) ==
    LET seed == GetAttr(b, w, this, "seed")
        rooms == {r \in FindByTag(w, "dungeon:room") : GetAttr(b, w, r, "seed") = seed}
    IN  IF seed = Unset THEN <<>>
        ELSE IF \E r \in rooms : PlayersInRoom(w, r) # {}
             THEN <<I("effect", this, "after", Unset, Nobody, Nobody)>>
             ELSE DestroyDungeon(w, seed)

(* on_enter, the script of every room, for a player on a delve: the monsters  *)
(* come once, and hold the player until something else lets go.  They have    *)
(* come even if there is nobody to fight them.                                *)
OnEnter(b, w, actor, room) ==
    IF ~IsKind(w, actor, "player") \/ GetAttr(b, w, room, "triggered") # Unset
       \/ GetAttr(b, w, actor, "blocked") # Unset \/ GetAttr(b, w, room, "encounters") = Unset
    THEN <<>>
    ELSE <<I("attr", room, "triggered", <<1, 1>>, Nobody, Nobody)>>
         \o (IF FindByTag(w, "troupe") = {} THEN <<>>
             ELSE <<I("attr", actor, "blocked", <<1, 1>>, Nobody, Nobody)>>)
=============================================================================
