--------------------------------- MODULE Sound ---------------------------------
(* How far a sound carries: the breadth-first walk of get_rooms_in_radius     *)
(* (softcode/api.rs) and of EmitRadius (engine/mod.rs).  A door is            *)
(* [from, to, muffle, blocked]; rooms are any values.                         *)
EXTENDS Integers, Sequences, FiniteSets, FiniteSetsExt

RoomsOf(doors, room) == {room} \cup {d.from : d \in doors} \cup {d.to : d \in doors}

(* One room of the queue: a room keeps the first distance it is met at, and   *)
(* of two doors to it the one that comes first counts.                        *)
Carry(doors, radius, st) ==
    IF st.queue = <<>> THEN st ELSE
    LET room == Head(st.queue)
        Through(d) == st.dist[room] + 1 + d.muffle
        open == {d \in doors : d.from = room /\ ~d.blocked /\ st.dist[d.to] = -1 /\ Through(d) <= radius}
        new == {d.to : d \in open}
        order == CHOOSE s \in [1..Cardinality(new) -> new] : \A n \in new : \E i \in DOMAIN s : s[i] = n
    IN  [queue |-> Tail(st.queue) \o order,
         dist |-> [r \in DOMAIN st.dist |->
                      IF r \in new THEN Through(CHOOSE d \in open : d.to = r) ELSE st.dist[r]]]

RoomsInRadius(doors, room, radius) ==
    LET rooms == RoomsOf(doors, room)
        turn[n \in 0..Cardinality(rooms)] ==
            IF n = 0 THEN [queue |-> <<room>>, dist |-> [r \in rooms |-> IF r = room THEN 0 ELSE -1]]
            ELSE Carry(doors, radius, turn[n - 1])
    IN  turn[Cardinality(rooms)].dist
-----------------------------------------------------------------------------
(* The least number of steps and muffles in which a sound gets to a room, at  *)
(* most radius, or -1                                                         *)
Nearness(doors, room, radius) ==
    LET within[n \in 0..radius] ==
            IF n = 0 THEN {room}
            ELSE within[n - 1] \cup
                 {d.to : d \in {e \in doors : ~e.blocked /\ e.muffle < n /\ e.from \in within[n - 1 - e.muffle]}}
    IN  [r \in RoomsOf(doors, room) |->
            LET near == {n \in 0..radius : r \in within[n]} IN IF near = {} THEN -1 ELSE Min(near)]

(* With no muffled door the walk finds the rooms in reach at their distance;  *)
(* with some it finds none that is out of reach, nor any too near.  (It may   *)
(* miss one or give it a distance too great: the first visit counts.)         *)
AgreeOnSound(doors, room, radius) ==
    LET heard == RoomsInRadius(doors, room, radius)
        near == Nearness(doors, room, radius)
    IN  /\ (\A d \in doors : d.muffle = 0) => heard = near
        /\ \A r \in DOMAIN heard : heard[r] > -1 => near[r] > -1 /\ near[r] <= heard[r]
=============================================================================
