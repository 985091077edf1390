---------------------------------- MODULE Grid ----------------------------------
(* The grids scripts compute with (grid.rs): searches over the cells of a     *)
(* rectangle.  A grid here is [w, h, cells], cells a function from the        *)
(* coordinates, counted from 1, to values.  Each search is the loop of the    *)
(* code unrolled into a recursive function of the number of turns; Agree*     *)
(* compare them with what they are for.                                       *)
EXTENDS Integers, Sequences, FiniteSets, FiniteSetsExt

Coordinates(w, h) == (1..w) \X (1..h)

(* index, set_cell, from_json *)
Inside(g, at) == at \in Coordinates(g.w, g.h)
SetCell(g, at, v) == IF Inside(g, at) THEN [g EXCEPT !.cells[at] = v] ELSE g
FromJson(w, h, values) ==
    IF Len(values) # w * h THEN {}
    ELSE {[w |-> w, h |-> h, cells |-> [at \in Coordinates(w, h) |-> values[(at[2] - 1) * w + at[1]]]]}

Around(g, at) ==
    {<<at[1] + d[1], at[2] + d[2]>> : d \in {<<1, 0>>, <<-1, 0>>, <<0, 1>>, <<0, -1>>}}
    \cap Coordinates(g.w, g.h)
Near(g, at, v) == {n \in Around(g, at) : g.cells[n] = v}
Abs(n) == IF n < 0 THEN -n ELSE n
-----------------------------------------------------------------------------
(* dijkstra_map: breadth first; what is not reached stays -1.                 *)
Visit(g, v, st) ==
    IF st.queue = <<>> THEN st ELSE
    LET at == Head(st.queue)
        new == {n \in Near(g, at, v) : st.dist[n] = -1}
        order == CHOOSE s \in [1..Cardinality(new) -> new] : \A n \in new : \E i \in DOMAIN s : s[i] = n
    IN  [queue |-> Tail(st.queue) \o order,
         dist |-> [n \in DOMAIN st.dist |-> IF n \in new THEN st.dist[at] + 1 ELSE st.dist[n]]]

DijkstraMap(g, from, v) ==
    LET none == [at \in DOMAIN g.cells |-> -1]
        turn[n \in 0..Cardinality(DOMAIN g.cells)] ==
            IF n = 0 THEN [queue |-> <<from>>, dist |-> [none EXCEPT ![from] = 0]]
            ELSE Visit(g, v, turn[n - 1])
    IN  IF ~Inside(g, from) \/ g.cells[from] # v THEN none
        ELSE turn[Cardinality(DOMAIN g.cells)].dist

(* flood_fill: a stack on which a cell may lie more than once.                *)
Fill(g, target, st) ==
    IF st.stack = <<>> THEN st ELSE
    LET at == st.stack[Len(st.stack)]
        rest == SubSeq(st.stack, 1, Len(st.stack) - 1)
        near == {n \in Near(g, at, target) : n \notin st.filled}
        order == CHOOSE s \in [1..Cardinality(near) -> near] : \A n \in near : \E i \in DOMAIN s : s[i] = n
    IN  IF at \in st.filled THEN [st EXCEPT !.stack = rest]
        ELSE [stack |-> rest \o order, filled |-> st.filled \cup {at}]

FloodFill(g, from, target, replacement) ==
    LET turns == 4 * Cardinality(DOMAIN g.cells)
        turn[n \in 0..turns] ==
            IF n = 0 THEN [stack |-> <<from>>, filled |-> {}]
            ELSE Fill(g, target, turn[n - 1])
    IN  IF target = replacement \/ ~Inside(g, from) \/ g.cells[from] # target THEN {}
        ELSE turn[turns].filled

(* astar: the open list may hold a cell several times, only the best entry is *)
(* worked on; of equal entries the heap gives any.                            *)
Heuristic(at, goal) == Abs(at[1] - goal[1]) + Abs(at[2] - goal[2])

Far == 1000             \* u32::MAX
Expand(g, v, goal, at, st) ==
    LET better == {n \in Near(g, at, v) : st.g[at] + 1 < st.g[n]}
    IN  [st EXCEPT !.open = @ \cup {[f |-> st.g[at] + 1 + Heuristic(n, goal), at |-> n] : n \in better},
                   !.g = [n \in DOMAIN @ |-> IF n \in better THEN st.g[at] + 1 ELSE @[n]],
                   !.from = [n \in DOMAIN @ |-> IF n \in better THEN at ELSE @[n]]]
Pop(g, v, goal, x, st) ==
    IF x.at = goal THEN [st EXCEPT !.done = TRUE]
    ELSE IF x.f > st.g[x.at] + Heuristic(x.at, goal) THEN [st EXCEPT !.open = @ \ {x}]
    ELSE Expand(g, v, goal, x.at, [st EXCEPT !.open = @ \ {x}])
Search(g, v, goal, st) ==
    IF st.done \/ st.open = {} THEN st
    ELSE Pop(g, v, goal, CHOOSE x \in st.open : \A y \in st.open : x.f <= y.f, st)

(* The way back from the goal, as a sequence from the start *)
Back(from, start, path) ==
    IF Head(path) = start THEN path ELSE <<from[Head(path)]>> \o path
WayBack(from, start, goal) ==
    LET back[n \in 0..Cardinality(DOMAIN from)] ==
            IF n = 0 THEN <<goal>> ELSE Back(from, start, back[n - 1])
    IN  back[Cardinality(DOMAIN from)]

AStar(g, start, goal, v) ==
    LET turns == 2 * Cardinality(DOMAIN g.cells)
        turn[n \in 0..turns] ==
            IF n = 0 THEN [open |-> {[f |-> Heuristic(start, goal), at |-> start]},
                           g |-> [at \in DOMAIN g.cells |-> IF at = start THEN 0 ELSE Far],
                           from |-> [at \in DOMAIN g.cells |-> at], done |-> FALSE]
            ELSE Search(g, v, goal, turn[n - 1])
        end == turn[turns]
    IN  IF ~Inside(g, start) \/ ~Inside(g, goal) \/ g.cells[start] # v \/ g.cells[goal] # v \/ ~end.done
        THEN <<>> ELSE WayBack(end.from, start, goal)
-----------------------------------------------------------------------------
(* has_los: Bresenham's line.  Neither end is looked at.                      *)
Stride(st, dx, dy, sx, sy) ==
    LET e2 == 2 * st.err IN
    [err |-> st.err + (IF e2 >= dy THEN dy ELSE 0) + (IF e2 <= dx THEN dx ELSE 0),
     at |-> <<IF e2 >= dy THEN st.at[1] + sx ELSE st.at[1], IF e2 <= dx THEN st.at[2] + sy ELSE st.at[2]>>]
HasLos(g, a, b, blocking) ==
    LET dx == Abs(b[1] - a[1])
        dy == -Abs(b[2] - a[2])
        sx == IF a[1] < b[1] THEN 1 ELSE -1
        sy == IF a[2] < b[2] THEN 1 ELSE -1
        line[n \in 0..(dx - dy)] ==
            IF n = 0 THEN [err |-> dx + dy, at |-> a] ELSE Stride(line[n - 1], dx, dy, sx, sy)
        arrival == Min({n \in DOMAIN line : line[n].at = b})
    IN  \A n \in 0..(arrival - 1) :
            Inside(g, line[n].at) /\ (n # 0 => g.cells[line[n].at] # blocking)
-----------------------------------------------------------------------------
(* fov, cast_light: shadow casting, an eighth of the circle at a time.        *)
(* Slopes are fractions <<numerator, denominator>>.                           *)
Below(p, q) == p[1] * q[2] < q[1] * p[2]
LeftSlope(j, dx) == <<1 - 2 * dx, 2 * j - 1>>
RightSlope(j, dx) == <<-2 * dx - 1, 2 * j + 1>>

Turned(octant, dx, dy) ==
    CASE octant = 0 -> <<dx, dy>>   [] octant = 1 -> <<dy, dx>>   [] octant = 2 -> <<-dy, dx>>
      [] octant = 3 -> <<-dx, dy>>  [] octant = 4 -> <<-dx, -dy>> [] octant = 5 -> <<-dy, -dx>>
      [] octant = 6 -> <<dy, -dx>>  [] octant = 7 -> <<dx, -dy>>

RECURSIVE CastLight(_, _, _, _, _, _, _)

(* One cell.  c has what does not change: the grid, the eye, the radius, the  *)
(* octant, what blocks and where the light ends.                              *)
See(c, j, dx, at, st) ==
    LET blocks == c.g.cells[at] = c.blocking
        seen == [st EXCEPT !.seen = @ \cup {at}]
    IN  IF st.blocked
        THEN IF blocks THEN [seen EXCEPT !.next = RightSlope(j, dx)]
             ELSE [seen EXCEPT !.blocked = FALSE, !.start = st.next]
        ELSE IF blocks /\ j < c.radius
        THEN [seen EXCEPT !.blocked = TRUE, !.next = RightSlope(j, dx),
                          !.seen = @ \cup CastLight(c.g, c.eye, c.radius, j + 1, <<st.start, LeftSlope(j, dx)>>,
                                                    c.octant, c.blocking)]
        ELSE seen

Look(c, j, dx, st) ==
    LET t == Turned(c.octant, dx, -j)
        at == <<c.eye[1] + t[1], c.eye[2] + t[2]>>
    IN  IF st.stop \/ Below(st.start, RightSlope(j, dx)) THEN st
        ELSE IF Below(LeftSlope(j, dx), c.end) THEN [st EXCEPT !.stop = TRUE]
        ELSE IF dx * dx + j * j > c.radius * c.radius \/ ~Inside(c.g, at) THEN st
        ELSE See(c, j, dx, at, st)

(* One row of cells, from the far side to the axis; no more once it ends dark *)
Row(c, j, st) ==
    LET upTo[i \in 0..(j + 1)] ==
            IF i = 0 THEN [st EXCEPT !.stop = FALSE] ELSE Look(c, j, i - 1 - j, upTo[i - 1])
    IN  IF st.blocked THEN st ELSE upTo[j + 1]

CastLight(g, eye, radius, row, light, octant, blocking) ==
    LET c == [g |-> g, eye |-> eye, radius |-> radius, octant |-> octant,
              blocking |-> blocking, end |-> light[2]]
        upTo[j \in (row - 1)..radius] ==
            IF j < row THEN [start |-> light[1], next |-> light[1], blocked |-> FALSE,
                             stop |-> FALSE, seen |-> {}]
            ELSE Row(c, j, upTo[j - 1])
    IN  IF Below(light[1], light[2]) \/ row > radius THEN {} ELSE upTo[radius].seen

Fov(g, eye, radius, blocking) ==
    {eye} \cup UNION {CastLight(g, eye, radius, 1, <<<<1, 1>>, <<0, 1>>>>, octant, blocking) :
                         octant \in 0..7}
-----------------------------------------------------------------------------
(* Grids of open and closed cells                                             *)
Grids(w, h) == [w : {w}, h : {h}, cells : [Coordinates(w, h) -> BOOLEAN]]

(* A path leads from its start to its goal over open cells, each next to the  *)
(* one before, and is as long as the distance, which is -1 exactly where      *)
(* there is no path.                                                          *)
AgreeOnPaths(g) ==
    \A a \in DOMAIN g.cells : LET dist == DijkstraMap(g, a, TRUE) IN
        \A b \in DOMAIN g.cells : LET p == AStar(g, a, b, TRUE) IN
            /\ Len(p) = dist[b] + 1
            /\ p # <<>> => /\ p[1] = a /\ p[Len(p)] = b
                           /\ \A i \in 1..Len(p) : g.cells[p[i]]
                           /\ \A i \in 2..Len(p) : p[i] \in Around(g, p[i - 1])

(* Distances grow by at most one from an open cell to the next, and every     *)
(* reached cell but the first has one a step nearer.                          *)
AgreeOnDistances(g) ==
    \A a \in DOMAIN g.cells : LET dist == DijkstraMap(g, a, TRUE) IN
        \A b \in DOMAIN g.cells : dist[b] > -1 =>
            /\ \A n \in Near(g, b, TRUE) : dist[n] > -1 /\ dist[n] <= dist[b] + 1
            /\ b # a => \E n \in Near(g, b, TRUE) : dist[n] = dist[b] - 1

(* Filling takes exactly what a walk can reach.                               *)
AgreeOnFilling(g) ==
    \A a \in DOMAIN g.cells :
        FloodFill(g, a, TRUE, FALSE) = {b \in DOMAIN g.cells : DijkstraMap(g, a, TRUE)[b] > -1}

(* Along a row, a column or a diagonal one sees as far as nothing is between. *)
AgreeOnSight(g) ==
    \A a, b \in DOMAIN g.cells :
        LET dx == b[1] - a[1]
            dy == b[2] - a[2]
            far == Max({Abs(dx), Abs(dy)})
            Straight == dx = 0 \/ dy = 0 \/ Abs(dx) = Abs(dy)
            Between(i) == <<a[1] + (dx \div far) * i, a[2] + (dy \div far) * i>>
        IN  (far > 0 /\ Straight) =>
                (HasLos(g, a, b, FALSE) <=> \A i \in 1..(far - 1) : g.cells[Between(i)])

(* One is seen from here as far as nothing is between in a row or a column,   *)
(* nothing beyond the radius, and on open ground everything within it.        *)
AgreeOnView(g, radius) ==
    \A eye \in DOMAIN g.cells : LET seen == Fov(g, eye, radius, FALSE) IN
        \A b \in DOMAIN g.cells :
            LET dx == b[1] - eye[1]
                dy == b[2] - eye[2]
                far == Max({Abs(dx), Abs(dy)})
                Between(i) == <<eye[1] + (dx \div far) * i, eye[2] + (dy \div far) * i>>
            IN  /\ b \in seen => dx * dx + dy * dy <= radius * radius
                /\ (far \in 1..radius /\ (dx = 0 \/ dy = 0)) =>
                       (b \in seen <=> \A i \in 1..(far - 1) : g.cells[Between(i)])
                /\ ((\A n \in DOMAIN g.cells : g.cells[n]) /\ dx * dx + dy * dy <= radius * radius)
                       => b \in seen
=============================================================================
