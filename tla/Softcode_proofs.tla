---------------------------- MODULE Softcode_proofs ----------------------------
(***************************************************************************)
(* Whatever scripts ask for, and however much of it, no reference is       *)
(* handed out twice, scripts read what they will have written, transfers   *)
(* conserve what is transferred, no library is stale and no story lost:    *)
(* for any world, repertoire, maps, dungeons, libraries and bounds.        *)
(*                                                                         *)
(* Whole regions, and the application of a batch, are made in loops.       *)
(* Looping(u, ...) says that u is such a loop: u[i] is what it has made    *)
(* after i turns, and what each turn keeps, the loop keeps (Climb).        *)
(***************************************************************************)
EXTENDS Softcode, FiniteSetTheorems, SequenceTheorems, WellFoundedInduction, TLAPS

-----------------------------------------------------------------------------
(* Loops *)

(* Every nonempty set of naturals has a least member. *)
LEMMA Least ==
    ASSUME NEW T \in SUBSET Nat, T # {}
    PROVE  \E n \in T : \A k \in T : n <= k
<1> DEFINE R == {p \in Nat \X Nat : p[1] < p[2]}
<1>1. R = OpToRel(<, Nat)
  BY DEF OpToRel
<1>2. IsWellFoundedOn(R, Nat)
  BY <1>1, NatLessThanWellFounded
<1>3. PICK n \in T : \A k \in T : <<k, n>> \notin R
  BY <1>2, WFMin
<1>4. ASSUME NEW k \in T PROVE n <= k
  <2>1. <<k, n>> \in Nat \X Nat /\ ~(<<k, n>>[1] < <<k, n>>[2])
    BY <1>3
  <2> QED BY <2>1
<1> QED BY <1>4

(* What holds at first and is kept by each of n steps holds throughout. *)
LEMMA Climb ==
    ASSUME NEW n \in Nat, NEW S, 0 \in S, \A i \in 1..n : i - 1 \in S => i \in S
    PROVE  \A i \in 0..n : i \in S
<1> DEFINE T == {i \in 0..n : i \notin S}
<1> SUFFICES ASSUME T # {} PROVE FALSE
  OBVIOUS
<1>1. PICK m \in T : \A k \in T : m <= k
  <2> T \in SUBSET Nat
    OBVIOUS
  <2> HIDE DEF T
  <2> QED BY Least
<1>2. m \in 1..n /\ m - 1 \in 0..n
  OBVIOUS
<1>3. m - 1 \in S
  BY <1>1, <1>2
<1> QED BY <1>2, <1>3

(* The turns of the loops, by name; x is what a loop has at hand. *)
Turn(how, i, prev, x) ==
    CASE how = "line" -> ArchetypeOf(x, prev)
      [] how = "apply" -> Then(prev, x[i])
      [] how = "cells" -> Cell(x[1], x[2], (i - 1) % x[3], (i - 1) \div x[3], prev)
      [] how = "doors" -> Doors(Doors(prev, x[i].at, "east"), x[i].at, "south")
      [] how = "rooms" -> prev \o ZoneRoom(x[1], x[2], x[3], i, x[4], x[5] + i - 1,
                                          IF i = 1 THEN x[6] ELSE x[5] + i - 2)
      [] how = "exits" -> prev \o BothWays(x[2] + x[1][i][1] - 1, x[2] + x[1][i][2] - 1, x[1][i][3],
                                          x[2] + x[3] + 2 * (i - 1))
      [] how = "zones" -> Zone(x[1], i, x[2], prev)
      [] how = "require" -> x[1][<<x[2][i], x[3], prev>>]

Looping(u, how, start, n, x) ==
    u = [i \in 0..n |-> IF i = 0 THEN start ELSE Turn(how, i, u[i - 1], x)]

(* Every loop runs. *)
LEMMA Runs ==
    ASSUME NEW how, NEW start, NEW N \in Nat, NEW x
    PROVE  \E u : Looping(u, how, start, N, x)
<1> DEFINE Upto(m, w) == w = [i \in 0..m |-> IF i = 0 THEN start ELSE Turn(how, i, w[i - 1], x)]
           S == {m \in 0..N : \E w : Upto(m, w)}
<1>1. 0 \in S
  <2> DEFINE v == [i \in 0..0 |-> start]
  <2>1. v = [i \in 0..0 |-> IF i = 0 THEN start ELSE Turn(how, i, v[i - 1], x)]
    OBVIOUS
  <2>2. \E w : Upto(0, w)
    <3> HIDE DEF v
    <3> QED BY <2>1
  <2> HIDE DEF Upto
  <2> QED BY <2>2
<1>2. ASSUME NEW m \in 1..N, m - 1 \in S PROVE m \in S
  <2>1. PICK w : Upto(m - 1, w)
    BY <1>2
  <2> DEFINE v == [i \in 0..m |-> IF i = m THEN Turn(how, m, w[m - 1], x) ELSE w[i]]
             t == [i \in 0..m |-> IF i = 0 THEN start ELSE Turn(how, i, v[i - 1], x)]
  <2>2. ASSUME NEW i \in 0..m PROVE v[i] = t[i]
    <3>1. CASE i = 0
      <4>1. w[0] = start /\ i # m
        BY <2>1, <3>1
      <4> QED BY <3>1, <4>1
    <3>2. CASE i \in 1..(m - 1)
      <4>1. i - 1 \in 0..m /\ i - 1 # m /\ i # m /\ i # 0 /\ i \in 0..(m - 1)
        BY <3>2
      <4>2. w[i] = Turn(how, i, w[i - 1], x)
        BY <2>1, <4>1
      <4>3. v[i] = w[i] /\ v[i - 1] = w[i - 1]
        BY <4>1
      <4> HIDE DEF v
      <4> QED BY <4>1, <4>2, <4>3
    <3>3. CASE i = m
      <4>1. m # 0 /\ m - 1 \in 0..m /\ m - 1 # m
        OBVIOUS
      <4>2. v[m - 1] = w[m - 1] /\ v[m] = Turn(how, m, w[m - 1], x)
        BY <4>1
      <4> HIDE DEF v
      <4> QED BY <3>3, <4>1, <4>2
    <3> QED BY <3>1, <3>2, <3>3
  <2>3. v = t
    <3> v = [i \in 0..m |-> v[i]] /\ t = [i \in 0..m |-> t[i]]
      OBVIOUS
    <3> HIDE DEF v, t
    <3> QED BY <2>2
  <2>4. Upto(m, v)
    BY <2>3
  <2> HIDE DEF v, t, Upto
  <2> QED BY <2>4
<1>3. N \in S
  <2> HIDE DEF S
  <2>1. \A i \in 0..N : i \in S
    BY <1>1, <1>2, Climb
  <2> QED BY <2>1
<1> QED BY <1>3 DEF Looping

(* What a run is, turn by turn *)
LEMMA RunIs ==
    ASSUME NEW u, NEW how, NEW start, NEW N \in Nat, NEW x, Looping(u, how, start, N, x)
    PROVE  u[0] = start /\ \A i \in 1..N : u[i] = Turn(how, i, u[i - 1], x)
<1>1. u = [i \in 0..N |-> IF i = 0 THEN start ELSE Turn(how, i, u[i - 1], x)]
  BY DEF Looping
<1>2. ASSUME NEW i \in 0..N PROVE u[i] = IF i = 0 THEN start ELSE Turn(how, i, u[i - 1], x)
  BY <1>1
<1>3. 0 \in 0..N /\ \A i \in 1..N : i \in 0..N /\ i # 0
  OBVIOUS
<1> QED BY <1>2, <1>3

LEMMA Turns ==
    /\ \A i, prev, x : Turn("line", i, prev, x) = ArchetypeOf(x, prev)
    /\ \A i, prev, x : Turn("apply", i, prev, x) = Then(prev, x[i])
    /\ \A i, prev, x : Turn("cells", i, prev, x) = Cell(x[1], x[2], (i - 1) % x[3], (i - 1) \div x[3], prev)
    /\ \A i, prev, x : Turn("doors", i, prev, x) = Doors(Doors(prev, x[i].at, "east"), x[i].at, "south")
    /\ \A i, prev, x : Turn("zones", i, prev, x) = Zone(x[1], i, x[2], prev)
    /\ \A i, prev, x : Turn("require", i, prev, x) = x[1][<<x[2][i], x[3], prev>>]
  BY DEF Turn

LEMMA LineLoops ==
    ASSUME NEW w, NEW r, ArchetypeDepth \in Nat
    PROVE  Looping(Line(w, r), "line", r, ArchetypeDepth, w)
<1> DEFINE Is(u) == u = [i \in 0..ArchetypeDepth |-> IF i = 0 THEN r ELSE ArchetypeOf(w, u[i - 1])]
           W == CHOOSE u : Is(u)
<1>1. \A u : Looping(u, "line", r, ArchetypeDepth, w) <=> Is(u)
  BY DEF Looping, Turn
<1>2. \E u : Is(u)
  <2> HIDE DEF Is
  <2>1. \E u : Looping(u, "line", r, ArchetypeDepth, w)
    BY Runs
  <2> QED BY <1>1, <2>1
<1>3. Is(W)
  BY <1>2
<1>4. Line(w, r) = W
  BY DEF Line
<1> HIDE DEF W, Is
<1> QED BY <1>1, <1>3, <1>4

LEMMA ApplyLoops ==
    ASSUME NEW w, NEW b, Len(b) \in Nat
    PROVE  \E u : Looping(u, "apply", [ok |-> TRUE, w |-> w], Len(b), b) /\ Apply(w, b) = u[Len(b)]
<1> DEFINE Is(u) == u = [i \in 0..Len(b) |-> IF i = 0 THEN [ok |-> TRUE, w |-> w] ELSE Then(u[i - 1], b[i])]
           W == CHOOSE u : Is(u)
<1>1. \A u : Looping(u, "apply", [ok |-> TRUE, w |-> w], Len(b), b) <=> Is(u)
  BY DEF Looping, Turn
<1>2. \E u : Is(u)
  <2> HIDE DEF Is
  <2>1. \E u : Looping(u, "apply", [ok |-> TRUE, w |-> w], Len(b), b)
    BY Runs
  <2> QED BY <1>1, <2>1
<1>3. Is(W)
  BY <1>2
<1>4. Apply(w, b) = W[Len(b)]
  BY DEF Apply
<1> HIDE DEF W, Is
<1> QED BY <1>1, <1>3, <1>4

LEMMA CellsLoop ==
    ASSUME NEW w, NEW tpl, NEW start, NEW anchor, Width(tpl) * Height(tpl) \in Nat
    PROVE  \E u : /\ Looping(u, "cells", [intents |-> <<>>, next |-> start, rooms |-> <<>>, prev |-> anchor, ok |-> TRUE],
                               Width(tpl) * Height(tpl), <<w, tpl, Width(tpl)>>)
                  /\ Cells(w, tpl, start, anchor) = u[Width(tpl) * Height(tpl)]
<1> DEFINE first == [intents |-> <<>>, next |-> start, rooms |-> <<>>, prev |-> anchor, ok |-> TRUE]
           N == Width(tpl) * Height(tpl)
           Is(u) == u = [n \in 0..N |-> IF n = 0 THEN first
                                        ELSE Cell(w, tpl, (n - 1) % Width(tpl), (n - 1) \div Width(tpl), u[n - 1])]
           W == CHOOSE u : Is(u)
<1>1. \A u : Looping(u, "cells", first, N, <<w, tpl, Width(tpl)>>) <=> Is(u)
  <2> HIDE DEF N, first
  <2> QED BY DEF Looping, Turn
<1>2. \E u : Is(u)
  <2> HIDE DEF Is, first
  <2>1. \E u : Looping(u, "cells", first, N, <<w, tpl, Width(tpl)>>)
    BY Runs
  <2> QED BY <1>1, <2>1
<1>3. Is(W)
  BY <1>2
<1>4. Cells(w, tpl, start, anchor) = W[N]
  BY DEF Cells
<1> HIDE DEF W, Is
<1> QED BY <1>1, <1>3, <1>4

LEMMA DoorsLoop ==
    ASSUME NEW st, Len(st.rooms) \in Nat
    PROVE  \E u : Looping(u, "doors", st, Len(st.rooms), st.rooms) /\ Connected(st) = u[Len(st.rooms)]
<1> DEFINE Is(u) == u = [n \in 0..Len(st.rooms) |-> IF n = 0 THEN st
                            ELSE Doors(Doors(u[n - 1], st.rooms[n].at, "east"), st.rooms[n].at, "south")]
           W == CHOOSE u : Is(u)
<1>1. \A u : Looping(u, "doors", st, Len(st.rooms), st.rooms) <=> Is(u)
  BY DEF Looping, Turn
<1>2. \E u : Is(u)
  <2> HIDE DEF Is
  <2>1. \E u : Looping(u, "doors", st, Len(st.rooms), st.rooms)
    BY Runs
  <2> QED BY <1>1, <2>1
<1>3. Is(W)
  BY <1>2
<1>4. Connected(st) = W[Len(st.rooms)]
  BY DEF Connected
<1> HIDE DEF W, Is
<1> QED BY <1>1, <1>3, <1>4

LEMMA RoomsLoop ==
    ASSUME NEW zone, NEW z, NEW last, NEW seed, NEW start, NEW before, zone.rooms \in Nat
    PROVE  \E u : /\ Looping(u, "rooms", <<>>, zone.rooms, <<zone, z, last, seed, start, before>>)
                  /\ ZoneRooms(zone, z, last, seed, start, before) = u[zone.rooms]
<1> DEFINE Is(u) == u = [i \in 0..zone.rooms |-> IF i = 0 THEN <<>>
                            ELSE u[i - 1] \o ZoneRoom(zone, z, last, i, seed, start + i - 1,
                                                      IF i = 1 THEN before ELSE start + i - 2)]
           W == CHOOSE u : Is(u)
<1>1. \A u : Looping(u, "rooms", <<>>, zone.rooms, <<zone, z, last, seed, start, before>>) <=> Is(u)
  BY DEF Looping, Turn
<1>2. \E u : Is(u)
  <2> HIDE DEF Is
  <2>1. \E u : Looping(u, "rooms", <<>>, zone.rooms, <<zone, z, last, seed, start, before>>)
    BY Runs
  <2> QED BY <1>1, <2>1
<1>3. Is(W)
  BY <1>2
<1>4. ZoneRooms(zone, z, last, seed, start, before) = W[zone.rooms]
  BY DEF ZoneRooms
<1> HIDE DEF W, Is
<1> QED BY <1>1, <1>3, <1>4

LEMMA ExitsLoop ==
    ASSUME NEW zone, NEW start, NEW edges, edges = BspLayout(zone.rooms), Len(edges) \in Nat
    PROVE  \E u : /\ Looping(u, "exits", <<>>, Len(edges), <<edges, start, zone.rooms>>)
                  /\ ZoneExits(zone, start) = u[Len(edges)]
<1> DEFINE Is(u) == u = [i \in 0..Len(edges) |-> IF i = 0 THEN <<>>
                            ELSE u[i - 1] \o BothWays(start + edges[i][1] - 1, start + edges[i][2] - 1,
                                                      edges[i][3], start + zone.rooms + 2 * (i - 1))]
           W == CHOOSE u : Is(u)
<1>1. \A u : Looping(u, "exits", <<>>, Len(edges), <<edges, start, zone.rooms>>) <=> Is(u)
  <2>1. \A i, prev : Turn("exits", i, prev, <<edges, start, zone.rooms>>)
                     = prev \o BothWays(start + edges[i][1] - 1, start + edges[i][2] - 1, edges[i][3],
                                        start + zone.rooms + 2 * (i - 1))
    BY DEF Turn
  <2> SUFFICES ASSUME NEW u
               PROVE  Looping(u, "exits", <<>>, Len(edges), <<edges, start, zone.rooms>>) <=> Is(u)
    OBVIOUS
  <2> DEFINE a == [i \in 0..Len(edges) |-> IF i = 0 THEN <<>>
                      ELSE Turn("exits", i, u[i - 1], <<edges, start, zone.rooms>>)]
             b == [i \in 0..Len(edges) |-> IF i = 0 THEN <<>>
                      ELSE u[i - 1] \o BothWays(start + edges[i][1] - 1, start + edges[i][2] - 1,
                                                edges[i][3], start + zone.rooms + 2 * (i - 1))]
  <2>2. a = b
    BY <2>1
  <2>3. Looping(u, "exits", <<>>, Len(edges), <<edges, start, zone.rooms>>) <=> u = a
    BY DEF Looping
  <2>4. Is(u) <=> u = b
    OBVIOUS
  <2> HIDE DEF a, b, Is
  <2> QED BY <2>2, <2>3, <2>4
<1>2. \E u : Is(u)
  <2> HIDE DEF Is
  <2>1. \E u : Looping(u, "exits", <<>>, Len(edges), <<edges, start, zone.rooms>>)
    BY Runs
  <2> QED BY <1>1, <2>1
<1>3. Is(W)
  BY <1>2
<1>4. ZoneExits(zone, start) = W[Len(edges)]
  BY DEF ZoneExits
<1> HIDE DEF W, Is
<1> QED BY <1>1, <1>3, <1>4

LEMMA ZonesLoop ==
    ASSUME NEW zones, NEW seed, NEW start, NEW anchor, Len(zones) \in Nat, zones # <<>>
    PROVE  \E u : /\ Looping(u, "zones", [intents |-> <<>>, next |-> start, last |-> anchor], Len(zones), <<zones, seed>>)
                  /\ Generate(zones, seed, start, anchor) =
                        [ok |-> TRUE,
                         intents |-> u[Len(zones)].intents
                                     \o <<I("exit", u[Len(zones)].next, "out", Unset, start, anchor)>> \o Layout(start),
                         next |-> u[Len(zones)].next + 1]
<1> DEFINE first == [intents |-> <<>>, next |-> start, last |-> anchor]
           Is(u) == u = [z \in 0..Len(zones) |-> IF z = 0 THEN first ELSE Zone(zones, z, seed, u[z - 1])]
           W == CHOOSE u : Is(u)
<1>1. \A u : Looping(u, "zones", first, Len(zones), <<zones, seed>>) <=> Is(u)
  BY DEF Looping, Turn
<1>2. \E u : Is(u)
  <2> HIDE DEF Is
  <2>1. \E u : Looping(u, "zones", first, Len(zones), <<zones, seed>>)
    BY Runs
  <2> QED BY <1>1, <2>1
<1>3. Is(W)
  BY <1>2
<1>4. Generate(zones, seed, start, anchor) =
        [ok |-> TRUE,
         intents |-> W[Len(zones)].intents \o <<I("exit", W[Len(zones)].next, "out", Unset, start, anchor)>> \o Layout(start),
         next |-> W[Len(zones)].next + 1]
  BY DEF Generate
<1> HIDE DEF W, Is
<1> QED BY <1>1, <1>3, <1>4
-----------------------------------------------------------------------------
(* Batches *)

IsSeq(s) == s \in Seq(Range(s))

LEMMA Concat ==
    ASSUME NEW s, IsSeq(s), NEW u, IsSeq(u)
    PROVE  /\ IsSeq(s \o u)
           /\ Len(s) \in Nat /\ Len(u) \in Nat /\ Len(s \o u) = Len(s) + Len(u)
           /\ \A i \in 1..Len(s) : (s \o u)[i] = s[i]
           /\ \A i \in (Len(s) + 1)..(Len(s) + Len(u)) : i - Len(s) \in 1..Len(u) /\ (s \o u)[i] = u[i - Len(s)]
<1> DEFINE S == Range(s) \cup Range(u)
<1>1. s \in Seq(S) /\ u \in Seq(S)
  BY DEF IsSeq
<1> HIDE DEF S
<1>2. /\ s \o u \in Seq(S)
      /\ Len(s \o u) = Len(s) + Len(u)
      /\ \A i \in 1..(Len(s) + Len(u)) : (s \o u)[i] = IF i <= Len(s) THEN s[i] ELSE u[i - Len(s)]
  BY <1>1, ConcatProperties
<1>3. Len(s) \in Nat /\ Len(u) \in Nat
  BY <1>1
<1>4. s \o u \in Seq(Range(s \o u))
  <2> DEFINE c == s \o u
  <2>1. c \in Seq(S)
    BY <1>2
  <2> HIDE DEF c
  <2>2. c \in Seq(Range(c))
    BY <2>1 DEF Range
  <2> QED BY <2>2 DEF c
<1> QED BY <1>2, <1>3, <1>4 DEF IsSeq

LEMMA Listed ==
    ASSUME NEW s, NEW n \in Nat, NEW t, s = [i \in 1..n |-> t[i]]
    PROVE  IsSeq(s) /\ Len(s) = n
  BY DEF IsSeq, Range

LEMMA OneIsSeq == \A x : IsSeq(<<x>>) /\ Len(<<x>>) = 1 /\ <<x>>[1] = x
<1> SUFFICES ASSUME NEW x PROVE IsSeq(<<x>>) /\ Len(<<x>>) = 1 /\ <<x>>[1] = x
  OBVIOUS
<1>1. <<x>> \in Seq({x}) /\ Len(<<x>>) = 1 /\ <<x>>[1] = x
  OBVIOUS
<1> QED BY <1>1 DEF IsSeq, Range

LEMMA SeqsAre ==
    ASSUME NEW S, NEW s \in Seq(S)
    PROVE  IsSeq(s)
  BY DEF IsSeq, Range

LEMMA Appended ==
    ASSUME NEW s, IsSeq(s), NEW x
    PROVE  IsSeq(Append(s, x)) /\ Len(Append(s, x)) = Len(s) + 1
<1> DEFINE S == Range(s) \cup {x}
           c == Append(s, x)
<1>1. s \in Seq(S) /\ x \in S
  BY DEF IsSeq
<1> HIDE DEF S
<1>2. c \in Seq(S) /\ Len(c) = Len(s) + 1
  BY <1>1
<1> HIDE DEF c
<1>3. c \in Seq(Range(c))
  BY <1>2 DEF Range
<1> QED BY <1>2, <1>3 DEF IsSeq, c

LEMMA TwoOnes == \A x, y : <<x>> \o <<y>> = <<x, y>>
<1> SUFFICES ASSUME NEW x, NEW y PROVE <<x>> \o <<y>> = <<x, y>>
  OBVIOUS
<1> DEFINE S == {x, y}
           a == <<x>>
           b == <<y>>
           c == <<x, y>>
<1>1. /\ a \in Seq(S) /\ Len(a) = 1 /\ a[1] = x
      /\ b \in Seq(S) /\ Len(b) = 1 /\ b[1] = y
      /\ c \in Seq(S) /\ Len(c) = 2 /\ c[1] = x /\ c[2] = y
  OBVIOUS
<1> HIDE DEF S, a, b, c
<1>2. /\ a \o b \in Seq(S) /\ Len(a \o b) = 2
      /\ \A i \in 1..2 : (a \o b)[i] = IF i <= 1 THEN a[i] ELSE b[i - 1]
  BY <1>1, ConcatProperties
<1>3. (a \o b)[1] = c[1] /\ (a \o b)[2] = c[2]
  BY <1>1, <1>2
<1>4. \A i \in 1..2 : i = 1 \/ i = 2
  OBVIOUS
<1>5. a \o b = c
  BY <1>1, <1>2, <1>3, <1>4, SeqEqual
<1> QED BY <1>5 DEF a, b, c

LEMMA NoneIsSeq == IsSeq(<<>>) /\ Len(<<>>) = 0
  BY DEF IsSeq, Range

Makings == {"spawn", "exit", "clone"}
Purse == {Unset} \cup (Int \X Int)
Sane(x) ==
    /\ x.op = "attr" /\ x.k = "gold" => x.v \in Purse
    /\ x.op = "transfer" => x.v \in Int \X Int
    /\ x.op = "title" => x.k # NoWord

(* Nothing in a batch makes a thing under a reference that is not one of      *)
(* lo..hi-1, and no two things are made under one, but for those in `free`.   *)
Makes1(x, lo, hi, free) == x.op \in Makings => x.t \in free \/ (x.t \in Int /\ lo <= x.t /\ x.t < hi)
Clash(x, y) == x.op \in Makings /\ y.op \in Makings /\ x.t = y.t
Numbered(s, lo, hi, free) ==
    /\ IsSeq(s)
    /\ lo \in Int /\ hi \in Int /\ lo <= hi
    /\ \A i \in 1..Len(s) : Sane(s[i]) /\ Makes1(s[i], lo, hi, free)
    /\ \A i, j \in 1..Len(s) : i # j /\ Clash(s[i], s[j]) => s[i].t \in free

LEMMA Join ==
    ASSUME NEW s, NEW u, NEW lo, NEW mid, NEW hi, NEW free,
           Numbered(s, lo, mid, free), Numbered(u, mid, hi, free)
    PROVE  Numbered(s \o u, lo, hi, free)
<1>1. /\ IsSeq(s \o u)
      /\ Len(s) \in Nat /\ Len(u) \in Nat /\ Len(s \o u) = Len(s) + Len(u)
      /\ \A i \in 1..Len(s) : (s \o u)[i] = s[i]
      /\ \A i \in (Len(s) + 1)..(Len(s) + Len(u)) : i - Len(s) \in 1..Len(u) /\ (s \o u)[i] = u[i - Len(s)]
  BY Concat DEF Numbered
<1>2. lo \in Int /\ mid \in Int /\ hi \in Int /\ lo <= mid /\ mid <= hi
  BY DEF Numbered
<1>3. ASSUME NEW i \in 1..Len(s) PROVE Sane(s[i]) /\ Makes1(s[i], lo, mid, free)
  BY DEF Numbered
<1>4. ASSUME NEW i \in 1..Len(u) PROVE Sane(u[i]) /\ Makes1(u[i], mid, hi, free)
  BY DEF Numbered
<1> DEFINE c == s \o u
<1>5. ASSUME NEW i \in 1..Len(c)
      PROVE  \/ i \in 1..Len(s) /\ c[i] = s[i]
             \/ i \in (Len(s) + 1)..(Len(s) + Len(u)) /\ i - Len(s) \in 1..Len(u) /\ c[i] = u[i - Len(s)]
  BY <1>1
<1>6. IsSeq(c)
  BY <1>1
<1> HIDE DEF c
<1>7. ASSUME NEW i \in 1..Len(c) PROVE Sane(c[i]) /\ Makes1(c[i], lo, hi, free)
  <2>1. CASE i \in 1..Len(s) /\ c[i] = s[i]
    BY <1>2, <1>3, <2>1 DEF Makes1
  <2>2. CASE i - Len(s) \in 1..Len(u) /\ c[i] = u[i - Len(s)]
    BY <1>2, <1>4, <2>2 DEF Makes1
  <2> QED BY <1>5, <2>1, <2>2
<1>8. ASSUME NEW i \in 1..Len(c), NEW j \in 1..Len(c), i # j, Clash(c[i], c[j]) PROVE c[i].t \in free
  <2>1. ASSUME NEW k \in 1..Len(s), NEW l \in 1..Len(u), Clash(s[k], u[l]) PROVE s[k].t \in free
    <3>1. Makes1(s[k], lo, mid, free) /\ Makes1(u[l], mid, hi, free)
      BY <1>3, <1>4
    <3> QED BY <1>2, <2>1, <3>1 DEF Makes1, Clash
  <2>2. CASE i \in 1..Len(s) /\ c[i] = s[i] /\ j \in 1..Len(s) /\ c[j] = s[j]
    BY <1>8, <2>2 DEF Numbered
  <2>3. CASE i \in 1..Len(s) /\ c[i] = s[i] /\ j - Len(s) \in 1..Len(u) /\ c[j] = u[j - Len(s)]
    BY <1>8, <2>1, <2>3
  <2>4. CASE i - Len(s) \in 1..Len(u) /\ c[i] = u[i - Len(s)] /\ j \in 1..Len(s) /\ c[j] = s[j]
    <3>1. Clash(s[j], u[i - Len(s)]) /\ c[i].t = s[j].t
      BY <1>8, <2>4 DEF Clash
    <3> QED BY <2>1, <2>4, <3>1
  <2>5. CASE /\ i - Len(s) \in 1..Len(u) /\ c[i] = u[i - Len(s)]
             /\ j - Len(s) \in 1..Len(u) /\ c[j] = u[j - Len(s)]
    <3>1. i - Len(s) # j - Len(s)
      BY <1>1, <1>8
    <3> QED BY <1>8, <2>5, <3>1 DEF Numbered
  <2> QED BY <1>5, <2>2, <2>3, <2>4, <2>5
<1>9. Numbered(c, lo, hi, free)
  BY <1>2, <1>6, <1>7, <1>8 DEF Numbered
<1> QED BY <1>9 DEF c

LEMMA Wider ==
    ASSUME NEW s, NEW lo, NEW hi, NEW free, Numbered(s, lo, hi, free),
           NEW top \in Int, hi <= top, NEW more, free \subseteq more
    PROVE  Numbered(s, lo, top, more)
  BY DEF Numbered, Makes1

LEMMA Nothing ==
    ASSUME NEW n \in Int, NEW free
    PROVE  Numbered(<<>>, n, n, free)
  BY NoneIsSeq DEF Numbered

(* What makes nothing *)
Quiet(x) == Sane(x) /\ x.op \notin Makings

LEMMA Plainly ==
    ASSUME NEW op, op \notin Makings, op # "transfer", NEW k, op = "title" => k # NoWord,
           NEW v, op = "attr" /\ k = "gold" => v \in Purse
    PROVE  \A t, r, a : Quiet(I(op, t, k, v, r, a))
  BY DEF Quiet, Sane, I

LEMMA One ==
    ASSUME NEW n \in Int, NEW free, NEW x, Quiet(x)
    PROVE  Numbered(<<x>>, n, n, free)
  BY OneIsSeq DEF Numbered, Makes1, Quiet

LEMMA OneMade ==
    ASSUME NEW n \in Int, NEW free, NEW x, Sane(x), x.op \in Makings, x.t = n
    PROVE  Numbered(<<x>>, n, n + 1, free)
  BY OneIsSeq DEF Numbered, Makes1

LEMMA MaybeOne ==
    ASSUME NEW n \in Int, NEW free, NEW x, Quiet(x), NEW c
    PROVE  Numbered(IF c THEN <<x>> ELSE <<>>, n, n, free)
<1>1. Numbered(<<x>>, n, n, free) /\ Numbered(<<>>, n, n, free)
  BY One, Nothing
<1> QED BY <1>1

LEMMA NoneMade ==
    ASSUME NEW s, IsSeq(s), \A i \in 1..Len(s) : Quiet(s[i]), NEW n \in Int, NEW free
    PROVE  Numbered(s, n, n, free)
  BY DEF Numbered, Makes1, Clash, Quiet
-----------------------------------------------------------------------------
(* Maps made into rooms *)

IsMap(tpl) ==
    /\ tpl.rows \in Seq(Seq(STRING))
    /\ \A at \in DOMAIN tpl.cells : IsSeq(tpl.cells[at].things)

LEMMA WidthIsNat ==
    ASSUME NEW tpl, IsMap(tpl)
    PROVE  Width(tpl) \in Nat /\ Height(tpl) \in Nat /\ Width(tpl) * Height(tpl) \in Nat
<1> DEFINE N == Len(tpl.rows)
           long(i) == Len(tpl.rows[i])
           S == {n \in 0..N : \E b \in {long(i) : i \in 1..n} \cup {0} : \A i \in 1..n : long(i) <= b}
<1>1. N \in Nat /\ DOMAIN tpl.rows = 1..N
  BY DEF IsMap
<1>2. \A i \in 1..N : long(i) \in Nat
  BY DEF IsMap
<1> HIDE DEF long, N
<1>3. 0 \in S
  BY <1>1
<1>4. ASSUME NEW n \in 1..N, n - 1 \in S PROVE n \in S
  <2>1. PICK b \in {long(i) : i \in 1..(n - 1)} \cup {0} : \A i \in 1..(n - 1) : long(i) <= b
    BY <1>4
  <2>2. b \in Nat /\ long(n) \in Nat /\ \A i \in 1..n : i \in 1..(n - 1) \/ i = n
    BY <1>1, <1>2
  <2>3. CASE b <= long(n)
    <3>1. \A i \in 1..n : long(i) <= long(n)
      BY <1>1, <1>2, <2>1, <2>2, <2>3
    <3>2. long(n) \in {long(i) : i \in 1..n} \cup {0}
      OBVIOUS
    <3> QED BY <3>1, <3>2
  <2>4. CASE ~(b <= long(n))
    <3>1. \A i \in 1..n : long(i) <= b
      BY <2>1, <2>2, <2>4
    <3>2. b \in {long(i) : i \in 1..n} \cup {0}
      BY <1>1
    <3> QED BY <3>1, <3>2
  <2> QED BY <2>3, <2>4
<1>5. N \in S
  <2> HIDE DEF S
  <2>1. \A i \in 0..N : i \in S
    BY <1>1, <1>3, <1>4, Climb
  <2> QED BY <1>1, <2>1
<1> DEFINE T == {long(i) : i \in 1..N} \cup {0}
<1>6. \E b \in T : \A t \in T : b >= t
  <2>1. PICK b \in T : \A i \in 1..N : long(i) <= b
    BY <1>5
  <2>2. b \in Nat
    BY <1>2
  <2> QED BY <1>2, <2>1, <2>2
<1>7. Max(T) \in T
  <2> HIDE DEF T
  <2> QED BY <1>6 DEF Max
<1>8. Width(tpl) = Max(T)
  BY <1>1 DEF Width, long
<1>9. Width(tpl) \in Nat /\ Height(tpl) \in Nat
  BY <1>1, <1>2, <1>7, <1>8 DEF Height, N
<1>10. \A a, b \in Nat : a * b \in Nat
  OBVIOUS
<1> QED BY <1>9, <1>10

LEMMA OverrideIsMap ==
    ASSUME NEW tpl, IsMap(tpl), NEW x, NEW y
    PROVE  IsSeq(Override(tpl, x, y).things)
  BY NoneIsSeq DEF IsMap, Override, Plain

LEMMA MarksMakeNothing ==
    ASSUME NEW tpl, NEW x, NEW y, NEW room, NEW n \in Int
    PROVE  Numbered(Marks(tpl, x, y, room), n, n, {})
<1> DEFINE at == I("attr", room, "cell", <<x, y>>, Nobody, Nobody)
           on == I("attr", room, "terrain", <<1, 1>>, Nobody, Nobody)
           of == I("tag", room, tpl.name, Unset, Nobody, Nobody)
           lock == I("effect", room, "set_lock", Unset, Nobody, Nobody)
           b == IF tpl.terrain[Drawn(tpl, x, y)].attrs THEN <<on>> ELSE <<>>
           d == IF Override(tpl, x, y).lock THEN <<lock>> ELSE <<>>
<1>1. Quiet(at) /\ Quiet(on) /\ Quiet(of) /\ Quiet(lock)
  BY Plainly DEF Makings
<1>2. Marks(tpl, x, y, room) = ((<<at>> \o b) \o <<of>>) \o d
  BY DEF Marks
<1> HIDE DEF at, on, of, lock
<1>3. Numbered(<<at>>, n, n, {}) /\ Numbered(<<of>>, n, n, {})
  BY <1>1, One
<1>4. Numbered(b, n, n, {}) /\ Numbered(d, n, n, {})
  BY <1>1, MaybeOne
<1> HIDE DEF b, d
<1>5. Numbered((<<at>> \o b) \o <<of>>, n, n, {})
  BY <1>3, <1>4, Join
<1> QED BY <1>2, <1>4, <1>5, Join

LEMMA ThingsAreNumbered ==
    ASSUME NEW ov, IsSeq(ov.things), NEW room, NEW n \in Int
    PROVE  Numbered(Things(ov, room, n), n, n + Len(ov.things), {})
<1> DEFINE t == [i \in 1..Len(ov.things) |-> I("spawn", n + i - 1, ov.things[i], Unset, room, Nobody)]
<1>1. Len(ov.things) \in Nat /\ DOMAIN ov.things = 1..Len(ov.things)
  BY DEF IsSeq
<1>2. Things(ov, room, n) = t
  BY <1>1 DEF Things
<1>3. IsSeq(t) /\ Len(t) = Len(ov.things)
  BY <1>1, Listed
<1>4. ASSUME NEW i \in 1..Len(t) PROVE t[i].op = "spawn" /\ t[i].t = n + i - 1
  BY <1>3 DEF I
<1> HIDE DEF t
<1>5. ASSUME NEW i \in 1..Len(t) PROVE Sane(t[i]) /\ Makes1(t[i], n, n + Len(t), {})
  BY <1>1, <1>3, <1>4 DEF Sane, Makes1
<1>6. ASSUME NEW i \in 1..Len(t), NEW j \in 1..Len(t), i # j PROVE ~Clash(t[i], t[j])
  BY <1>1, <1>3, <1>4, <1>6 DEF Clash
<1> QED BY <1>1, <1>2, <1>3, <1>5, <1>6 DEF Numbered

(* What the loop over the cells has so far *)
Laid(st, start) ==
    /\ {"intents", "next", "rooms"} \subseteq DOMAIN st
    /\ Numbered(st.intents, start, st.next, {})
    /\ IsSeq(st.rooms)

LEMMA FurnishLays ==
    ASSUME NEW tpl, IsMap(tpl), NEW x, NEW y, NEW st, NEW start, Laid(st, start), NEW room,
           NEW fresh, Numbered(fresh, st.next, st.next + Len(fresh), {})
    PROVE  Laid(Furnish(tpl, x, y, st, room, fresh), start)
<1> DEFINE ov == Override(tpl, x, y)
           next == st.next + Len(fresh)
           x1 == I("attr", room, "encounters", <<1, 1>>, Nobody, Nobody)
           enc == IF ov.encounters THEN <<x1>> ELSE <<>>
           all == (((st.intents \o fresh) \o Marks(tpl, x, y, room)) \o Things(ov, room, next)) \o enc
           top == next + Len(ov.things)
           rooms == Append(st.rooms, [at |-> <<x, y>>, room |-> room])
           good == \A i \in DOMAIN ov.things : ov.things[i] # BadKind
<1>1. next \in Int
  BY DEF Numbered
<1>2. IsSeq(ov.things)
  BY OverrideIsMap
<1>3. top \in Int
  BY <1>1, <1>2 DEF IsSeq
<1>4. Numbered(enc, top, top, {})
  <2>1. Quiet(x1)
    BY Plainly DEF Makings
  <2> HIDE DEF top, x1
  <2> QED BY <1>3, <2>1, MaybeOne
<1>5. Numbered(Things(ov, room, next), next, top, {})
  <2> HIDE DEF next
  <2> QED BY <1>1, <1>2, ThingsAreNumbered
<1>6. Numbered(Marks(tpl, x, y, room), next, next, {})
  <2> HIDE DEF next
  <2> QED BY <1>1, MarksMakeNothing
<1>7. Numbered(st.intents \o fresh, start, next, {})
  BY Join DEF Laid
<1>8. Numbered(all, start, top, {})
  <2> HIDE DEF next, top, enc
  <2>1. Numbered((st.intents \o fresh) \o Marks(tpl, x, y, room), start, next, {})
    BY <1>6, <1>7, Join
  <2>2. Numbered(((st.intents \o fresh) \o Marks(tpl, x, y, room)) \o Things(ov, room, next), start, top, {})
    BY <1>5, <2>1, Join
  <2> QED BY <1>4, <2>2, Join
<1>9. IsSeq(rooms)
  BY Appended DEF Laid
<1>10. Furnish(tpl, x, y, st, room, fresh) =
          [st EXCEPT !.intents = all, !.next = top, !.rooms = rooms, !.prev = room, !.ok = good]
  BY DEF Furnish
<1> HIDE DEF all, top, rooms, good
<1> QED BY <1>8, <1>9, <1>10 DEF Laid

LEMMA CellLays ==
    ASSUME NEW w, NEW tpl, IsMap(tpl), NEW x, NEW y, NEW st, NEW start, Laid(st, start)
    PROVE  Laid(Cell(w, tpl, x, y, st), start)
<1> DEFINE spawned == <<I("spawn", st.next, "room", Unset, st.prev, Nobody)>>
<1>1. Numbered(spawned, st.next, st.next + Len(spawned), {})
  <2>1. st.next \in Int
    BY DEF Laid, Numbered
  <2> DEFINE m == I("spawn", st.next, "room", Unset, st.prev, Nobody)
  <2>2. Sane(m) /\ m.op \in Makings /\ m.t = st.next
    BY DEF I, Sane, Makings
  <2> HIDE DEF m
  <2>3. Numbered(<<m>>, st.next, st.next + 1, {}) /\ Len(<<m>>) = 1
    BY <2>1, <2>2, OneMade, OneIsSeq
  <2> QED BY <2>3 DEF m
<1>2. Numbered(<<>>, st.next, st.next + Len(<<>>), {})
  BY Nothing, NoneIsSeq DEF Laid, Numbered
<1>3. Laid([st EXCEPT !.ok = FALSE], start)
  BY DEF Laid
<1>4. \A room : Laid(Furnish(tpl, x, y, st, room, spawned), start) /\ Laid(Furnish(tpl, x, y, st, room, <<>>), start)
  <2> HIDE DEF spawned
  <2> QED BY <1>1, <1>2, FurnishLays
<1> QED BY <1>3, <1>4 DEF Cell

LEMMA CellsLay ==
    ASSUME NEW w, NEW tpl, IsMap(tpl), NEW start \in Int, NEW anchor
    PROVE  Laid(Cells(w, tpl, start, anchor), start)
<1> DEFINE first == [intents |-> <<>>, next |-> start, rooms |-> <<>>, prev |-> anchor, ok |-> TRUE]
           N == Width(tpl) * Height(tpl)
           x == <<w, tpl, Width(tpl)>>
<1>1. N \in Nat
  BY WidthIsNat
<1>2. PICK u : Looping(u, "cells", first, N, x) /\ Cells(w, tpl, start, anchor) = u[N]
  BY <1>1, CellsLoop
<1>3. Laid(first, start)
  BY Nothing, NoneIsSeq DEF Laid
<1> HIDE DEF first, N
<1>4. /\ u[0] = first
      /\ \A i \in 1..N : u[i] = Turn("cells", i, u[i - 1], x)
  <2> HIDE DEF x
  <2> QED BY <1>1, <1>2, RunIs
<1>5. \A i \in 1..N : u[i] = Cell(w, tpl, (i - 1) % Width(tpl), (i - 1) \div Width(tpl), u[i - 1])
  BY <1>4, Turns
<1> DEFINE S == {i \in 0..N : Laid(u[i], start)}
<1>6. 0 \in S
  BY <1>1, <1>3, <1>4
<1>7. \A i \in 1..N : i - 1 \in S => i \in S
  BY <1>1, <1>5, CellLays
<1>8. N \in S
  <2> HIDE DEF S
  <2> QED BY <1>1, <1>6, <1>7, Climb
<1> QED BY <1>2, <1>8

LEMMA BothWaysAreNumbered ==
    ASSUME NEW n \in Int, NEW a, NEW b, NEW dir
    PROVE  Numbered(BothWays(a, b, dir, n), n, n + 2, {})
<1> DEFINE x == I("exit", n, dir, Unset, a, b)
           y == I("exit", n + 1, Opposite(dir), Unset, b, a)
<1>1. /\ Sane(x) /\ x.op \in Makings /\ x.t = n
      /\ Sane(y) /\ y.op \in Makings /\ y.t = n + 1
  BY DEF I, Sane, Makings
<1>2. BothWays(a, b, dir, n) = <<x>> \o <<y>>
  <2>1. BothWays(a, b, dir, n) = <<x, y>>
    BY DEF BothWays
  <2> HIDE DEF x, y
  <2> QED BY <2>1, TwoOnes
<1> HIDE DEF x, y
<1>3. Numbered(<<x>>, n, n + 1, {}) /\ Numbered(<<y>>, n + 1, (n + 1) + 1, {}) /\ (n + 1) + 1 = n + 2
  BY <1>1, OneMade
<1> QED BY <1>2, <1>3, Join

LEMMA DoorsLay ==
    ASSUME NEW st, NEW start, Laid(st, start), NEW at, NEW dir
    PROVE  Laid(Doors(st, at, dir), start) /\ Doors(st, at, dir).rooms = st.rooms
<1> DEFINE both(a, b) == [st EXCEPT !.intents = @ \o BothWays(a, b, dir, st.next), !.next = @ + 2]
           here == RoomAt(st.rooms, at)
           there == RoomAt(st.rooms, <<at[1] + Delta(dir)[1], at[2] + Delta(dir)[2]>>)
<1>1. ASSUME NEW a, NEW b PROVE Laid(both(a, b), start) /\ both(a, b).rooms = st.rooms
  <2> DEFINE more == st.intents \o BothWays(a, b, dir, st.next)
  <2>1. st.next \in Int
    BY DEF Laid, Numbered
  <2>2. Numbered(more, start, st.next + 2, {})
    BY <2>1, BothWaysAreNumbered, Join DEF Laid
  <2>3. both(a, b) = [st EXCEPT !.intents = more, !.next = st.next + 2]
    OBVIOUS
  <2> HIDE DEF more, both
  <2> QED BY <2>2, <2>3 DEF Laid
<1>2. Doors(st, at, dir) = IF here = {} \/ there = {} THEN st ELSE both(Min(here), Min(there))
  BY Zenon DEF Doors
<1> HIDE DEF both, here, there
<1> QED BY <1>1, <1>2

LEMMA ConnectedLays ==
    ASSUME NEW st, NEW start, Laid(st, start)
    PROVE  Laid(Connected(st), start)
<1> DEFINE N == Len(st.rooms)
<1>1. N \in Nat
  BY DEF Laid, IsSeq
<1>2. PICK u : Looping(u, "doors", st, N, st.rooms) /\ Connected(st) = u[N]
  BY <1>1, DoorsLoop
<1> HIDE DEF N
<1>3. /\ u[0] = st
      /\ \A i \in 1..N : u[i] = Turn("doors", i, u[i - 1], st.rooms)
  BY <1>1, <1>2, RunIs
<1>4. \A i \in 1..N : u[i] = Doors(Doors(u[i - 1], st.rooms[i].at, "east"), st.rooms[i].at, "south")
  BY <1>3, Turns
<1> DEFINE S == {i \in 0..N : Laid(u[i], start)}
<1>5. 0 \in S
  BY <1>1, <1>3
<1>6. \A i \in 1..N : i - 1 \in S => i \in S
  BY <1>1, <1>4, DoorsLay
<1>7. N \in S
  <2> HIDE DEF S
  <2> QED BY <1>1, <1>5, <1>6, Climb
<1> QED BY <1>2, <1>7

(* Whatever map is made into rooms, and wherever, what it makes is numbered   *)
(* in a row.                                                                  *)
LEMMA InstantiateNumbers ==
    ASSUME NEW w, NEW tpl, IsMap(tpl), NEW start \in Int, NEW anchor
    PROVE  LET made == Instantiate(w, tpl, start, anchor) IN Numbered(made.intents, start, made.next, {})
<1> DEFINE st == Cells(w, tpl, start, anchor)
<1>1. Laid(st, start)
  BY CellsLay
<1> HIDE DEF st
<1>2. Laid(Connected(st), start)
  BY <1>1, ConnectedLays
<1>3. Numbered(<<>>, start, start, {})
  BY Nothing
<1>4. Instantiate(w, tpl, start, anchor) =
        IF ~st.ok \/ st.rooms = <<>> THEN [ok |-> FALSE, intents |-> <<>>, next |-> start]
        ELSE [ok |-> TRUE, intents |-> Connected(st).intents, next |-> Connected(st).next]
  BY DEF Instantiate, st
<1> QED BY <1>2, <1>3, <1>4 DEF Laid
-----------------------------------------------------------------------------
(* Dungeons *)

(* A piece of a zone, by name: u has the pieces. *)
WholePiece(first) == [n |-> first, s |-> first, e |-> first, w |-> first, edges |-> <<>>]
CutPiece(half, rest, depth) ==
    IF depth % 2 = 0
    THEN [half EXCEPT !.e = rest.e, !.edges = Append(half.edges \o rest.edges, <<half.e, rest.w, "east">>)]
    ELSE [half EXCEPT !.s = rest.s, !.edges = Append(half.edges \o rest.edges, <<half.s, rest.n, "south">>)]
Half(p) == <<p[1] \div 2, p[2] + 1, p[3]>>
Rest(p) == <<p[1] - p[1] \div 2, p[2] + 1, p[3] + p[1] \div 2>>
PieceOf(u, p) == IF p[1] = 1 THEN WholePiece(p[3]) ELSE CutPiece(u[Half(p)], u[Rest(p)], p[2])
Budgets(n) == (1..n) \X Nat \X Nat
Pieces(u, n) == u = [p \in Budgets(n) |-> PieceOf(u, p)]

LEMMA HalvesAreSmaller ==
    ASSUME NEW n \in Nat, NEW p \in Budgets(n), p[1] # 1
    PROVE  /\ Half(p) \in Budgets(p[1] - 1) /\ Rest(p) \in Budgets(p[1] - 1)
           /\ Half(p)[1] + Rest(p)[1] = p[1]
<1>1. PICK b \in 1..n, d \in Nat, f \in Nat : p = <<b, d, f>>
  BY DEF Budgets
<1>2. b \div 2 \in 1..(b - 1) /\ b - b \div 2 \in 1..(b - 1) /\ b \div 2 \in Nat
  BY <1>1
<1>3. Half(p) = <<b \div 2, d + 1, f>> /\ Rest(p) = <<b - b \div 2, d + 1, f + b \div 2>>
  BY <1>1 DEF Half, Rest
<1>4. d + 1 \in Nat /\ f + b \div 2 \in Nat /\ p[1] = b
  BY <1>1, <1>2
<1> QED BY <1>2, <1>3, <1>4 DEF Budgets

LEMMA PiecesExist ==
    ASSUME NEW N \in Nat
    PROVE  \E u : Pieces(u, N)
<1> DEFINE S == {m \in 0..N : \E u : Pieces(u, m)}
<1>1. 0 \in S
  <2> DEFINE v == [p \in Budgets(0) |-> 0]
  <2>1. Budgets(0) = {}
    BY DEF Budgets
  <2>2. v = [p \in Budgets(0) |-> PieceOf(v, p)]
    <3> HIDE DEF v
    <3>1. v = [p \in Budgets(0) |-> 0]
      BY DEF v
    <3> QED BY <2>1, <3>1
  <2> HIDE DEF v
  <2> QED BY <2>2 DEF Pieces
<1>2. ASSUME NEW m \in 1..N, m - 1 \in S PROVE m \in S
  <2>1. PICK w : Pieces(w, m - 1)
    BY <1>2
  <2> DEFINE v == [p \in Budgets(m) |-> IF p[1] = m THEN PieceOf(w, p) ELSE w[p]]
             t == [p \in Budgets(m) |-> PieceOf(v, p)]
  <2>2. ASSUME NEW p \in Budgets(m - 1) PROVE p \in Budgets(m) /\ p[1] # m /\ p[1] \in 1..(m - 1)
    BY DEF Budgets
  <2>3. ASSUME NEW p \in Budgets(m) PROVE p[1] \in 1..m /\ (p[1] = m \/ p \in Budgets(m - 1))
    BY DEF Budgets
  <2>4. ASSUME NEW p \in Budgets(m - 1) PROVE v[p] = w[p]
    BY <2>2
  <2>5. ASSUME NEW p \in Budgets(m) PROVE PieceOf(v, p) = PieceOf(w, p)
    <3>1. CASE p[1] = 1
      BY <3>1 DEF PieceOf
    <3>2. CASE p[1] # 1
      <4>1. Half(p) \in Budgets(p[1] - 1) /\ Rest(p) \in Budgets(p[1] - 1)
        BY <3>2, HalvesAreSmaller
      <4>2. \A q \in Budgets(p[1] - 1) : q \in Budgets(m - 1)
        BY <2>3 DEF Budgets
      <4>3. v[Half(p)] = w[Half(p)] /\ v[Rest(p)] = w[Rest(p)]
        <5> HIDE DEF v
        <5> QED BY <2>4, <4>1, <4>2
      <4> HIDE DEF v
      <4> QED BY <3>2, <4>3 DEF PieceOf
    <3> QED BY <3>1, <3>2
  <2>6. ASSUME NEW p \in Budgets(m) PROVE v[p] = t[p]
    <3>1. CASE p[1] = m
      <4>1. v[p] = PieceOf(w, p)
        BY <3>1
      <4> HIDE DEF v
      <4> QED BY <2>5, <4>1
    <3>2. CASE p \in Budgets(m - 1)
      <4>1. w[p] = PieceOf(w, p)
        BY <2>1, <3>2 DEF Pieces
      <4>2. v[p] = w[p]
        BY <2>4, <3>2
      <4> HIDE DEF v
      <4> QED BY <2>5, <4>1, <4>2
    <3> QED BY <2>3, <3>1, <3>2
  <2>7. v = t
    <3>1. v = [p \in Budgets(m) |-> v[p]] /\ t = [p \in Budgets(m) |-> t[p]]
      OBVIOUS
    <3> HIDE DEF v, t
    <3> QED BY <2>6, <3>1
  <2>8. Pieces(v, m)
    BY <2>7 DEF Pieces
  <2> HIDE DEF v, t
  <2> QED BY <2>8
<1>3. N \in S
  <2> HIDE DEF S
  <2>1. \A i \in 0..N : i \in S
    BY <1>1, <1>2, Climb
  <2> QED BY <2>1
<1> QED BY <1>3

(* A piece with room for n rooms is cut n - 1 times. *)
Doored(piece, n) == "edges" \in DOMAIN piece /\ IsSeq(piece.edges) /\ Len(piece.edges) = n - 1

LEMMA CutsAddUp ==
    ASSUME NEW half, NEW rest, NEW depth, NEW a \in Int, NEW b \in Int, Doored(half, a), Doored(rest, b)
    PROVE  Doored(CutPiece(half, rest, depth), a + b)
<1> DEFINE l == half.edges
           r == rest.edges
           both == l \o r
           east == Append(both, <<half.e, rest.w, "east">>)
           south == Append(both, <<half.s, rest.n, "south">>)
<1>1. IsSeq(l) /\ IsSeq(r) /\ Len(l) = a - 1 /\ Len(r) = b - 1
  BY DEF Doored
<1>2. IsSeq(both) /\ Len(both) = Len(l) + Len(r)
  <2> HIDE DEF l, r
  <2> QED BY <1>1, Concat
<1>3. IsSeq(both) /\ Len(both) = (a - 1) + (b - 1)
  <2> HIDE DEF l, r, both
  <2> QED BY <1>1, <1>2
<1>4. /\ IsSeq(east) /\ Len(east) = (a + b) - 1
      /\ IsSeq(south) /\ Len(south) = (a + b) - 1
  <2> HIDE DEF both
  <2> QED BY <1>3, Appended
<1>5. "edges" \in DOMAIN half
  BY DEF Doored
<1>6. Doored([half EXCEPT !.e = rest.e, !.edges = east], a + b)
  <2> HIDE DEF east
  <2> QED BY <1>4, <1>5 DEF Doored
<1>7. Doored([half EXCEPT !.s = rest.s, !.edges = south], a + b)
  <2> HIDE DEF south
  <2> QED BY <1>4, <1>5 DEF Doored
<1>8. CutPiece(half, rest, depth) =
        IF depth % 2 = 0 THEN [half EXCEPT !.e = rest.e, !.edges = east] ELSE [half EXCEPT !.s = rest.s, !.edges = south]
  BY DEF CutPiece
<1> HIDE DEF east, south
<1> QED BY <1>6, <1>7, <1>8

LEMMA PiecesAreDoored ==
    ASSUME NEW N \in Nat, NEW u, Pieces(u, N)
    PROVE  \A p \in Budgets(N) : Doored(u[p], p[1])
<1> DEFINE S == {m \in 0..N : \A p \in Budgets(m) : Doored(u[p], p[1])}
<1>1. 0 \in S
  BY DEF Budgets
<1>2. ASSUME NEW m \in 1..N, m - 1 \in S PROVE m \in S
  <2> SUFFICES ASSUME NEW p \in Budgets(m) PROVE Doored(u[p], p[1])
    OBVIOUS
  <2>1. p \in Budgets(N) /\ p[1] \in 1..m /\ \A q \in Budgets(p[1] - 1) : q \in Budgets(m - 1)
    BY DEF Budgets
  <2>2. u[p] = PieceOf(u, p)
    BY <2>1 DEF Pieces
  <2>3. CASE p[1] = 1
    <3>1. u[p] = WholePiece(p[3])
      BY <2>2, <2>3 DEF PieceOf
    <3> QED BY <2>3, <3>1, NoneIsSeq DEF WholePiece, Doored
  <2>4. CASE p[1] # 1
    <3>1. /\ Half(p) \in Budgets(p[1] - 1) /\ Rest(p) \in Budgets(p[1] - 1)
          /\ Half(p)[1] + Rest(p)[1] = p[1]
      BY <2>1, <2>4, HalvesAreSmaller
    <3>2. Doored(u[Half(p)], Half(p)[1]) /\ Doored(u[Rest(p)], Rest(p)[1])
      BY <1>2, <2>1, <3>1
    <3>3. Half(p)[1] \in Int /\ Rest(p)[1] \in Int
      BY <3>1 DEF Budgets
    <3>4. u[p] = CutPiece(u[Half(p)], u[Rest(p)], p[2])
      BY <2>2, <2>4 DEF PieceOf
    <3> QED BY <3>1, <3>2, <3>3, <3>4, CutsAddUp
  <2> QED BY <2>3, <2>4
<1>3. N \in S
  <2> HIDE DEF S
  <2>1. \A i \in 0..N : i \in S
    BY <1>1, <1>2, Climb
  <2> QED BY <2>1
<1> QED BY <1>3

(* A zone of n rooms has n - 1 doors, whatever the cuts. *)
LEMMA LayoutIsTree ==
    ASSUME NEW n \in Nat \ {0}
    PROVE  IsSeq(BspLayout(n)) /\ Len(BspLayout(n)) = n - 1
<1> DEFINE W == CHOOSE u : Pieces(u, n)
<1>1. \E u : Pieces(u, n)
  BY PiecesExist
<1>2. Pieces(W, n)
  <2> HIDE DEF W
  <2> QED BY <1>1 DEF W
<1>3. BspLayout(n) = W[<<n, 0, 1>>].edges
  BY DEF BspLayout, BuildBsp, Pieces, Budgets, PieceOf, Half, Rest, WholePiece, CutPiece
<1> HIDE DEF W
<1>4. <<n, 0, 1>> \in Budgets(n) /\ <<n, 0, 1>>[1] = n
  BY DEF Budgets
<1>5. Doored(W[<<n, 0, 1>>], n)
  BY <1>2, <1>4, PiecesAreDoored
<1> QED BY <1>3, <1>5 DEF Doored

IsZone(zone) == zone.rooms \in Nat \ {0}

LEMMA ZoneRoomIsNumbered ==
    ASSUME NEW zone, NEW z, NEW last, NEW i, NEW seed, NEW room \in Int, NEW before
    PROVE  Numbered(ZoneRoom(zone, z, last, i, seed, room, before), room, room + 1, {})
<1> DEFINE made == I("spawn", room, "room", Unset, before, Nobody)
           seeded == I("attr", room, "seed", seed, Nobody, Nobody)
           tag(k) == I("tag", room, k, Unset, Nobody, Nobody)
           kind == IF i \in zone.narrow THEN <<tag("dungeon:corridor")>> ELSE <<tag("dungeon:room")>>
           entrance == IF z = 1 /\ i = 1 THEN <<tag("dungeon:entrance")>> ELSE <<>>
           exit == IF i = zone.rooms THEN <<tag("dungeon:exit")>> ELSE <<>>
           boss == IF last /\ i = zone.rooms THEN <<tag("dungeon:boss")>> ELSE <<>>
           fight == I("attr", room, "encounters", <<1, 1>>, Nobody, Nobody)
           fights == IF (z # 1 \/ i # 1) /\ (i \in zone.fights \/ (last /\ i = zone.rooms)) THEN <<fight>> ELSE <<>>
           hook == I("effect", room, "set_script", Unset, Nobody, Nobody)
<1>1. /\ Sane(made) /\ made.op \in Makings /\ made.t = room
      /\ Quiet(seeded) /\ (\A k : Quiet(tag(k))) /\ Quiet(fight) /\ Quiet(hook)
  <2>1. Sane(made) /\ made.op \in Makings /\ made.t = room
    BY DEF I, Sane, Makings
  <2>2. Quiet(seeded) /\ Quiet(fight) /\ Quiet(hook)
    BY Plainly DEF Makings
  <2>3. ASSUME NEW k PROVE Quiet(tag(k))
    BY Plainly DEF Makings
  <2> QED BY <2>1, <2>2, <2>3
<1>2. ZoneRoom(zone, z, last, i, seed, room, before) =
        (((((<<made, seeded>> \o kind) \o entrance) \o exit) \o boss) \o fights) \o <<hook>>
  BY DEF ZoneRoom
<1>3. <<made, seeded>> = <<made>> \o <<seeded>>
  <2> HIDE DEF made, seeded
  <2> QED BY TwoOnes
<1> HIDE DEF made, seeded, tag, fight, hook
<1> DEFINE top == room + 1
<1>4. Numbered(<<made>>, room, top, {})
  BY <1>1, OneMade
<1>5. top \in Int
  OBVIOUS
<1> HIDE DEF top
<1>6. /\ Numbered(<<seeded>>, top, top, {}) /\ Numbered(<<hook>>, top, top, {})
      /\ \A k : Numbered(<<tag(k)>>, top, top, {})
  BY <1>1, <1>5, One
<1>7. /\ Numbered(entrance, top, top, {}) /\ Numbered(exit, top, top, {}) /\ Numbered(boss, top, top, {})
      /\ Numbered(fights, top, top, {})
  BY <1>1, <1>5, MaybeOne
<1>8. Numbered(kind, top, top, {})
  BY <1>6
<1> HIDE DEF kind, entrance, exit, boss, fights
<1> DEFINE a == <<made>> \o <<seeded>>
           b == a \o kind
           c == b \o entrance
           d == c \o exit
           e == d \o boss
           f == e \o fights
           g == f \o <<hook>>
<1>9. Numbered(a, room, top, {})
  BY <1>4, <1>6, Join
<1> HIDE DEF a
<1>10. Numbered(b, room, top, {})
  BY <1>8, <1>9, Join
<1> HIDE DEF b
<1>11. Numbered(c, room, top, {})
  BY <1>7, <1>10, Join
<1> HIDE DEF c
<1>12. Numbered(d, room, top, {})
  BY <1>7, <1>11, Join
<1> HIDE DEF d
<1>13. Numbered(e, room, top, {})
  BY <1>7, <1>12, Join
<1> HIDE DEF e
<1>14. Numbered(f, room, top, {})
  BY <1>7, <1>13, Join
<1> HIDE DEF f
<1>15. Numbered(g, room, top, {})
  BY <1>6, <1>14, Join
<1>16. ZoneRoom(zone, z, last, i, seed, room, before) = g
  BY <1>2, <1>3 DEF a, b, c, d, e, f
<1> HIDE DEF g
<1> QED BY <1>15, <1>16 DEF top

LEMMA ZoneRoomsAreNumbered ==
    ASSUME NEW zone, IsZone(zone), NEW z, NEW last, NEW seed, NEW start \in Int, NEW before
    PROVE  Numbered(ZoneRooms(zone, z, last, seed, start, before), start, start + zone.rooms, {})
<1> DEFINE N == zone.rooms
           x == <<zone, z, last, seed, start, before>>
<1>1. N \in Nat
  BY DEF IsZone
<1>2. PICK u : Looping(u, "rooms", <<>>, N, x) /\ ZoneRooms(zone, z, last, seed, start, before) = u[N]
  BY <1>1, RoomsLoop
<1>3. u[0] = <<>> /\ \A i \in 1..N : u[i] = Turn("rooms", i, u[i - 1], x)
  <2> HIDE DEF x, N
  <2> QED BY <1>1, <1>2, RunIs
<1>4. \A i \in 1..N : u[i] = u[i - 1] \o ZoneRoom(zone, z, last, i, seed, start + i - 1,
                                                 IF i = 1 THEN before ELSE start + i - 2)
  BY <1>3 DEF Turn
<1> HIDE DEF N
<1> DEFINE S == {i \in 0..N : Numbered(u[i], start, start + i, {})}
<1>5. 0 \in S
  BY <1>1, <1>3, Nothing
<1>6. ASSUME NEW i \in 1..N, i - 1 \in S PROVE i \in S
  <2> DEFINE t == ZoneRoom(zone, z, last, i, seed, start + i - 1, IF i = 1 THEN before ELSE start + i - 2)
             m == start + i - 1
  <2>1. Numbered(t, m, m + 1, {})
    <3>1. m \in Int
      OBVIOUS
    <3> QED BY <3>1, ZoneRoomIsNumbered
  <2>2. u[i] = u[i - 1] \o t
    BY <1>4
  <2>3. Numbered(u[i - 1], start, m, {})
    <3>1. start + (i - 1) = m
      OBVIOUS
    <3> QED BY <1>6, <3>1
  <2>4. m + 1 = start + i /\ i \in 0..N
    OBVIOUS
  <2> HIDE DEF t, m
  <2> QED BY <2>1, <2>2, <2>3, <2>4, Join
<1>7. N \in S
  <2> HIDE DEF S
  <2> QED BY <1>1, <1>5, <1>6, Climb
<1> QED BY <1>2, <1>7 DEF N

LEMMA ZoneExitsAreNumbered ==
    ASSUME NEW zone, IsZone(zone), NEW start \in Int
    PROVE  Numbered(ZoneExits(zone, start), start + zone.rooms, start + zone.rooms + 2 * (zone.rooms - 1), {})
<1> DEFINE edges == BspLayout(zone.rooms)
           N == Len(edges)
           low == start + zone.rooms
           x == <<edges, start, zone.rooms>>
<1>1. N \in Nat /\ N = zone.rooms - 1 /\ low \in Int
  BY LayoutIsTree DEF IsZone
<1> HIDE DEF edges
<1>2. PICK u : Looping(u, "exits", <<>>, N, x) /\ ZoneExits(zone, start) = u[N]
  BY <1>1, ExitsLoop DEF edges
<1>3. u[0] = <<>> /\ \A i \in 1..N : u[i] = Turn("exits", i, u[i - 1], x)
  <2>1. N \in Nat /\ Looping(u, "exits", <<>>, N, x)
    BY <1>1, <1>2
  <2> HIDE DEF x, N, low
  <2> QED BY <2>1, RunIs
<1>4. \A i \in 1..N : u[i] = u[i - 1] \o BothWays(start + edges[i][1] - 1, start + edges[i][2] - 1, edges[i][3],
                                                 low + 2 * (i - 1))
  BY <1>3 DEF Turn
<1> HIDE DEF N, low
<1> DEFINE S == {i \in 0..N : Numbered(u[i], low, low + 2 * i, {})}
<1>5. 0 \in S
  BY <1>1, <1>3, Nothing
<1>6. ASSUME NEW i \in 1..N, i - 1 \in S PROVE i \in S
  <2> DEFINE t == BothWays(start + edges[i][1] - 1, start + edges[i][2] - 1, edges[i][3], low + 2 * (i - 1))
             m == low + 2 * (i - 1)
  <2>1. Numbered(t, m, m + 2, {})
    <3>1. m \in Int
      BY <1>1
    <3> QED BY <3>1, BothWaysAreNumbered
  <2>2. u[i] = u[i - 1] \o t
    BY <1>4
  <2>3. Numbered(u[i - 1], low, m, {})
    BY <1>6
  <2>4. m + 2 = low + 2 * i /\ i \in 0..N
    BY <1>1
  <2> HIDE DEF t, m
  <2> QED BY <2>1, <2>2, <2>3, <2>4, Join
<1>7. N \in S
  <2> HIDE DEF S
  <2> QED BY <1>1, <1>5, <1>6, Climb
<1> QED BY <1>1, <1>2, <1>7 DEF low

LEMMA DeeperIsNumbered ==
    ASSUME NEW n \in Int, NEW before, NEW room
    PROVE  Numbered(Deeper(before, room, n), n, n + 2, {})
<1> DEFINE x == I("exit", n, "deeper", Unset, before, room)
           y == I("exit", n + 1, "back", Unset, room, before)
<1>1. /\ Sane(x) /\ x.op \in Makings /\ x.t = n
      /\ Sane(y) /\ y.op \in Makings /\ y.t = n + 1
  BY DEF I, Sane, Makings
<1>2. Deeper(before, room, n) = <<x>> \o <<y>>
  <2>1. Deeper(before, room, n) = <<x, y>>
    BY DEF Deeper
  <2> HIDE DEF x, y
  <2> QED BY <2>1, TwoOnes
<1> HIDE DEF x, y
<1>3. Numbered(<<x>>, n, n + 1, {}) /\ Numbered(<<y>>, n + 1, (n + 1) + 1, {}) /\ (n + 1) + 1 = n + 2
  BY <1>1, OneMade
<1> QED BY <1>2, <1>3, Join

(* What the loop over the zones has so far *)
Dug(st, start) == {"intents", "next"} \subseteq DOMAIN st /\ Numbered(st.intents, start, st.next, {})

LEMMA ZoneDigs ==
    ASSUME NEW zones, NEW z \in Nat \ {0}, IsZone(zones[z]), NEW seed, NEW st, NEW start \in Int, Dug(st, start),
           z = 1 => st.intents = <<>> /\ st.next = start
    PROVE  Dug(Zone(zones, z, seed, st), start)
<1> DEFINE rooms == zones[z].rooms
           made == ZoneRooms(zones[z], z, z = Len(zones), seed, st.next, st.last)
           doors == ZoneExits(zones[z], st.next)
           own == made \o doors
           next == st.next + rooms + 2 * (rooms - 1)
           deeper == Deeper(st.last, st.next, next)
           before == st.intents \o own
           all == before \o deeper
<1>1. st.next \in Int /\ next \in Int
  BY DEF Dug, Numbered, IsZone
<1>2. Numbered(made, st.next, st.next + rooms, {})
  BY <1>1, ZoneRoomsAreNumbered
<1>3. Numbered(doors, st.next + rooms, next, {})
  BY <1>1, ZoneExitsAreNumbered
<1>4. Numbered(own, st.next, next, {})
  <2> HIDE DEF made, doors, next
  <2> QED BY <1>2, <1>3, Join
<1>5. Numbered(deeper, next, next + 2, {})
  <2> HIDE DEF next
  <2> QED BY <1>1, DeeperIsNumbered
<1>6. Numbered(before, start, next, {})
  <2> HIDE DEF own, next
  <2> QED BY <1>4, Join DEF Dug
<1>7. Numbered(all, start, next + 2, {})
  <2> HIDE DEF before, deeper, next
  <2> QED BY <1>5, <1>6, Join
<1>8. Zone(zones, z, seed, st) =
        IF z = 1 THEN [intents |-> own, next |-> next, last |-> st.next + rooms - 1]
        ELSE [intents |-> all, next |-> next + 2, last |-> st.next + rooms - 1]
  <2>1. (st.intents \o own) \o deeper = st.intents \o own \o deeper
    OBVIOUS
  <2> QED BY <2>1 DEF Zone
<1> HIDE DEF own, all, next
<1> QED BY <1>4, <1>7, <1>8 DEF Dug

(* However many zones, of however many rooms: what a dungeon is made of is    *)
(* numbered in a row.                                                         *)
LEMMA GenerateNumbers ==
    ASSUME NEW zones, IsSeq(zones), \A z \in 1..Len(zones) : IsZone(zones[z]), NEW seed, NEW start \in Int, NEW anchor
    PROVE  LET made == Generate(zones, seed, start, anchor) IN Numbered(made.intents, start, made.next, {})
<1>1. CASE zones = <<>>
  <2>1. Generate(zones, seed, start, anchor) = [ok |-> FALSE, intents |-> <<>>, next |-> start]
    BY <1>1 DEF Generate
  <2> QED BY <2>1, Nothing
<1>2. CASE zones # <<>>
  <2> DEFINE N == Len(zones)
             first == [intents |-> <<>>, next |-> start, last |-> anchor]
             x == <<zones, seed>>
             out(n) == I("exit", n, "out", Unset, start, anchor)
             lay == I("attr", start, "layout", <<1, 1>>, Nobody, Nobody)
  <2>1. N \in Nat
    BY DEF IsSeq
  <2>2. PICK u : /\ Looping(u, "zones", first, N, x)
                 /\ Generate(zones, seed, start, anchor) =
                       [ok |-> TRUE, intents |-> u[N].intents \o <<out(u[N].next)>> \o Layout(start),
                        next |-> u[N].next + 1]
    BY <1>2, <2>1, ZonesLoop
  <2>3. u[0] = first /\ \A i \in 1..N : u[i] = Turn("zones", i, u[i - 1], x)
    <3>1. N \in Nat /\ Looping(u, "zones", first, N, x)
      BY <2>1, <2>2
    <3> HIDE DEF x, N, first
    <3>2. u[0] = first
      BY <3>1, RunIs
    <3>3. \A i \in 1..N : u[i] = Turn("zones", i, u[i - 1], x)
      BY <3>1, RunIs
    <3> QED BY <3>2, <3>3
  <2>4. ASSUME NEW i \in 1..N PROVE u[i] = Zone(zones, i, seed, u[i - 1])
    <3>1. x[1] = zones /\ x[2] = seed
      OBVIOUS
    <3>2. u[i] = Turn("zones", i, u[i - 1], x)
      BY <2>3
    <3> HIDE DEF x, N, first
    <3>3. Turn("zones", i, u[i - 1], x) = Zone(x[1], i, x[2], u[i - 1])
      BY Turns
    <3> QED BY <3>1, <3>2, <3>3
  <2>5. Dug(first, start) /\ first.intents = <<>> /\ first.next = start
    BY Nothing DEF Dug
  <2>6. \A i \in 1..N : IsZone(zones[i])
    OBVIOUS
  <2> HIDE DEF N, first
  <2> DEFINE S == {i \in 0..N : Dug(u[i], start)}
  <2>7. 0 \in S
    BY <2>1, <2>3, <2>5
  <2>8. ASSUME NEW i \in 1..N, i - 1 \in S PROVE i \in S
    <3>1. i \in Nat \ {0} /\ IsZone(zones[i]) /\ Dug(u[i - 1], start) /\ u[i] = Zone(zones, i, seed, u[i - 1])
      BY <2>4, <2>6, <2>8
    <3>2. i = 1 => u[i - 1].intents = <<>> /\ u[i - 1].next = start
      BY <2>3, <2>5
    <3>3. Dug(Zone(zones, i, seed, u[i - 1]), start)
      BY <3>1, <3>2, ZoneDigs
    <3> QED BY <3>1, <3>3
  <2>9. N \in S
    <3> HIDE DEF S
    <3> QED BY <2>1, <2>7, <2>8, Climb
  <2> DEFINE n == u[N].next
             all == u[N].intents
  <2>10. n \in Int /\ Numbered(all, start, n, {})
    BY <2>9 DEF Dug, Numbered
  <2>11. Sane(out(n)) /\ out(n).op \in Makings /\ out(n).t = n /\ Quiet(lay)
    <3>1. Quiet(lay)
      BY Plainly DEF Makings
    <3> HIDE DEF lay, n
    <3> QED BY <3>1 DEF I, Sane, Makings
  <2> DEFINE o == out(n)
  <2>12. Generate(zones, seed, start, anchor) = [ok |-> TRUE, intents |-> (all \o <<o>>) \o <<lay>>, next |-> n + 1]
    <3>1. Layout(start) = <<lay>>
      BY DEF Layout
    <3> HIDE DEF lay
    <3> QED BY <2>2, <3>1
  <2>13. Sane(o) /\ o.op \in Makings /\ o.t = n /\ Quiet(lay)
    BY <2>11
  <2> HIDE DEF n, all, o, lay
  <2>14. Numbered(<<o>>, n, n + 1, {}) /\ Numbered(<<lay>>, n + 1, n + 1, {})
    BY <2>10, <2>13, OneMade, One
  <2>15. Numbered(all \o <<o>>, start, n + 1, {})
    BY <2>10, <2>14, Join
  <2>16. Numbered((all \o <<o>>) \o <<lay>>, start, n + 1, {})
    BY <2>14, <2>15, Join
  <2> QED BY <2>12, <2>16
<1> QED BY <1>1, <1>2
-----------------------------------------------------------------------------
(* The world and what intents make of it *)

Shaped(o) ==
    /\ {"attrs", "libs", "arch", "title", "desc"} \subseteq DOMAIN o
    /\ DOMAIN o.attrs = AttrKeys
    /\ o.attrs["gold"] \in Purse
Sound(w) == IsFiniteSet(DOMAIN w) /\ \A o \in DOMAIN w : Shaped(w[o])

LEMMA GoldIsKey == "gold" \in AttrKeys
  BY SoftcodeAssumption DEF OwnKeys

LEMMA LineIs ==
    ASSUME NEW w, NEW r
    PROVE  DOMAIN Line(w, r) = 0..ArchetypeDepth /\ ArchetypeDepth \in Nat
<1>1. ArchetypeDepth \in Nat
  BY SoftcodeAssumption
<1>2. Looping(Line(w, r), "line", r, ArchetypeDepth, w)
  BY <1>1, LineLoops
<1> QED BY <1>1, <1>2 DEF Looping

LEMMA LeastOf ==
    ASSUME NEW T \in SUBSET Nat, T # {}
    PROVE  Min(T) \in T /\ \A k \in T : Min(T) <= k
<1>1. \E n \in T : \A k \in T : n <= k
  BY Least
<1> QED BY <1>1 DEF Min

LEMMA ResolvedGold ==
    ASSUME NEW w, Sound(w), NEW r
    PROVE  ResolvedAttr(w, r, "gold") \in Purse
<1> DEFINE up == Line(w, r)
           hits == {i \in DOMAIN up : Exists(w, up[i]) /\ w[up[i]].attrs["gold"] # Unset}
<1>1. hits \subseteq Nat
  <2>1. DOMAIN up = 0..ArchetypeDepth /\ ArchetypeDepth \in Nat
    BY LineIs
  <2> HIDE DEF up
  <2> QED BY <2>1
<1>2. hits # {} => up[Min(hits)] \in DOMAIN w
  <2>1. hits # {} => Min(hits) \in hits
    <3> HIDE DEF hits
    <3> QED BY <1>1, LeastOf
  <2> QED BY <2>1 DEF Exists
<1>3. ResolvedAttr(w, r, "gold") = IF hits = {} THEN Unset
                                  ELSE IF up[Min(hits)] = Nobody THEN Unset ELSE w[up[Min(hits)]].attrs["gold"]
  BY DEF ResolvedAttr, Nearest
<1> HIDE DEF hits, up
<1> QED BY <1>2, <1>3 DEF Sound, Shaped, Purse

LEMMA BlankIsShaped == \A kind, key, loc : Shaped(Blank(kind, key, loc))
  BY GoldIsKey DEF Blank, Shaped, Purse

LEMMA DetachedIsShaped ==
    ASSUME NEW w, Sound(w), NEW t \in DOMAIN w
    PROVE  Shaped(Detached(w, t))
<1> DEFINE title == ResolvedTitle(w, t)
           desc == ResolvedDescription(w, t)
           attrs == [k \in AttrKeys |-> ResolvedAttr(w, t, k)]
           tags == {g \in UNION {w[o].tags : o \in DOMAIN w} : HasTag(w, t, g)}
<1>1. Detached(w, t) = [w[t] EXCEPT !.arch = Nobody, !.title = title, !.desc = desc, !.attrs = attrs, !.tags = tags]
  BY DEF Detached
<1>2. DOMAIN attrs = AttrKeys /\ attrs["gold"] \in Purse
  BY GoldIsKey, ResolvedGold
<1>3. {"attrs", "libs", "arch", "title", "desc"} \subseteq DOMAIN w[t]
  BY DEF Sound, Shaped
<1> HIDE DEF attrs, title, desc, tags
<1> QED BY <1>1, <1>2, <1>3 DEF Shaped

LEMMA TransferIsSound ==
    ASSUME NEW w, Sound(w), NEW x, Accepts(w, x), Sane(x), x.op = "transfer"
    PROVE  Sound(Transferred(w, x)) /\ DOMAIN Transferred(w, x) = DOMAIN w
<1> DEFINE had == Amount(w, x.t, x.k)
           has == IF w[x.r].attrs[x.k] = Unset THEN 0 ELSE Amount(w, x.r, x.k)
           take == <<had - x.v[1], 0>>
           give == <<has + x.v[1], 0>>
           half == [w EXCEPT ![x.t].attrs[x.k] = take]
           full == [half EXCEPT ![x.r].attrs[x.k] = give]
<1>1. x.t \in DOMAIN w /\ x.r \in DOMAIN w /\ w[x.t].attrs[x.k] # Unset
  BY DEF Accepts, Exists
<1>2. x.k = "gold" => take \in Purse /\ give \in Purse
  <2> SUFFICES ASSUME x.k = "gold" PROVE take \in Purse /\ give \in Purse
    OBVIOUS
  <2>1. w[x.t].attrs[x.k] \in Int \X Int /\ x.v \in Int \X Int
    BY <1>1 DEF Sound, Shaped, Purse, Sane
  <2>2. w[x.r].attrs[x.k] \in Int \X Int \/ w[x.r].attrs[x.k] = Unset
    BY <1>1 DEF Sound, Shaped, Purse
  <2>3. had \in Int /\ has \in Int /\ x.v[1] \in Int
    BY <2>1, <2>2 DEF Amount
  <2> HIDE DEF had, has
  <2> QED BY <2>3 DEF Purse
<1>3. Transferred(w, x) = full
  BY DEF Transferred
<1> HIDE DEF take, give
<1>4. Sound(half) /\ DOMAIN half = DOMAIN w
  BY <1>1, <1>2, GoldIsKey DEF Sound, Shaped
<1> HIDE DEF half
<1>5. Sound(full) /\ DOMAIN full = DOMAIN w
  BY <1>1, <1>2, <1>4, GoldIsKey DEF Sound, Shaped
<1> QED BY <1>3, <1>5

LEMMA MakeIsSound ==
    ASSUME NEW w, Sound(w), NEW r, NEW thing, Shaped(thing)
    PROVE  Sound(Make(w, r, thing)) /\ DOMAIN Make(w, r, thing) = DOMAIN w \cup {r}
<1>1. IsFiniteSet(DOMAIN w \cup {r})
  BY FS_AddElement DEF Sound
<1> QED BY <1>1 DEF Sound, Make

(* An intent makes no world that is not sound, and nothing exists by it but   *)
(* what it makes.                                                             *)
LEMMA ChangedIsSound ==
    ASSUME NEW w, Sound(w), NEW x, Accepts(w, x), Sane(x)
    PROVE  /\ Sound(Changed(w, x))
           /\ x.op \notin Makings => DOMAIN Changed(w, x) \subseteq DOMAIN w
           /\ DOMAIN Changed(w, x) \subseteq DOMAIN w \cup {x.t}
<1>1. CASE x.op = "attr"
  <2>1. Changed(w, x) = [w EXCEPT ![x.t].attrs[x.k] = x.v]
    BY <1>1 DEF Changed
  <2> QED BY <1>1, <2>1, GoldIsKey DEF Sound, Shaped, Sane
<1>2. CASE x.op = "tag"
  <2>1. Changed(w, x) = [w EXCEPT ![x.t].tags = @ \cup {x.k}]
    BY <1>2 DEF Changed
  <2> QED BY <2>1 DEF Sound, Shaped
<1>3. CASE x.op = "untag"
  <2>1. Changed(w, x) = [w EXCEPT ![x.t].tags = @ \ {x.k}]
    BY <1>3 DEF Changed
  <2> QED BY <2>1 DEF Sound, Shaped
<1>4. CASE x.op = "title"
  <2>1. Changed(w, x) = [w EXCEPT ![x.t].title = x.k]
    BY <1>4 DEF Changed
  <2> QED BY <2>1 DEF Sound, Shaped
<1>5. CASE x.op = "desc"
  <2>1. Changed(w, x) = [w EXCEPT ![x.t].desc = x.k]
    BY <1>5 DEF Changed
  <2> QED BY <2>1 DEF Sound, Shaped
<1>6. CASE x.op = "lib"
  <2>1. Changed(w, x) = [w EXCEPT ![x.t].libs[x.k] = x.v[1]]
    BY <1>6 DEF Changed
  <2> QED BY <2>1 DEF Sound, Shaped
<1>7. CASE x.op = "owner"
  <2>1. Changed(w, x) = [w EXCEPT ![x.t].owner = x.r]
    BY <1>7 DEF Changed
  <2> QED BY <2>1 DEF Sound, Shaped
<1>8. CASE x.op = "move"
  <2>1. Changed(w, x) = [w EXCEPT ![x.t].loc = x.r]
    BY <1>8 DEF Changed
  <2> QED BY <2>1 DEF Sound, Shaped
<1>9. CASE x.op = "update"
  <2> DEFINE half == [w EXCEPT ![x.t].key = IF x.k = NoWord THEN @ ELSE x.k]
  <2>1. Changed(w, x) = [half EXCEPT ![x.t].target = IF x.r = Nobody THEN @ ELSE x.r]
    BY <1>9 DEF Changed
  <2>2. Sound(half) /\ DOMAIN half = DOMAIN w
    BY DEF Sound, Shaped
  <2> HIDE DEF half
  <2> QED BY <2>1, <2>2 DEF Sound, Shaped
<1>10. CASE x.op = "spawn"
  <2> DEFINE thing == [Blank(x.k, x.k, x.r) EXCEPT !.arch = x.a]
  <2>1. Changed(w, x) = Make(w, x.t, thing)
    BY <1>10 DEF Changed
  <2>2. Shaped(thing)
    BY BlankIsShaped DEF Shaped
  <2> HIDE DEF thing
  <2>3. Sound(Make(w, x.t, thing)) /\ DOMAIN Make(w, x.t, thing) = DOMAIN w \cup {x.t}
    BY <2>2, MakeIsSound
  <2>4. x.op \in Makings
    BY <1>10 DEF Makings
  <2> QED BY <2>1, <2>3, <2>4
<1>11. CASE x.op = "exit"
  <2> DEFINE thing == [Blank("exit", x.k, x.r) EXCEPT !.target = x.a]
  <2>1. Changed(w, x) = Make(w, x.t, thing)
    BY <1>11 DEF Changed
  <2>2. Shaped(thing)
    BY BlankIsShaped DEF Shaped
  <2> HIDE DEF thing
  <2>3. Sound(Make(w, x.t, thing)) /\ DOMAIN Make(w, x.t, thing) = DOMAIN w \cup {x.t}
    BY <2>2, MakeIsSound
  <2>4. x.op \in Makings
    BY <1>11 DEF Makings
  <2> QED BY <2>1, <2>3, <2>4
<1>12. CASE x.op = "clone"
  <2> DEFINE copy == [w[x.r] EXCEPT !.loc = IF x.a = Nobody THEN @ ELSE x.a, !.owner = Nobody,
                                    !.tags = @ \ {"offline", "managed"}]
  <2>1. Changed(w, x) = Make(w, x.t, copy)
    BY <1>12 DEF Changed
  <2>2. x.r \in DOMAIN w
    BY <1>12 DEF Accepts, Exists
  <2>3. Shaped(w[x.r])
    BY <2>2 DEF Sound
  <2>4. Shaped(copy)
    BY <2>3 DEF Shaped
  <2> HIDE DEF copy
  <2>5. Sound(Make(w, x.t, copy)) /\ DOMAIN Make(w, x.t, copy) = DOMAIN w \cup {x.t}
    BY <2>4, MakeIsSound
  <2>6. x.op \in Makings
    BY <1>12 DEF Makings
  <2> QED BY <2>1, <2>5, <2>6
<1>13. CASE x.op = "destroy"
  <2>1. Changed(w, x) = [q \in DOMAIN w \ {x.t} |-> w[q]]
    BY <1>13 DEF Changed, Restrict
  <2>2. IsFiniteSet(DOMAIN w \ {x.t})
    BY FS_Subset DEF Sound
  <2> QED BY <2>1, <2>2 DEF Sound
<1>14. CASE x.op = "detach"
  <2>1. Changed(w, x) = IF w[x.t].arch = Nobody THEN w ELSE [w EXCEPT ![x.t] = Detached(w, x.t)]
    BY <1>14 DEF Changed
  <2>2. x.t \in DOMAIN w
    BY <1>14 DEF Accepts, Exists
  <2>3. Shaped(Detached(w, x.t))
    BY <2>2, DetachedIsShaped
  <2> QED BY <2>1, <2>3 DEF Sound
<1>15. CASE x.op = "arch"
  <2>1. Changed(w, x) = [w EXCEPT ![x.t].arch = x.r]
    BY <1>15 DEF Changed
  <2> QED BY <2>1 DEF Sound, Shaped
<1>16. CASE x.op = "transfer"
  <2>1. Changed(w, x) = Transferred(w, x)
    BY <1>16 DEF Changed
  <2> QED BY <1>16, <2>1, TransferIsSound
<1>17. CASE x.op \notin {"attr", "tag", "untag", "title", "desc", "lib", "owner", "move", "update", "spawn", "exit", "clone",
                         "destroy", "detach", "arch", "transfer"}
  <2>1. Changed(w, x) = w
    BY <1>17 DEF Changed
  <2> QED BY <2>1
<1> QED BY <1>1, <1>2, <1>3, <1>4, <1>5, <1>6, <1>7, <1>8, <1>9, <1>10, <1>11, <1>12, <1>13, <1>14, <1>15, <1>16, <1>17

LEMMA ApplyIsSound ==
    ASSUME NEW w, Sound(w), NEW b, IsSeq(b), \A i \in 1..Len(b) : Sane(b[i])
    PROVE  /\ Sound(Apply(w, b).w)
           /\ \A r \in DOMAIN Apply(w, b).w :
                 r \in DOMAIN w \/ \E i \in 1..Len(b) : b[i].op \in Makings /\ b[i].t = r
<1> DEFINE N == Len(b)
           first == [ok |-> TRUE, w |-> w]
<1>1. N \in Nat
  BY DEF IsSeq
<1>2. PICK u : Looping(u, "apply", first, N, b) /\ Apply(w, b) = u[N]
  BY <1>1, ApplyLoops
<1>3. u[0] = first /\ \A i \in 1..N : u[i] = Turn("apply", i, u[i - 1], b)
  <2>1. N \in Nat /\ Looping(u, "apply", first, N, b)
    BY <1>1, <1>2
  <2> HIDE DEF N, first
  <2>2. u[0] = first
    BY <2>1, RunIs
  <2>3. \A i \in 1..N : u[i] = Turn("apply", i, u[i - 1], b)
    BY <2>1, RunIs
  <2> QED BY <2>2, <2>3
<1>4. \A i \in 1..N : u[i] = Then(u[i - 1], b[i])
  BY <1>3, Turns
<1>5. first.w = w
  OBVIOUS
<1> DEFINE Good(v) == Sound(v) /\ \A r \in DOMAIN v : r \in DOMAIN w \/ \E j \in 1..N : b[j].op \in Makings /\ b[j].t = r
           S == {i \in 0..N : Good(u[i].w)}
<1>6. \A i \in 1..N : Sane(b[i])
  OBVIOUS
<1> HIDE DEF N, first
<1>7. 0 \in S
  BY <1>1, <1>3, <1>5
<1>8. ASSUME NEW i \in 1..N, i - 1 \in S PROVE i \in S
  <2> DEFINE v == u[i - 1]
             x == b[i]
  <2>1. u[i] = Then(v, x) /\ Sane(x) /\ Good(v.w)
    BY <1>4, <1>6, <1>8
  <2>2. Then(v, x).w = v.w \/ (Accepts(v.w, x) /\ Then(v, x).w = Changed(v.w, x))
    BY DEF Then
  <2>3. ASSUME Accepts(v.w, x) PROVE Good(Changed(v.w, x))
    <3>1. /\ Sound(Changed(v.w, x))
          /\ x.op \notin Makings => DOMAIN Changed(v.w, x) \subseteq DOMAIN v.w
          /\ DOMAIN Changed(v.w, x) \subseteq DOMAIN v.w \cup {x.t}
      <4> HIDE DEF v, x
      <4> QED BY <2>1, <2>3, ChangedIsSound
    <3>2. \A r \in DOMAIN v.w : r \in DOMAIN w \/ \E j \in 1..N : b[j].op \in Makings /\ b[j].t = r
      BY <2>1
    <3> HIDE DEF v
    <3> QED BY <3>1, <3>2
  <2> HIDE DEF Good, v
  <2> QED BY <2>1, <2>2, <2>3
<1>9. N \in S
  <2> HIDE DEF S
  <2> QED BY <1>1, <1>7, <1>8, Climb
<1> QED BY <1>2, <1>9 DEF N
-----------------------------------------------------------------------------
(* The inductive invariant: what is in the world has been handed out before   *)
(* the running script began, or was chosen by a script; what the batch makes, *)
(* since.                                                                     *)
HandedOut == \A r \in DOMAIN world : r \in chosen \/ (r \in Int /\ r < nextId)
Inv ==
    /\ Sound(world)
    /\ HandedOut
    /\ Numbered(batch, nextId, counter, chosen)
    /\ \A n \in DOMAIN templates : IsMap(templates[n])
    /\ repertoire \in Repertoires

LEMMA InvImpliesHandedOutOnce == Inv => HandedOutOnce
<1> SUFFICES ASSUME Inv PROVE HandedOutOnce
  OBVIOUS
<1>1. DOMAIN batch = 1..Len(batch)
  BY DEF Inv, Numbered, IsSeq
<1>2. ASSUME NEW i \in Making(batch) PROVE batch[i].t \notin DOMAIN world
  <2>1. i \in 1..Len(batch) /\ batch[i].op \in Makings /\ batch[i].t \notin chosen
    BY <1>1 DEF Making, Makings
  <2>2. batch[i].t \in Int /\ nextId <= batch[i].t /\ nextId \in Int
    BY <2>1 DEF Inv, Numbered, Makes1
  <2> QED BY <2>1, <2>2 DEF Inv, HandedOut
<1>3. ASSUME NEW i \in Making(batch), NEW j \in Making(batch) \ {i} PROVE batch[i].t # batch[j].t
  <2>1. /\ i \in 1..Len(batch) /\ batch[i].op \in Makings /\ batch[i].t \notin chosen
        /\ j \in 1..Len(batch) /\ batch[j].op \in Makings /\ i # j
    BY <1>1 DEF Making, Makings
  <2> QED BY <2>1 DEF Inv, Numbered, Clash
<1> QED BY <1>2, <1>3 DEF HandedOutOnce

LEMMA MapsAreMaps == Init => \A n \in DOMAIN templates : IsMap(templates[n])
<1> SUFFICES ASSUME Init, NEW n \in DOMAIN templates PROVE IsMap(templates[n])
  OBVIOUS
<1>1. ASSUME NEW f \in MapFiles, NEW t PROVE IsMap([f EXCEPT !.terrain = t])
  <2>1. IsTemplate(f)
    BY SoftcodeAssumption
  <2>2. /\ {"rows", "cells"} \subseteq DOMAIN f /\ f.rows \in Seq(Seq(STRING))
        /\ f.cells \in [DOMAIN f.cells -> [fixed : STRING, passable : Seq(BOOLEAN), lock : BOOLEAN,
                                           things : Seq(STRING), encounters : BOOLEAN, tidy : BOOLEAN]]
    BY <2>1 DEF IsTemplate
  <2>3. \A at \in DOMAIN f.cells : f.cells[at].things \in Seq(STRING)
    BY <2>2
  <2>4. \A at \in DOMAIN f.cells : IsSeq(f.cells[at].things)
    BY <2>3, SeqsAre
  <2> QED BY <2>2, <2>4 DEF IsMap
<1>2. templates \in BuildTemplates(MapFiles, Palette)
  BY DEF Init
<1>3. \E f \in MapFiles : \E t : templates[n] = [f EXCEPT !.terrain = t]
  <2> DEFINE names == {f.name : f \in MapFiles}
  <2>1. PICK choice \in [names -> MapFiles] :
          templates = [m \in names |-> [choice[m] EXCEPT !.terrain = EffectiveTerrain(@, Palette)]]
    BY <1>2 DEF BuildTemplates
  <2>2. n \in names /\ choice[n] \in MapFiles
    BY <2>1
  <2>3. templates[n] = [choice[n] EXCEPT !.terrain = EffectiveTerrain(choice[n].terrain, Palette)]
    BY <2>1, <2>2
  <2> QED BY <2>2, <2>3
<1> QED BY <1>1, <1>3

LEMMA InitInv == Init => Inv
<1> SUFFICES ASSUME Init PROVE Inv
  OBVIOUS
<1>1. Sound(world)
  <2>1. IsFiniteSet(DOMAIN world) /\ world \in [DOMAIN world -> Object]
    BY SoftcodeAssumption DEF Init, IsWorld
  <2>2. ASSUME NEW o \in Object PROVE Shaped(o)
    BY GoldIsKey DEF Object, Shaped, AttrValues, Purse
  <2> QED BY <2>1, <2>2 DEF Sound
<1>2. HandedOut
  BY SoftcodeAssumption DEF Init, HandedOut, IsWorld
<1>3. Numbered(batch, nextId, counter, chosen)
  <2>1. FirstId \in Int /\ nextId = FirstId /\ counter = FirstId /\ batch = <<>>
    BY SoftcodeAssumption DEF Init
  <2> QED BY <2>1, Nothing
<1>4. repertoire \in Repertoires
  BY DEF Init
<1> QED BY <1>1, <1>2, <1>3, <1>4, MapsAreMaps DEF Inv

(* What a script is given *)
LEMMA CallsAreCalls ==
    ASSUME Inv, NEW fn, NEW c \in Says(fn)
    PROVE  IsCall(c) /\ c.fn = fn
  BY SoftcodeAssumption DEF Inv, Says

(* Each call keeps the invariant, and adds a sequence to the batch. *)
Grown == Inv' /\ \E s : IsSeq(s) /\ batch' = batch \o s

LEMMA CalledKeeps ==
    ASSUME Inv, NEW s, NEW next, NEW picks, Numbered(s, counter, next, chosen \cup picks), Called(s, next, picks)
    PROVE  Grown
<1>1. /\ batch' = batch \o s /\ counter' = next /\ chosen' = chosen \cup picks
      /\ world' = world /\ nextId' = nextId /\ templates' = templates /\ repertoire' = repertoire
  BY DEF Called
<1>2. Numbered(batch, nextId, counter, chosen \cup picks)
  <2>1. Numbered(batch, nextId, counter, chosen) /\ counter \in Int /\ counter <= counter
    BY DEF Inv, Numbered
  <2> QED BY <2>1, Wider
<1>3. Numbered(batch \o s, nextId, next, chosen \cup picks)
  BY <1>2, Join
<1>4. HandedOut'
  BY <1>1 DEF Inv, HandedOut
<1>5. IsSeq(s)
  BY DEF Numbered
<1> QED BY <1>1, <1>3, <1>4, <1>5 DEF Inv, Grown

(* A call that asks for nothing new *)
LEMMA AskedKeeps ==
    ASSUME Inv, NEW s, IsSeq(s), \A i \in 1..Len(s) : Quiet(s[i]), Called(s, counter, {})
    PROVE  Grown
<1>1. counter \in Int
  BY DEF Inv, Numbered
<1>2. Numbered(s, counter, counter, chosen \cup {})
  BY <1>1, NoneMade
<1> QED BY <1>2, CalledKeeps

LEMMA AskedOneKeeps ==
    ASSUME Inv, NEW x, Quiet(x), Called(<<x>>, counter, {})
    PROVE  Grown
<1>1. IsSeq(<<x>>) /\ \A i \in 1..Len(<<x>>) : Quiet(<<x>>[i])
  BY OneIsSeq
<1> QED BY <1>1, AskedKeeps

LEMMA MadeOneKeeps ==
    ASSUME Inv, NEW x, Sane(x), x.op \in Makings, x.t = counter, Called(<<x>>, counter + 1, {})
    PROVE  Grown
<1>1. counter \in Int
  BY DEF Inv, Numbered
<1>2. Numbered(<<x>>, counter, counter + 1, chosen \cup {})
  BY <1>1, OneMade
<1> QED BY <1>2, CalledKeeps
-----------------------------------------------------------------------------
(* One lemma for each thing a script may call *)

LEMMA SetAttrKeeps == Inv /\ SetAttr => Grown
<1> SUFFICES ASSUME Inv, SetAttr PROVE Grown
  OBVIOUS
<1>0. PICK c \in Says("set_attr") : \E t : Called(<<I("attr", t, c.k, c.v, Nobody, Nobody)>>, counter, {})
  BY DEF SetAttr, Asks
<1>1. PICK t : Called(<<I("attr", t, c.k, c.v, Nobody, Nobody)>>, counter, {})
  BY <1>0
<1>2. c.v \in Purse
  BY CallsAreCalls DEF IsCall, AttrValues, Purse
<1>3. Quiet(I("attr", t, c.k, c.v, Nobody, Nobody))
  BY <1>2, Plainly DEF Makings
<1> QED BY <1>1, <1>3, AskedOneKeeps

LEMMA AssignAttrKeeps == Inv /\ AssignAttr => Grown
<1> SUFFICES ASSUME Inv, AssignAttr PROVE Grown
  OBVIOUS
<1>0. PICK c \in Says("assign_attr") : \E t : Called(<<I("attr", t, c.k, c.v, Nobody, Nobody)>>, counter, {})
  BY DEF AssignAttr, Asks
<1>1. PICK t : Called(<<I("attr", t, c.k, c.v, Nobody, Nobody)>>, counter, {})
  BY <1>0
<1>2. c.v \in Purse
  BY CallsAreCalls DEF IsCall, AttrValues, Purse
<1>3. Quiet(I("attr", t, c.k, c.v, Nobody, Nobody))
  BY <1>2, Plainly DEF Makings
<1> QED BY <1>1, <1>3, AskedOneKeeps

LEMMA UnsetsKeep == Inv /\ (UnsetAttr \/ ClearAttr) => Grown
<1> SUFFICES ASSUME Inv, UnsetAttr \/ ClearAttr PROVE Grown
  OBVIOUS
<1>1. PICK c, t : Called(<<I("attr", t, c.k, Unset, Nobody, Nobody)>>, counter, {})
  BY DEF UnsetAttr, ClearAttr, Asks
<1>2. Quiet(I("attr", t, c.k, Unset, Nobody, Nobody))
  BY Plainly DEF Makings, Purse
<1> QED BY <1>1, <1>2, AskedOneKeeps

LEMMA PromptKeeps == Inv /\ Prompt => Grown
<1> SUFFICES ASSUME Inv, Prompt PROVE Grown
  OBVIOUS
<1>1. PICK c, t, r : Called(<<I("attr", t, "prompt", <<r, 1>>, Nobody, Nobody)>>, counter, {})
  BY DEF Prompt, Asks
<1>2. Quiet(I("attr", t, "prompt", <<r, 1>>, Nobody, Nobody))
  BY Plainly DEF Makings
<1> QED BY <1>1, <1>2, AskedOneKeeps

LEMMA TransferAttrKeeps == Inv /\ TransferAttr => Grown
<1> SUFFICES ASSUME Inv, TransferAttr PROVE Grown
  OBVIOUS
<1>0. PICK c \in Says("transfer_attr") : \E t, r : Called(<<I("transfer", t, c.k, c.v, r, Nobody)>>, counter, {})
  BY DEF TransferAttr, Asks
<1>1. PICK t, r : Called(<<I("transfer", t, c.k, c.v, r, Nobody)>>, counter, {})
  BY <1>0
<1>2. c.v \in Int \X Int
  BY CallsAreCalls DEF IsCall
<1>3. Quiet(I("transfer", t, c.k, c.v, r, Nobody))
  BY <1>2 DEF Quiet, Sane, Makings, I
<1> QED BY <1>1, <1>3, AskedOneKeeps

LEMMA SetValKeeps == Inv /\ SetVal => Grown
<1> SUFFICES ASSUME Inv, SetVal PROVE Grown
  OBVIOUS
<1>0. PICK c \in Says("set_val") : \E t :
        Called(<<I("attr", t, c.k, SetNested(ResolvedAttr(world, t, c.k), c.v[1], c.v[2]), Nobody, Nobody)>>, counter, {})
  BY DEF SetVal, Asks
<1>1. PICK t :
        Called(<<I("attr", t, c.k, SetNested(ResolvedAttr(world, t, c.k), c.v[1], c.v[2]), Nobody, Nobody)>>, counter, {})
  BY <1>0
<1> DEFINE v == SetNested(ResolvedAttr(world, t, c.k), c.v[1], c.v[2])
<1>2. c.v \in {1, 2} \X Int
  BY CallsAreCalls DEF IsCall
<1>3. ASSUME NEW root \in Purse PROVE SetNested(root, c.v[1], c.v[2]) \in Purse
  <2> DEFINE old == IF root = Unset THEN <<0, 0>> ELSE root
  <2>1. old \in Int \X Int
    BY DEF Purse
  <2>2. SetNested(root, c.v[1], c.v[2]) = [old EXCEPT ![c.v[1]] = c.v[2]]
    BY DEF SetNested
  <2> HIDE DEF old
  <2>3. c.v[1] \in {1, 2} /\ c.v[2] \in Int
    BY <1>2
  <2> QED BY <2>1, <2>2, <2>3 DEF Purse
<1>4. c.k = "gold" => v \in Purse
  BY <1>3, ResolvedGold DEF Inv
<1> HIDE DEF v
<1>5. Quiet(I("attr", t, c.k, v, Nobody, Nobody))
  BY <1>4, Plainly DEF Makings
<1> QED BY <1>1, <1>5, AskedOneKeeps DEF v

LEMMA CopyAttrsKeeps == Inv /\ CopyAttrs => Grown
<1> SUFFICES ASSUME Inv, CopyAttrs PROVE Grown
  OBVIOUS
<1>1. PICK c, t, r :
        LET has == Fields(world, r).attrs
            keys == SetToSeq({k \in AttrKeys : has[k] # Unset})
        IN  Called([i \in DOMAIN keys |-> I("attr", t, keys[i], has[keys[i]], Nobody, Nobody)], counter, {})
  BY DEF CopyAttrs, Asks
<1> DEFINE has == [k \in AttrKeys |-> ResolvedAttr(world, r, k)]
           K == {k \in AttrKeys : has[k] # Unset}
           keys == SetToSeq(K)
           s == [i \in DOMAIN keys |-> I("attr", t, keys[i], has[keys[i]], Nobody, Nobody)]
<1>2. Fields(world, r).attrs = has
  BY DEF Fields
<1>3. IsFiniteSet(K) /\ K \subseteq AttrKeys
  BY FS_Subset, SoftcodeAssumption
<1>4. has["gold"] \in Purse
  BY ResolvedGold, GoldIsKey DEF Inv
<1>5. Called(s, counter, {})
  <2> HIDE DEF has
  <2> QED BY <1>1, <1>2
<1> HIDE DEF has
<1>6. keys \in [1..Cardinality(K) -> K] /\ Cardinality(K) \in Nat
  <2> HIDE DEF K
  <2>1. Cardinality(K) \in Nat /\ ExistsBijection(1..Cardinality(K), K)
    BY <1>3, FS_CardinalityType
  <2>2. \E f \in [1..Cardinality(K) -> K] : IsInjective(f)
    BY <2>1 DEF ExistsBijection, Bijection, Injection
  <2> QED BY <2>1, <2>2 DEF SetToSeq
<1> HIDE DEF keys, K
<1>7. DOMAIN keys = 1..Cardinality(K)
  BY <1>6
<1>8. IsSeq(s) /\ Len(s) = Cardinality(K)
  BY <1>6, <1>7, Listed
<1>9. ASSUME NEW i \in 1..Len(s) PROVE Quiet(s[i])
  <2>1. s[i] = I("attr", t, keys[i], has[keys[i]], Nobody, Nobody)
    BY <1>7, <1>8
  <2>2. keys[i] = "gold" => has[keys[i]] \in Purse
    BY <1>4
  <2> HIDE DEF s
  <2> QED BY <2>1, <2>2, Plainly DEF Makings
<1> HIDE DEF s
<1> QED BY <1>5, <1>8, <1>9, AskedKeeps

(* What needs nothing of what it is given *)
LEMMA PlainKeeps ==
    ASSUME Inv, NEW op, op \notin Makings, op \notin {"transfer", "attr", "title"},
           NEW t, NEW k, NEW v, NEW r, NEW a, Called(<<I(op, t, k, v, r, a)>>, counter, {})
    PROVE  Grown
<1>1. Quiet(I(op, t, k, v, r, a))
  BY Plainly
<1> QED BY <1>1, AskedOneKeeps

LEMMA TitleKeeps ==
    ASSUME Inv, NEW fn \in {"set_title", "assign_title"}, NEW c \in Says(fn),
           NEW t, Called(<<I("title", t, c.k, Unset, Nobody, Nobody)>>, counter, {})
    PROVE  Grown
<1>1. c.k # NoWord
  BY CallsAreCalls DEF IsCall
<1>2. Quiet(I("title", t, c.k, Unset, Nobody, Nobody))
  BY <1>1, Plainly DEF Makings
<1> QED BY <1>2, AskedOneKeeps

LEMMA WordsKeep ==
    Inv /\ (AssignField \/ SetTitle \/ SetDescription \/ SetTag \/ UnsetTag \/ SetAliases \/ SetLock) => Grown
<1> SUFFICES ASSUME Inv PROVE AssignField \/ SetTitle \/ SetDescription \/ SetTag \/ UnsetTag \/ SetAliases \/ SetLock => Grown
  OBVIOUS
<1>1. AssignField => Grown
  BY PlainKeeps, TitleKeeps DEF AssignField, Asks, Makings
<1>2. SetTitle => Grown
  BY TitleKeeps DEF SetTitle, Asks
<1>3. SetDescription => Grown
  BY PlainKeeps DEF SetDescription, Asks, Makings
<1>4. SetTag => Grown
  BY PlainKeeps DEF SetTag, Asks, Makings
<1>5. UnsetTag => Grown
  BY PlainKeeps DEF UnsetTag, Asks, Makings
<1>6. SetAliases => Grown
  BY PlainKeeps DEF SetAliases, Asks, Makings
<1>7. SetLock => Grown
  BY PlainKeeps DEF SetLock, Asks, Makings
<1> QED BY <1>1, <1>2, <1>3, <1>4, <1>5, <1>6, <1>7

LEMMA ScriptsKeep ==
    Inv /\ (SetScript \/ ApplyTemplate \/ SetLib \/ Trigger \/ After \/ CancelAfter) => Grown
<1> SUFFICES ASSUME Inv PROVE SetScript \/ ApplyTemplate \/ SetLib \/ Trigger \/ After \/ CancelAfter => Grown
  OBVIOUS
<1>1. SetScript => Grown
  BY PlainKeeps DEF SetScript, Asks, Makings
<1>2. ApplyTemplate => Grown
  BY PlainKeeps DEF ApplyTemplate, Asks, Makings
<1>3. SetLib => Grown
  BY PlainKeeps DEF SetLib, Asks, Makings
<1>4. Trigger => Grown
  BY PlainKeeps DEF Trigger, Asks, Makings
<1>5. After => Grown
  BY PlainKeeps DEF After, Asks, Makings
<1>6. CancelAfter => Grown
  BY PlainKeeps DEF CancelAfter, Asks, Makings
<1> QED BY <1>1, <1>2, <1>3, <1>4, <1>5, <1>6

LEMMA MessagesKeep == Inv /\ (RunCommandAs \/ Emit \/ EmitNearby) => Grown
<1> SUFFICES ASSUME Inv PROVE RunCommandAs \/ Emit \/ EmitNearby => Grown
  OBVIOUS
<1>1. RunCommandAs => Grown
  BY PlainKeeps DEF RunCommandAs, Asks, Makings
<1>2. Emit => Grown
  BY PlainKeeps DEF Emit, Asks, Makings
<1>3. EmitNearby => Grown
  BY PlainKeeps DEF EmitNearby, Asks, Makings
<1> QED BY <1>1, <1>2, <1>3

LEMMA MovesKeep ==
    Inv /\ (MoveObject \/ UpdateExit \/ Destroy \/ Clone \/ SetOwner \/ SetArchetype) => Grown
<1> SUFFICES ASSUME Inv PROVE MoveObject \/ UpdateExit \/ Destroy \/ Clone \/ SetOwner \/ SetArchetype => Grown
  OBVIOUS
<1>1. MoveObject => Grown
  BY PlainKeeps DEF MoveObject, Asks, Makings
<1>2. UpdateExit => Grown
  BY PlainKeeps DEF UpdateExit, Asks, Makings
<1>3. Destroy => Grown
  BY PlainKeeps DEF Destroy, Asks, Makings
<1>4. Clone => Grown
  BY PlainKeeps DEF Clone, Asks, Makings
<1>5. SetOwner => Grown
  BY PlainKeeps DEF SetOwner, Asks, Makings
<1>6. SetArchetype => Grown
  BY PlainKeeps DEF SetArchetype, Asks, Makings
<1> QED BY <1>1, <1>2, <1>3, <1>4, <1>5, <1>6

(* What makes one thing, under the next reference *)
LEMMA MakesKeep ==
    ASSUME Inv, NEW op \in Makings, NEW k, NEW r, NEW a,
           Called(<<I(op, counter, k, Unset, r, a)>>, counter + 1, {})
    PROVE  Grown
<1> DEFINE x == I(op, counter, k, Unset, r, a)
<1>1. Sane(x) /\ x.op \in Makings /\ x.t = counter
  BY DEF I, Sane, Makings
<1> HIDE DEF x
<1>2. Called(<<x>>, counter + 1, {})
  BY DEF x
<1> QED BY <1>1, <1>2, MadeOneKeeps

LEMMA ThingsKeep == Inv /\ (CloneObject \/ CreateExit \/ Spawn) => Grown
<1> SUFFICES ASSUME Inv PROVE CloneObject \/ CreateExit \/ Spawn => Grown
  OBVIOUS
<1>1. CloneObject => Grown
  BY MakesKeep DEF CloneObject, Makes, Makings
<1>2. CreateExit => Grown
  BY MakesKeep DEF CreateExit, Makes, Makings
<1>3. Spawn => Grown
  BY MakesKeep DEF Spawn, Makings
<1> QED BY <1>1, <1>2, <1>3

LEMMA SpawnAsKeeps == Inv /\ SpawnAs => Grown
<1> SUFFICES ASSUME Inv, SpawnAs PROVE Grown
  OBVIOUS
<1>1. PICK c, r : Called(<<I("spawn", c.v[1], c.k, Unset, SpawnIn(c, r), Nobody)>>, counter, {c.v[1]})
  BY DEF SpawnAs
<1> DEFINE x == I("spawn", c.v[1], c.k, Unset, SpawnIn(c, r), Nobody)
<1>2. Sane(x) /\ x.t = c.v[1]
  BY DEF I, Sane
<1>3. Called(<<x>>, counter, {c.v[1]})
  BY <1>1
<1> HIDE DEF x
<1>4. Numbered(<<x>>, counter, counter, chosen \cup {c.v[1]})
  <2>1. counter \in Int
    BY DEF Inv, Numbered
  <2> QED BY <1>2, <2>1, OneIsSeq DEF Numbered, Makes1
<1> QED BY <1>3, <1>4, CalledKeeps

(* Whole regions *)
LEMMA RegionKeeps ==
    ASSUME Inv, NEW made, Numbered(made.intents, counter, made.next, {}), Region(made)
    PROVE  Grown
<1>1. made.next \in Int /\ made.next <= made.next /\ {} \subseteq chosen \cup {}
  BY DEF Numbered
<1>2. Numbered(made.intents, counter, made.next, chosen \cup {})
  BY <1>1, Wider
<1> QED BY <1>2, CalledKeeps DEF Region

LEMMA RegionsKeep == Inv /\ (GenerateDungeon \/ InstantiateMap) => Grown
<1> SUFFICES ASSUME Inv PROVE GenerateDungeon \/ InstantiateMap => Grown
  OBVIOUS
<1>1. counter \in Int
  BY DEF Inv, Numbered
<1>2. ASSUME GenerateDungeon PROVE Grown
  <2>1. PICK zones \in Dungeons : Region(Generate(zones, Seed, counter, Room))
    BY <1>2 DEF GenerateDungeon
  <2>2. zones \in Seq([rooms : Nat \ {0}, narrow : SUBSET Nat, fights : SUBSET Nat])
    BY SoftcodeAssumption
  <2>3. IsSeq(zones) /\ \A z \in 1..Len(zones) : IsZone(zones[z])
    <3> DEFINE Z == [rooms : Nat \ {0}, narrow : SUBSET Nat, fights : SUBSET Nat]
    <3>1. zones \in Seq(Z) /\ \A zone \in Z : IsZone(zone)
      BY <2>2 DEF IsZone
    <3> HIDE DEF Z
    <3>2. IsSeq(zones)
      BY <3>1, SeqsAre
    <3>3. \A z \in 1..Len(zones) : zones[z] \in Z
      BY <3>1
    <3> QED BY <3>1, <3>2, <3>3
  <2> DEFINE made == Generate(zones, Seed, counter, Room)
  <2>4. Numbered(made.intents, counter, made.next, {})
    BY <1>1, <2>3, GenerateNumbers
  <2> HIDE DEF made
  <2> QED BY <2>1, <2>4, RegionKeeps DEF made
<1>3. ASSUME InstantiateMap PROVE Grown
  <2>1. PICK n \in DOMAIN templates : Region(Instantiate(world, templates[n], counter, Room))
    BY <1>3 DEF InstantiateMap
  <2>2. IsMap(templates[n])
    BY DEF Inv
  <2> DEFINE made == Instantiate(world, templates[n], counter, Room)
  <2>3. Numbered(made.intents, counter, made.next, {})
    BY <1>1, <2>2, InstantiateNumbers
  <2> HIDE DEF made
  <2> QED BY <2>1, <2>3, RegionKeeps DEF made
<1> QED BY <1>2, <1>3

(* What the hooks of a dungeon and of the ground ask for *)
LEMMA DestroysNothingNew ==
    ASSUME Inv, NEW seed
    PROVE  LET s == DestroyDungeon(world, seed) IN IsSeq(s) /\ \A i \in 1..Len(s) : Quiet(s[i])
<1> DEFINE rooms == OfDungeon(world, seed)
           doors == UNION {ExitsFrom(world, r) : r \in rooms} \ rooms
           doomed == InOrder(rooms) \o InOrder(doors)
           s == DestroyDungeon(world, seed)
<1>1. rooms \subseteq DOMAIN world /\ doors \subseteq DOMAIN world
  BY DEF OfDungeon, ExitsFrom
<1>2. ASSUME NEW refs, refs \subseteq DOMAIN world PROVE IsSeq(InOrder(refs))
  <2>1. Cardinality(refs) \in Nat
    BY <1>2, FS_Subset, FS_CardinalityType DEF Inv, Sound
  <2> DEFINE th(i) == CHOOSE r \in refs : Cardinality({q \in refs : q < r}) = i - 1
             f == [i \in 1..Cardinality(refs) |-> th(i)]
  <2>2. InOrder(refs) = f
    BY DEF InOrder
  <2> HIDE DEF th
  <2>3. f = [i \in 1..Cardinality(refs) |-> f[i]]
    OBVIOUS
  <2> HIDE DEF f
  <2> QED BY <2>1, <2>2, <2>3, Listed
<1> HIDE DEF rooms, doors
<1>3. IsSeq(doomed)
  BY <1>1, <1>2, Concat
<1>4. s = [i \in DOMAIN doomed |-> I("destroy", doomed[i], NoWord, Unset, Nobody, Nobody)]
  BY DEF DestroyDungeon, rooms, doors
<1> HIDE DEF doomed, s
<1>5. DOMAIN doomed = 1..Len(doomed) /\ Len(doomed) \in Nat
  BY <1>3 DEF IsSeq
<1> DEFINE t == [i \in 1..Len(doomed) |-> I("destroy", doomed[i], NoWord, Unset, Nobody, Nobody)]
<1>6. s = t /\ t = [i \in 1..Len(doomed) |-> t[i]]
  BY <1>4, <1>5
<1>7. \A i \in 1..Len(doomed) : Quiet(t[i])
  BY Plainly DEF Makings
<1> HIDE DEF t
<1>8. IsSeq(s) /\ Len(s) = Len(doomed)
  BY <1>5, <1>6, Listed
<1> QED BY <1>6, <1>7, <1>8 DEF s

LEMMA QuietOne == \A x : Quiet(x) => IsSeq(<<x>>) /\ \A i \in 1..Len(<<x>>) : Quiet(<<x>>[i])
  BY OneIsSeq

LEMMA QuietNone == IsSeq(<<>>) /\ \A i \in 1..Len(<<>>) : Quiet(<<>>[i])
<1>1. ~ \E i \in 1..0 : TRUE
  OBVIOUS
<1> QED BY <1>1, NoneIsSeq

LEMMA QuietBoth ==
    ASSUME NEW s, NEW u, IsSeq(s), IsSeq(u), \A i \in 1..Len(s) : Quiet(s[i]), \A i \in 1..Len(u) : Quiet(u[i])
    PROVE  IsSeq(s \o u) /\ \A i \in 1..Len(s \o u) : Quiet((s \o u)[i])
<1> DEFINE c == s \o u
<1>1. /\ IsSeq(c)
      /\ Len(s) \in Nat /\ Len(u) \in Nat /\ Len(c) = Len(s) + Len(u)
      /\ \A i \in 1..Len(s) : c[i] = s[i]
      /\ \A i \in (Len(s) + 1)..(Len(s) + Len(u)) : i - Len(s) \in 1..Len(u) /\ c[i] = u[i - Len(s)]
  BY Concat
<1> HIDE DEF c
<1>2. \A i \in 1..Len(c) : i \in 1..Len(s) \/ i \in (Len(s) + 1)..(Len(s) + Len(u))
  BY <1>1
<1>3. \A i \in 1..Len(c) : Quiet(c[i])
  BY <1>1, <1>2
<1> QED BY <1>1, <1>3 DEF c

LEMMA DestroyDungeonKeeps == Inv /\ CallDestroyDungeon => Grown
<1> SUFFICES ASSUME Inv, CallDestroyDungeon PROVE Grown
  OBVIOUS
<1> DEFINE s == DestroyDungeon(world, Seed)
<1>1. Called(s, counter, {})
  BY DEF CallDestroyDungeon, Asks
<1>2. IsSeq(s) /\ \A i \in 1..Len(s) : Quiet(s[i])
  BY DestroysNothingNew
<1> HIDE DEF s
<1> QED BY <1>1, <1>2, AskedKeeps

LEMMA OnExpireKeeps == Inv /\ CallOnExpire => Grown
<1> SUFFICES ASSUME Inv, CallOnExpire PROVE Grown
  OBVIOUS
<1>1. PICK t : Called(OnExpire(batch, world, t), counter, {})
  BY DEF CallOnExpire, Asks
<1> DEFINE s == OnExpire(batch, world, t)
           x == I("effect", t, "after", Unset, Nobody, Nobody)
           d == DestroyDungeon(world, GetAttr(batch, world, t, "seed"))
<1>2. s \in {<<>>, <<x>>, d}
  BY DEF OnExpire
<1>3. Quiet(x)
  BY Plainly DEF Makings
<1>4. IsSeq(d) /\ \A i \in 1..Len(d) : Quiet(d[i])
  BY DestroysNothingNew
<1> HIDE DEF s, x, d
<1>5. IsSeq(s) /\ \A i \in 1..Len(s) : Quiet(s[i])
  BY <1>2, <1>3, <1>4, QuietOne, QuietNone
<1> QED BY <1>1, <1>5, AskedKeeps DEF s

LEMMA OnEnterKeeps == Inv /\ CallOnEnter => Grown
<1> SUFFICES ASSUME Inv, CallOnEnter PROVE Grown
  OBVIOUS
<1> DEFINE s == OnEnter(batch, world, Actor, Room)
           x == I("attr", Room, "triggered", <<1, 1>>, Nobody, Nobody)
           y == I("attr", Actor, "blocked", <<1, 1>>, Nobody, Nobody)
           u == IF FindByTag(world, "troupe") = {} THEN <<>> ELSE <<y>>
<1>1. Called(s, counter, {})
  BY DEF CallOnEnter, Asks
<1>2. s = <<>> \/ s = <<x>> \o u
  BY DEF OnEnter
<1>3. Quiet(x) /\ Quiet(y)
  BY Plainly DEF Makings
<1> HIDE DEF s, x, y
<1>4. IsSeq(u) /\ \A i \in 1..Len(u) : Quiet(u[i])
  BY <1>3, QuietOne, QuietNone
<1> HIDE DEF u
<1>5. IsSeq(<<x>> \o u) /\ \A i \in 1..Len(<<x>> \o u) : Quiet((<<x>> \o u)[i])
  BY <1>3, <1>4, QuietOne, QuietBoth
<1>6. IsSeq(s) /\ \A i \in 1..Len(s) : Quiet(s[i])
  <2>1. CASE s = <<>>
    BY <2>1, QuietNone
  <2>2. CASE s = <<x>> \o u
    BY <1>5, <2>2
  <2> QED BY <1>2, <2>1, <2>2
<1> QED BY <1>1, <1>6, AskedKeeps DEF s

LEMMA TerrainHookIsQuiet ==
    ASSUME NEW w, NEW tpl, NEW actor, NEW at, NEW hook
    PROVE  LET s == TerrainHook(w, tpl, actor, at, hook) IN IsSeq(s) /\ \A i \in 1..Len(s) : Quiet(s[i])
<1> DEFINE s == TerrainHook(w, tpl, actor, at, hook)
           hosts == WithKey(w, tpl.terrain[Drawn(tpl, at[1], at[2])].arch)
           x == I("effect", Min(hosts), hook, Unset, actor, Nobody)
<1>1. s = <<>> \/ s = <<x>>
  BY DEF TerrainHook
<1>2. Quiet(x)
  <2> HIDE DEF hosts
  <2> QED BY Plainly DEF Makings
<1> HIDE DEF s, x
<1>3. IsSeq(s) /\ \A i \in 1..Len(s) : Quiet(s[i])
  BY <1>1, <1>2, QuietOne, QuietNone
<1> QED BY <1>3 DEF s

LEMMA GridMoveKeeps == Inv /\ CallGridMove => Grown
<1> SUFFICES ASSUME Inv, CallGridMove PROVE Grown
  OBVIOUS
<1>1. PICK n, c, t : Called(GridMove(world, templates[n], t, c.k), counter, {})
  BY DEF CallGridMove, Asks
<1> DEFINE s == GridMove(world, templates[n], t, c.k)
           at == world[t].attrs["pos"]
           step == ResolveGridStep(templates[n], at[1], at[2], c.k)
           x == I("attr", t, "pos", step.to, Nobody, Nobody)
           u == TerrainHook(world, templates[n], t, at, "on_leave")
           v == TerrainHook(world, templates[n], t, step.to, "on_enter")
<1>2. s = <<>> \/ s = <<x>> \o u \o v
  BY DEF GridMove
<1> HIDE DEF step, at
<1>3. Quiet(x)
  BY Plainly DEF Makings
<1>4. /\ IsSeq(u) /\ \A i \in 1..Len(u) : Quiet(u[i])
      /\ IsSeq(v) /\ \A i \in 1..Len(v) : Quiet(v[i])
  BY TerrainHookIsQuiet
<1> HIDE DEF s, x, u, v
<1> DEFINE a == <<x>> \o u
<1>5. IsSeq(a) /\ \A i \in 1..Len(a) : Quiet(a[i])
  BY <1>3, <1>4, QuietOne, QuietBoth
<1>6. s = <<>> \/ s = a \o v
  BY <1>2
<1> HIDE DEF a
<1>7. IsSeq(a \o v) /\ \A i \in 1..Len(a \o v) : Quiet((a \o v)[i])
  BY <1>4, <1>5, QuietBoth
<1>8. IsSeq(s) /\ \A i \in 1..Len(s) : Quiet(s[i])
  <2>1. CASE s = <<>>
    BY <2>1, QuietNone
  <2>2. CASE s = a \o v
    BY <1>7, <2>2
  <2> QED BY <1>6, <2>1, <2>2
<1> QED BY <1>1, <1>8, AskedKeeps DEF s

(* Stories *)
LEMMA ToldKeeps ==
    ASSUME Inv, NEW s, IsSeq(s), \A i \in 1..Len(s) : Quiet(s[i]), NEW far, Tells(s, far)
    PROVE  Grown
<1>1. /\ batch' = batch \o s /\ counter' = counter /\ chosen' = chosen
      /\ world' = world /\ nextId' = nextId /\ templates' = templates /\ repertoire' = repertoire
  BY DEF Tells
<1>2. counter \in Int /\ Numbered(batch, nextId, counter, chosen)
  BY DEF Inv, Numbered
<1>3. Numbered(s, counter, counter, chosen)
  BY <1>2, NoneMade
<1>4. Numbered(batch \o s, nextId, counter, chosen)
  BY <1>2, <1>3, Join
<1>5. HandedOut'
  BY <1>1 DEF Inv, HandedOut
<1> QED BY <1>1, <1>4, <1>5 DEF Inv, Grown

LEMMA StoriesKeep == Inv /\ Stories => Grown
<1> SUFFICES ASSUME Inv, Stories PROVE Grown
  OBVIOUS
<1> DEFINE x == I("attr", This, "story", <<told, 0>>, Nobody, Nobody)
<1>1. Quiet(x)
  BY Plainly DEF Makings
<1> HIDE DEF x
<1>2. ASSUME NEW far, Tells(<<>>, far) PROVE Grown
  BY <1>2, QuietNone, ToldKeeps
<1>3. ASSUME NEW far, Tells(<<x>>, far) PROVE Grown
  BY <1>1, <1>3, QuietOne, ToldKeeps
<1>4. CASE InkStart
  BY <1>2, <1>4 DEF InkStart
<1>5. CASE InkContinue
  BY <1>2, <1>5 DEF InkContinue
<1>6. CASE InkChoose
  BY <1>2, <1>6 DEF InkChoose
<1>7. CASE InkGoto
  BY <1>2, <1>7 DEF InkGoto
<1>8. CASE InkSetVar
  BY <1>2, <1>8 DEF InkSetVar
<1>9. CASE InkEnd
  <2>1. \E c : Tells(IF c.k = "save" /\ told # 0 THEN <<x>> ELSE <<>>, 0)
    BY <1>9 DEF InkEnd, x
  <2>2. Tells(<<x>>, 0) \/ Tells(<<>>, 0)
    BY <2>1
  <2> QED BY <1>2, <1>3, <2>2
<1> QED BY <1>4, <1>5, <1>6, <1>7, <1>8, <1>9 DEF Stories

(* Runs *)
LEMMA RunKeeps == Inv /\ Run => Inv'
<1> SUFFICES ASSUME Inv, Run PROVE Inv'
  OBVIOUS
<1>1. nextId \in Int /\ counter \in Int /\ nextId <= counter
  BY DEF Inv, Numbered
<1>2. Numbered(<<>>, nextId, nextId, chosen) /\ Numbered(<<>>, counter, counter, chosen)
  BY <1>1, Nothing
<1>3. ASSUME NEW how, NEW deep, Begins(how, deep) PROVE Inv'
  <2>1. /\ batch' = <<>> /\ counter' = nextId /\ chosen' = chosen
        /\ world' = world /\ nextId' = nextId /\ templates' = templates /\ repertoire' = repertoire
    BY <1>3 DEF Begins
  <2>2. HandedOut'
    BY <2>1 DEF Inv, HandedOut
  <2> QED BY <1>2, <2>1, <2>2 DEF Inv
<1>4. ASSUME NEW m, Ends(world, nextId, m) PROVE Inv'
  <2>1. /\ batch' = <<>> /\ counter' = nextId /\ chosen' = chosen
        /\ world' = world /\ nextId' = nextId /\ templates' = templates /\ repertoire' = repertoire
    BY <1>4 DEF Ends
  <2>2. HandedOut'
    BY <2>1 DEF Inv, HandedOut
  <2> QED BY <1>2, <2>1, <2>2 DEF Inv
<1>5. ASSUME NEW m, Ends(Apply(world, batch).w, counter, m) PROVE Inv'
  <2> DEFINE w == Apply(world, batch).w
  <2>1. /\ batch' = <<>> /\ counter' = counter /\ chosen' = chosen
        /\ world' = w /\ nextId' = counter /\ templates' = templates /\ repertoire' = repertoire
    BY <1>5 DEF Ends
  <2>2. /\ Sound(w)
        /\ \A r \in DOMAIN w : r \in DOMAIN world \/ \E i \in 1..Len(batch) : batch[i].op \in Makings /\ batch[i].t = r
    BY ApplyIsSound DEF Inv, Numbered
  <2> HIDE DEF w
  <2>3. HandedOut'
    <3>1. \A i \in 1..Len(batch) : Makes1(batch[i], nextId, counter, chosen)
      BY DEF Inv, Numbered
    <3>2. HandedOut
      BY DEF Inv
    <3> QED BY <1>1, <2>1, <2>2, <3>1, <3>2 DEF HandedOut, Makes1
  <2> QED BY <1>2, <2>1, <2>2, <2>3 DEF Inv
<1>6. CASE RunHook \/ RunEval
  BY <1>3, <1>6 DEF RunHook, RunEval
<1>7. CASE Pass \/ Return
  BY <1>7 DEF Pass, Return, Inv, HandedOut
<1>8. CASE Dies
  BY <1>4, <1>8 DEF Dies
<1>9. CASE Finish
  BY <1>4, <1>5, <1>9 DEF Finish
<1> QED BY <1>6, <1>7, <1>8, <1>9 DEF Run

(* What happens between scripts makes nothing *)
LEMMA BetweenKeeps ==
    ASSUME Inv, NEW w, NEW m, Sound(w), DOMAIN w = DOMAIN world, Between(w, m)
    PROVE  Inv'
  BY DEF Between, Inv, HandedOut, script

LEMMA OthersKeep == Inv /\ (Walk \/ Disconnect \/ Reconnect \/ Libraries) => Inv'
<1> SUFFICES ASSUME Inv, Walk \/ Disconnect \/ Reconnect \/ Libraries PROVE Inv'
  OBVIOUS
<1>1. Sound(world)
  BY DEF Inv
<1>2. CASE Walk
  <2>1. PICK x : Between([world EXCEPT ![Actor].loc = world[x].target], modules)
    BY <1>2 DEF Walk
  <2> DEFINE w == [world EXCEPT ![Actor].loc = world[x].target]
  <2>2. Sound(w) /\ DOMAIN w = DOMAIN world
    BY <1>1 DEF Sound, Shaped
  <2> HIDE DEF w
  <2> QED BY <2>1, <2>2, BetweenKeeps DEF w
<1>3. CASE Disconnect
  <2> DEFINE w == [world EXCEPT ![Actor].tags = @ \cup {"offline"}]
  <2>1. Between(w, modules)
    BY <1>3 DEF Disconnect
  <2>2. Sound(w) /\ DOMAIN w = DOMAIN world
    BY <1>1 DEF Sound, Shaped
  <2> HIDE DEF w
  <2> QED BY <2>1, <2>2, BetweenKeeps
<1>4. CASE Reconnect
  <2> DEFINE w == [world EXCEPT ![Actor].tags = @ \ {"offline"}]
  <2>1. Between(w, modules)
    BY <1>4 DEF Reconnect
  <2>2. Sound(w) /\ DOMAIN w = DOMAIN world
    BY <1>1 DEF Sound, Shaped
  <2> HIDE DEF w
  <2> QED BY <2>1, <2>2, BetweenKeeps
<1>5. ASSUME NEW o, NEW k, NEW text, NEW m, Between([world EXCEPT ![o].libs[k] = text], m) PROVE Inv'
  <2> DEFINE w == [world EXCEPT ![o].libs[k] = text]
  <2>1. Between(w, m)
    BY <1>5
  <2>2. Sound(w) /\ DOMAIN w = DOMAIN world
    BY <1>1 DEF Sound, Shaped
  <2> HIDE DEF w
  <2> QED BY <2>1, <2>2, BetweenKeeps
<1>6. CASE WriteLib
  BY <1>5, <1>6 DEF WriteLib
<1>7. CASE ImportOverRest
  BY <1>5, <1>7 DEF ImportOverRest
<1>8. CASE ReloadModules
  BY <1>1, <1>8, BetweenKeeps DEF ReloadModules
<1>9. CASE CallRequire
  BY <1>9 DEF CallRequire, script, Inv, HandedOut
<1> QED BY <1>2, <1>3, <1>4, <1>6, <1>7, <1>8, <1>9 DEF Libraries

LEMMA NextKeepsInv == Inv /\ [Next]_vars => Inv'
<1> SUFFICES ASSUME Inv, [Next]_vars PROVE Inv'
  OBVIOUS
<1>1. CASE Run
  BY <1>1, RunKeeps
<1>2. CASE Values
  BY <1>2, SetAttrKeeps, AssignAttrKeeps, UnsetsKeep, PromptKeeps, TransferAttrKeeps, SetValKeeps, CopyAttrsKeeps,
     WordsKeep DEF Grown, Values
<1>3. CASE Effects
  BY <1>3, WordsKeep, ScriptsKeep, MessagesKeep DEF Grown, Effects
<1>4. CASE Places
  BY <1>4, MovesKeep, ThingsKeep, SpawnAsKeeps, RegionsKeep, DestroyDungeonKeeps, OnExpireKeeps, OnEnterKeeps,
     GridMoveKeeps DEF Grown, Places
<1>5. CASE Stories
  BY <1>5, StoriesKeep DEF Grown
<1>6. CASE Libraries \/ Walk \/ Disconnect \/ Reconnect
  BY <1>6, OthersKeep
<1>7. CASE UNCHANGED vars
  BY <1>7 DEF vars, script, Inv, HandedOut
<1> QED BY <1>1, <1>2, <1>3, <1>4, <1>5, <1>6, <1>7 DEF Next

LEMMA Invariance == Spec => []Inv
  BY InitInv, NextKeepsInv, PTL DEF Spec

(* A reference is handed out once: whatever a script makes, by spawn,         *)
(* clone_object, create_exit, generate_dungeon and instantiate_map in any     *)
(* order and number, and however many scripts have died before it with their  *)
(* counters, no two things share a reference and none has that of something   *)
(* in the world; but for those references a script chose itself.              *)
THEOREM ReferencesAreHandedOutOnce == Spec => []HandedOutOnce
  BY Invariance, InvImpliesHandedOutOnce, PTL
-----------------------------------------------------------------------------
(* Libraries.  require calls itself for what a library needs, with one name   *)
(* more among those being loaded: what it does where k names are left rests   *)
(* on what it does where fewer are (Askable).                                 *)

States == [ok : BOOLEAN, m : Tables]
Askable(k) == {p \in LibNames \X (SUBSET LibNames) \X States : Cardinality(LibNames \ p[2]) < k}
Script(p) == TextOf(p[3].m, p[1])

(* Require, with another function for what it calls *)
RequireOf(f, p) ==
    LET n == p[1]
        loading == p[2]
        st == p[3]
        text == TextOf(st.m, n)
        each[i \in 0..Len(Needs[text])] ==
            IF i = 0 THEN st ELSE f[<<Needs[text][i], loading \cup {n}, each[i - 1]>>]
    IN  IF ~st.ok \/ st.m.cache[n] # {} THEN st
        ELSE IF text = NoText \/ n \in loading THEN [st EXCEPT !.ok = FALSE]
        ELSE Keep(n, text, each[Len(Needs[text])])

Skips(p) == ~p[3].ok \/ p[3].m.cache[p[1]] # {}
Fails(p) == ~Skips(p) /\ (Script(p) = NoText \/ p[1] \in p[2])

LEMMA RequireOfIs ==
    ASSUME NEW f, NEW p
    PROVE  /\ Skips(p) => RequireOf(f, p) = p[3]
           /\ Fails(p) => RequireOf(f, p) = [p[3] EXCEPT !.ok = FALSE]
  BY DEF RequireOf, Skips, Fails, Script

LEMMA RequireLoops ==
    ASSUME NEW f, NEW p, Len(Needs[Script(p)]) \in Nat, ~Skips(p), ~Fails(p)
    PROVE  \E u : /\ Looping(u, "require", p[3], Len(Needs[Script(p)]), <<f, Needs[Script(p)], p[2] \cup {p[1]}>>)
                  /\ RequireOf(f, p) = Keep(p[1], Script(p), u[Len(Needs[Script(p)])])
<1> DEFINE text == TextOf(p[3].m, p[1])
           Is(u) == u = [i \in 0..Len(Needs[text]) |-> IF i = 0 THEN p[3]
                            ELSE f[<<Needs[text][i], p[2] \cup {p[1]}, u[i - 1]>>]]
           W == CHOOSE u : Is(u)
<1>1. \A u : Looping(u, "require", p[3], Len(Needs[text]), <<f, Needs[text], p[2] \cup {p[1]}>>) <=> Is(u)
  BY DEF Looping, Turn
<1>2. \E u : Is(u)
  BY <1>1, Runs DEF Script
<1>3. Is(W)
  BY <1>2
<1>4. RequireOf(f, p) = IF Skips(p) THEN p[3] ELSE IF Fails(p) THEN [p[3] EXCEPT !.ok = FALSE]
                        ELSE Keep(p[1], text, W[Len(Needs[text])])
  BY DEF RequireOf, Skips, Fails, Script
<1>5. RequireOf(f, p) = Keep(p[1], text, W[Len(Needs[text])])
  BY <1>4
<1> HIDE DEF W, Is
<1> QED BY <1>1, <1>3, <1>5 DEF Script

(* What one state of the tables may become another by: the texts stay, and    *)
(* what is kept was kept, or is made of what the texts now are.               *)
Follows(st, x) ==
    /\ x \in States
    /\ x.m.shipped = st.m.shipped /\ x.m.sources = st.m.sources /\ x.m.dirty = st.m.dirty
    /\ \A n \in LibNames : \A made \in x.m.cache[n] :
           \/ \E q \in LibNames : made \in st.m.cache[q]
           \/ made[1] \in LibNames /\ made[2] # NoText /\ made[2] = TextOf(st.m, made[1])

LEMMA FollowsItself == \A st \in States : Follows(st, st)
  BY DEF Follows

LEMMA FollowsOn ==
    ASSUME NEW a, NEW b, NEW c, Follows(a, b), Follows(b, c)
    PROVE  Follows(a, c)
  BY DEF Follows, TextOf

LEMMA FailingFollows ==
    ASSUME NEW st \in States
    PROVE  Follows(st, [st EXCEPT !.ok = FALSE])
  BY DEF Follows, States

LEMMA KeepFollows ==
    ASSUME NEW st \in States, NEW x, Follows(st, x), NEW n \in LibNames, TextOf(st.m, n) \in Texts
    PROVE  Follows(st, Keep(n, TextOf(st.m, n), x))
<1> DEFINE text == TextOf(st.m, n)
           own == {<<n, text>>} \cup UNION {x.m.cache[Needs[text][i]] : i \in DOMAIN Needs[text]}
           cache == [x.m.cache EXCEPT ![n] = own]
           m == [x.m EXCEPT !.cache = cache]
           y == [x EXCEPT !.m = m]
<1>1. Keep(n, text, x) = IF x.ok THEN y ELSE x
  BY DEF Keep
<1>2. x.m \in Tables /\ x.ok \in BOOLEAN /\ x.m.cache \in [LibNames -> SUBSET (LibNames \X Texts)]
  BY DEF Follows, States, Tables
<1>3. text \in Texts /\ text # NoText /\ Needs[text] \in Seq(LibNames)
  BY SoftcodeAssumption
<1>4. \A i \in DOMAIN Needs[text] : Needs[text][i] \in LibNames
  BY <1>3
<1>5. own \subseteq LibNames \X Texts
  BY <1>2, <1>3, <1>4
<1>6. \A made \in own : made = <<n, text>> \/ \E q \in LibNames : made \in x.m.cache[q]
  BY <1>4
<1> HIDE DEF own
<1>7. cache \in [LibNames -> SUBSET (LibNames \X Texts)]
  BY <1>2, <1>5
<1>8. \A q \in LibNames : \A made \in cache[q] : made = <<n, text>> \/ \E r \in LibNames : made \in x.m.cache[r]
  BY <1>2, <1>6
<1> HIDE DEF cache
<1>9. m \in Tables /\ m.shipped = x.m.shipped /\ m.sources = x.m.sources /\ m.dirty = x.m.dirty /\ m.cache = cache
  BY <1>2, <1>7 DEF Tables
<1> HIDE DEF m
<1>10. y \in States /\ y.m = m
  BY <1>9 DEF Follows, States
<1> HIDE DEF y
<1>11. Follows(st, y)
  <2>1. ASSUME NEW q \in LibNames, NEW made \in y.m.cache[q]
        PROVE  \/ \E r \in LibNames : made \in st.m.cache[r]
               \/ made[1] \in LibNames /\ made[2] # NoText /\ made[2] = TextOf(st.m, made[1])
    <3>1. CASE made = <<n, text>>
      BY <1>3, <3>1
    <3>2. CASE \E r \in LibNames : made \in x.m.cache[r]
      BY <3>2 DEF Follows
    <3> QED BY <1>8, <1>9, <1>10, <3>1, <3>2
  <2> QED BY <1>9, <1>10, <2>1 DEF Follows
<1> QED BY <1>1, <1>11

LEMMA RequireDeepens ==
    ASSUME NEW k \in Nat, NEW w, \A q \in Askable(k) : Follows(q[3], w[q]),
           NEW v, \A q \in Askable(k) : v[q] = w[q], NEW p \in Askable(k + 1)
    PROVE  RequireOf(v, p) = RequireOf(w, p) /\ Follows(p[3], RequireOf(w, p))
<1> DEFINE n == p[1]
           st == p[3]
           text == Script(p)
           more == p[2] \cup {n}
<1>1. n \in LibNames /\ p[2] \in SUBSET LibNames /\ st \in States /\ Cardinality(LibNames \ p[2]) < k + 1
  BY DEF Askable
<1>2. CASE Skips(p)
  BY <1>1, <1>2, RequireOfIs, FollowsItself
<1>3. CASE Fails(p)
  <2>1. RequireOf(v, p) = [st EXCEPT !.ok = FALSE] /\ RequireOf(w, p) = [st EXCEPT !.ok = FALSE]
    BY <1>3, RequireOfIs
  <2> DEFINE x == [st EXCEPT !.ok = FALSE]
  <2>2. Follows(st, x)
    BY <1>1, FailingFollows
  <2>3. RequireOf(v, p) = x /\ RequireOf(w, p) = x
    BY <2>1
  <2> HIDE DEF x
  <2> QED BY <2>2, <2>3
<1>4. CASE ~Skips(p) /\ ~Fails(p)
  <2>1. text # NoText /\ n \notin p[2]
    BY <1>4 DEF Fails
  <2>2. text \in Texts /\ text = TextOf(st.m, n)
    <3>1. st.m.shipped \in [LibNames -> Texts \cup {NoText}] /\ st.m.sources \in [LibNames -> Texts \cup {NoText}]
      BY <1>1 DEF States, Tables
    <3>2. TextOf(st.m, n) \in Texts \cup {NoText}
      BY <1>1, <3>1 DEF TextOf
    <3> QED BY <2>1, <3>2 DEF Script
  <2> DEFINE N == Len(Needs[text])
  <2>3. N \in Nat /\ \A i \in 1..N : Needs[text][i] \in LibNames
    <3>1. Needs \in [Texts -> Seq(LibNames)]
      BY SoftcodeAssumption
    <3> DEFINE needed == Needs[text]
    <3>2. needed \in Seq(LibNames)
      BY <2>2, <3>1
    <3> HIDE DEF needed
    <3>3. Len(needed) \in Nat /\ \A i \in 1..Len(needed) : needed[i] \in LibNames
      BY <3>2
    <3> QED BY <3>3 DEF needed
  <2>4. Cardinality(LibNames \ more) < k
    <3> DEFINE A == LibNames \ p[2]
    <3>1. IsFiniteSet(A) /\ n \in A
      BY <1>1, <2>1, FS_Subset, SoftcodeAssumption
    <3>2. LibNames \ more = A \ {n} /\ Cardinality(A) < k + 1
      BY <1>1
    <3> HIDE DEF A, n, more
    <3>3. Cardinality(A \ {n}) = Cardinality(A) - 1 /\ Cardinality(A) \in Nat
      BY <3>1, FS_RemoveElement, FS_CardinalityType
    <3>4. Cardinality(LibNames \ more) = Cardinality(A \ {n})
      BY <3>2, Zenon
    <3> QED BY <3>2, <3>3, <3>4
  <2>5. more \in SUBSET LibNames
    BY <1>1
  <2>6. PICK a : Looping(a, "require", st, N, <<w, Needs[text], more>>) /\ RequireOf(w, p) = Keep(n, text, a[N])
    BY <1>4, <2>3, RequireLoops
  <2>7. PICK b : Looping(b, "require", st, N, <<v, Needs[text], more>>) /\ RequireOf(v, p) = Keep(n, text, b[N])
    BY <1>4, <2>3, RequireLoops
  <2> HIDE DEF N, more, text, st, n
  <2>8. a[0] = st /\ b[0] = st
    <3>1. a[0] = st
      BY <2>3, <2>6, RunIs
    <3>2. b[0] = st
      BY <2>3, <2>7, RunIs
    <3> QED BY <3>1, <3>2
  <2>9. ASSUME NEW i \in 1..N
        PROVE  a[i] = w[<<Needs[text][i], more, a[i - 1]>>] /\ b[i] = v[<<Needs[text][i], more, b[i - 1]>>]
    <3> DEFINE x == <<w, Needs[text], more>>
               y == <<v, Needs[text], more>>
    <3>1. /\ x[1] = w /\ x[2] = Needs[text] /\ x[3] = more
          /\ y[1] = v /\ y[2] = Needs[text] /\ y[3] = more
      OBVIOUS
    <3>2. Looping(a, "require", st, N, x) /\ Looping(b, "require", st, N, y)
      BY <2>6, <2>7
    <3> HIDE DEF x, y
    <3>3. a[i] = Turn("require", i, a[i - 1], x)
      BY <2>3, <3>2, RunIs
    <3>4. b[i] = Turn("require", i, b[i - 1], y)
      BY <2>3, <3>2, RunIs
    <3>5. Turn("require", i, a[i - 1], x) = x[1][<<x[2][i], x[3], a[i - 1]>>]
      BY Turns
    <3>6. Turn("require", i, b[i - 1], y) = y[1][<<y[2][i], y[3], b[i - 1]>>]
      BY Turns
    <3> QED BY <3>1, <3>3, <3>4, <3>5, <3>6
  <2> DEFINE S == {i \in 0..N : a[i] = b[i] /\ Follows(st, a[i])}
  <2>10. 0 \in S
    BY <1>1, <2>3, <2>8, FollowsItself DEF st
  <2>11. ASSUME NEW i \in 1..N, i - 1 \in S PROVE i \in S
    <3> DEFINE q == <<Needs[text][i], more, a[i - 1]>>
    <3>1. a[i - 1] = b[i - 1] /\ Follows(st, a[i - 1]) /\ a[i - 1] \in States
      BY <2>11 DEF Follows
    <3>2. q \in Askable(k) /\ q[3] = a[i - 1]
      BY <2>3, <2>4, <2>5, <3>1 DEF Askable
    <3>3. a[i] = w[q] /\ b[i] = v[q]
      BY <2>9, <3>1
    <3> HIDE DEF q
    <3>4. v[q] = w[q] /\ Follows(q[3], w[q])
      BY <3>2
    <3>5. Follows(st, a[i]) /\ a[i] = b[i]
      BY <3>1, <3>2, <3>3, <3>4, FollowsOn
    <3> QED BY <3>5
  <2>12. N \in S
    <3> HIDE DEF S
    <3>1. \A i \in 0..N : i \in S
      BY <2>3, <2>10, <2>11, Climb
    <3> QED BY <2>3, <3>1
  <2>13. a[N] = b[N] /\ Follows(st, a[N])
    BY <2>12
  <2>14. Follows(st, Keep(n, text, a[N]))
    <3>1. st \in States /\ n \in LibNames
      BY <1>1 DEF st, n
    <3>2. Follows(st, Keep(n, TextOf(st.m, n), a[N]))
      BY <2>2, <2>13, <3>1, KeepFollows
    <3> QED BY <2>2, <3>2
  <2> QED BY <2>6, <2>7, <2>13, <2>14 DEF st
<1> QED BY <1>2, <1>3, <1>4

LEMMA AskableGrows ==
    ASSUME NEW k \in Nat
    PROVE  Askable(k) \subseteq Askable(k + 1)
<1> SUFFICES ASSUME NEW p \in Askable(k) PROVE Cardinality(LibNames \ p[2]) < k + 1
  BY DEF Askable
<1>1. IsFiniteSet(LibNames \ p[2])
  BY FS_Subset, SoftcodeAssumption
<1>2. Cardinality(LibNames \ p[2]) \in Nat
  BY <1>1, FS_CardinalityType
<1> QED BY <1>2 DEF Askable

LEMMA AllAskable ==
    /\ Cardinality(LibNames) \in Nat
    /\ LibNames \X (SUBSET LibNames) \X States = Askable(Cardinality(LibNames) + 1)
    /\ Askable(0) = {}
<1>1. ASSUME NEW s \in SUBSET LibNames
      PROVE  Cardinality(LibNames \ s) \in Nat /\ Cardinality(LibNames \ s) <= Cardinality(LibNames)
  <2>1. IsFiniteSet(LibNames) /\ LibNames \ s \subseteq LibNames
    BY SoftcodeAssumption
  <2>2. IsFiniteSet(LibNames \ s) /\ Cardinality(LibNames \ s) <= Cardinality(LibNames)
    BY <2>1, FS_Subset
  <2> QED BY <2>2, FS_CardinalityType
<1>2. Cardinality(LibNames) \in Nat
  BY FS_CardinalityType, SoftcodeAssumption
<1>3. LibNames \X (SUBSET LibNames) \X States = Askable(Cardinality(LibNames) + 1)
  <2>1. ASSUME NEW p \in LibNames \X (SUBSET LibNames) \X States PROVE Cardinality(LibNames \ p[2]) < Cardinality(LibNames) + 1
    <3>1. p[2] \in SUBSET LibNames
      OBVIOUS
    <3> QED BY <1>1, <1>2, <3>1
  <2> QED BY <2>1 DEF Askable
<1>4. Askable(0) = {}
  <2>1. ASSUME NEW p \in LibNames \X (SUBSET LibNames) \X States PROVE ~(Cardinality(LibNames \ p[2]) < 0)
    <3>1. p[2] \in SUBSET LibNames
      OBVIOUS
    <3> QED BY <1>1, <3>1
  <2> QED BY <2>1 DEF Askable
<1> QED BY <1>2, <1>3, <1>4

(* There is a function that does what Require does. *)
LEMMA RequiringExists ==
    \E u : u = [p \in LibNames \X (SUBSET LibNames) \X States |-> RequireOf(u, p)]
<1> DEFINE N == Cardinality(LibNames) + 1
           Good(u, k) == u = [p \in Askable(k) |-> RequireOf(u, p)] /\ \A p \in Askable(k) : Follows(p[3], u[p])
           S == {k \in 0..N : \E u : Good(u, k)}
<1>1. N \in Nat
  BY AllAskable
<1>2. 0 \in S
  <2> DEFINE u == [p \in Askable(0) |-> 0]
  <2>1. u = [p \in Askable(0) |-> RequireOf(u, p)]
    <3> HIDE DEF u
    <3>1. u = [p \in Askable(0) |-> 0]
      BY DEF u
    <3> QED BY <3>1, AllAskable
  <2>2. Good(u, 0)
    <3> HIDE DEF u
    <3> QED BY <2>1, AllAskable
  <2> HIDE DEF u, Good
  <2> QED BY <1>1, <2>2
<1>3. ASSUME NEW k \in 1..N, k - 1 \in S PROVE k \in S
  <2>1. PICK w : Good(w, k - 1)
    BY <1>3
  <2>2. k - 1 \in Nat /\ (k - 1) + 1 = k /\ Askable(k - 1) \subseteq Askable(k)
    <3>1. k - 1 \in Nat /\ (k - 1) + 1 = k
      BY <1>1
    <3> QED BY <3>1, AskableGrows
  <2>3. /\ \A q \in Askable(k - 1) : Follows(q[3], w[q])
        /\ \A q \in Askable(k - 1) : w[q] = RequireOf(w, q)
    <3>1. w = [p \in Askable(k - 1) |-> RequireOf(w, p)] /\ \A q \in Askable(k - 1) : Follows(q[3], w[q])
      BY <2>1
    <3> QED BY <3>1
  <2> DEFINE v == [p \in Askable(k) |-> RequireOf(w, p)]
  <2>4. \A p \in Askable(k) : v[p] = RequireOf(w, p)
    OBVIOUS
  <2>5. \A q \in Askable(k - 1) : v[q] = w[q]
    <3> HIDE DEF v
    <3> QED BY <2>2, <2>3, <2>4
  <2>6. ASSUME NEW p \in Askable(k) PROVE RequireOf(v, p) = RequireOf(w, p) /\ Follows(p[3], RequireOf(w, p))
    <3>1. p \in Askable((k - 1) + 1)
      BY <2>2
    <3> HIDE DEF v
    <3> QED BY <2>2, <2>3, <2>5, <3>1, RequireDeepens
  <2>7. v = [p \in Askable(k) |-> RequireOf(v, p)]
    <3>1. v = [p \in Askable(k) |-> v[p]]
      OBVIOUS
    <3> HIDE DEF v
    <3> QED BY <2>4, <2>6, <3>1
  <2>8. Good(v, k)
    <3> HIDE DEF v
    <3> QED BY <2>4, <2>6, <2>7
  <2> HIDE DEF v, Good
  <2> QED BY <2>8
<1>4. N \in S
  <2> HIDE DEF S
  <2>1. \A k \in 0..N : k \in S
    BY <1>1, <1>2, <1>3, Climb
  <2> QED BY <1>1, <2>1
<1>5. PICK u : Good(u, N)
  BY <1>4
<1> QED BY <1>5, AllAskable

LEMMA RequireIs ==
    Require = [p \in LibNames \X (SUBSET LibNames) \X States |-> RequireOf(Require, p)]
<1> DEFINE W == CHOOSE u : u = [p \in LibNames \X (SUBSET LibNames) \X States |-> RequireOf(u, p)]
<1>1. W = [p \in LibNames \X (SUBSET LibNames) \X States |-> RequireOf(W, p)]
  <2> HIDE DEF W
  <2>1. W = CHOOSE u : u = [p \in LibNames \X (SUBSET LibNames) \X States |-> RequireOf(u, p)]
    BY DEF W
  <2> QED BY <2>1, RequiringExists
<1>2. Require = W
  BY DEF Require, RequireOf, States
<1> HIDE DEF W
<1> QED BY <1>1, <1>2

LEMMA RequireFollows ==
    ASSUME NEW p \in LibNames \X (SUBSET LibNames) \X States
    PROVE  Follows(p[3], Require[p])
<1> DEFINE N == Cardinality(LibNames) + 1
           S == {k \in 0..N : \A q \in Askable(k) : Follows(q[3], Require[q])}
<1>1. N \in Nat
  BY AllAskable
<1>2. 0 \in S
  BY <1>1, AllAskable
<1>3. ASSUME NEW k \in 1..N, k - 1 \in S PROVE k \in S
  <2>1. k - 1 \in Nat /\ (k - 1) + 1 = k
    BY <1>1
  <2>2. ASSUME NEW q \in Askable(k) PROVE Follows(q[3], Require[q])
    <3>1. q \in LibNames \X (SUBSET LibNames) \X States
      BY DEF Askable
    <3>2. Require[q] = RequireOf(Require, q)
      BY <3>1, RequireIs
    <3>3. q \in Askable((k - 1) + 1)
      BY <2>1
    <3>4. \A r \in Askable(k - 1) : Follows(r[3], Require[r])
      BY <1>3
    <3>5. Follows(q[3], RequireOf(Require, q))
      BY <2>1, <3>3, <3>4, RequireDeepens
    <3> QED BY <3>2, <3>5
  <2> QED BY <2>2
<1>4. N \in S
  <2> HIDE DEF S
  <2>1. \A k \in 0..N : k \in S
    BY <1>1, <1>2, <1>3, Climb
  <2> QED BY <1>1, <2>1
<1> QED BY <1>4, AllAskable

(* A world that hosts the same libraries as another, on what it had and on    *)
(* what came to it *)
SameLibs(w, v) ==
    /\ \A o \in DOMAIN w : o \in DOMAIN v /\ v[o].libs = w[o].libs
    /\ \A o \in DOMAIN v \ DOMAIN w : \A n \in LibNames :
           v[o].libs[n] = NoText \/ \E q \in DOMAIN w : v[o].libs[n] = w[q].libs[n]

LEMMA SameLibsItself == \A w : SameLibs(w, w)
  BY DEF SameLibs

LEMMA SameLibsOn ==
    ASSUME NEW a, NEW b, NEW c, SameLibs(a, b), SameLibs(b, c)
    PROVE  SameLibs(a, c)
<1>1. ASSUME NEW o \in DOMAIN a PROVE o \in DOMAIN c /\ c[o].libs = a[o].libs
  BY DEF SameLibs
<1>2. ASSUME NEW o \in DOMAIN b, NEW n \in LibNames
      PROVE  b[o].libs[n] = NoText \/ \E q \in DOMAIN a : b[o].libs[n] = a[q].libs[n]
  BY DEF SameLibs
<1>3. ASSUME NEW o \in DOMAIN c \ DOMAIN a, NEW n \in LibNames
      PROVE  c[o].libs[n] = NoText \/ \E q \in DOMAIN a : c[o].libs[n] = a[q].libs[n]
  <2>1. c[o].libs[n] = NoText \/ \E q \in DOMAIN b : c[o].libs[n] = b[q].libs[n]
    BY DEF SameLibs
  <2> QED BY <1>2, <2>1
<1> QED BY <1>1, <1>3 DEF SameLibs

LEMMA SameLibsHosted ==
    ASSUME NEW w, NEW v, SameLibs(w, v), NEW n \in LibNames
    PROVE  Hosted(v, n) = Hosted(w, n)
<1>1. ASSUME NEW text, text # NoText PROVE text \in Hosted(w, n) <=> text \in Hosted(v, n)
  <2>1. ASSUME NEW o \in DOMAIN w, w[o].libs[n] = text PROVE o \in DOMAIN v /\ v[o].libs[n] = text
    BY <2>1 DEF SameLibs
  <2>2. ASSUME NEW o \in DOMAIN v, v[o].libs[n] = text PROVE \E q \in DOMAIN w : w[q].libs[n] = text
    BY <1>1, <2>2 DEF SameLibs
  <2> QED BY <2>1, <2>2 DEF Hosted
<1>2. NoText \notin Hosted(w, n) /\ NoText \notin Hosted(v, n)
  BY DEF Hosted
<1> QED BY <1>1, <1>2

LEMMA SameLibsUpToDate ==
    ASSUME NEW w, NEW v, SameLibs(w, v), NEW m, m \in Tables, UpToDate(w, m)
    PROVE  UpToDate(v, m)
<1>1. \A n \in LibNames : Hosted(v, n) = Hosted(w, n)
  BY SameLibsHosted
<1>2. Found(w, m.sources) => Found(v, m.sources)
  BY <1>1 DEF Found
<1>3. ASSUME NEW n \in LibNames, NEW made \in m.cache[n] PROVE made[1] \in LibNames
  BY DEF Tables
<1> QED BY <1>1, <1>2, <1>3 DEF UpToDate

LEMMA MakeKeepsLibs ==
    ASSUME NEW w, NEW r, r \notin DOMAIN w, NEW thing,
           \A n \in LibNames : thing.libs[n] = NoText \/ \E q \in DOMAIN w : thing.libs[n] = w[q].libs[n]
    PROVE  SameLibs(w, Make(w, r, thing))
  BY DEF Make, SameLibs

(* An intent that neither writes a library nor destroys anything *)
LEMMA ChangedKeepsLibs ==
    ASSUME NEW w, Sound(w), NEW x, Accepts(w, x), x.op \notin {"lib", "destroy"}
    PROVE  SameLibs(w, Changed(w, x))
<1> DEFINE v == Changed(w, x)
           t == x.t
<1> SUFFICES SameLibs(w, v)
  OBVIOUS
<1>1. \A o \in DOMAIN w : "libs" \in DOMAIN w[o]
  BY DEF Sound, Shaped
<1>2. ASSUME v = w PROVE SameLibs(w, v)
  BY <1>2, SameLibsItself
<1>3. ASSUME NEW o, v = [w EXCEPT ![t] = o], t \in DOMAIN w => o.libs = w[t].libs PROVE SameLibs(w, v)
  <2> HIDE DEF v, t
  <2> QED BY <1>3 DEF SameLibs
<1>4. CASE x.op = "attr"
  <2>1. v = [w EXCEPT ![t] = [w[t] EXCEPT !.attrs[x.k] = x.v]]
    BY <1>4 DEF Changed
  <2>2. t \in DOMAIN w => [w[t] EXCEPT !.attrs[x.k] = x.v].libs = w[t].libs
    BY <1>1
  <2> HIDE DEF v, t
  <2> QED BY <1>3, <2>1, <2>2
<1>5. CASE x.op \in {"tag", "untag"}
  <2> DEFINE tags == IF x.op = "tag" THEN w[t].tags \cup {x.k} ELSE w[t].tags \ {x.k}
  <2>1. v = [w EXCEPT ![t] = [w[t] EXCEPT !.tags = tags]]
    BY <1>5 DEF Changed
  <2> HIDE DEF tags
  <2>2. t \in DOMAIN w => [w[t] EXCEPT !.tags = tags].libs = w[t].libs
    BY <1>1
  <2> HIDE DEF v, t
  <2> QED BY <1>3, <2>1, <2>2
<1>6. CASE x.op = "title"
  <2>1. v = [w EXCEPT ![t] = [w[t] EXCEPT !.title = x.k]]
    BY <1>6 DEF Changed
  <2>2. t \in DOMAIN w => [w[t] EXCEPT !.title = x.k].libs = w[t].libs
    BY <1>1
  <2> HIDE DEF v, t
  <2> QED BY <1>3, <2>1, <2>2
<1>7. CASE x.op = "desc"
  <2>1. v = [w EXCEPT ![t] = [w[t] EXCEPT !.desc = x.k]]
    BY <1>7 DEF Changed
  <2>2. t \in DOMAIN w => [w[t] EXCEPT !.desc = x.k].libs = w[t].libs
    BY <1>1
  <2> HIDE DEF v, t
  <2> QED BY <1>3, <2>1, <2>2
<1>8. CASE x.op = "owner"
  <2>1. v = [w EXCEPT ![t] = [w[t] EXCEPT !.owner = x.r]]
    BY <1>8 DEF Changed
  <2>2. t \in DOMAIN w => [w[t] EXCEPT !.owner = x.r].libs = w[t].libs
    BY <1>1
  <2> HIDE DEF v, t
  <2> QED BY <1>3, <2>1, <2>2
<1>9. CASE x.op = "move"
  <2>1. v = [w EXCEPT ![t] = [w[t] EXCEPT !.loc = x.r]]
    BY <1>9 DEF Changed
  <2>2. t \in DOMAIN w => [w[t] EXCEPT !.loc = x.r].libs = w[t].libs
    BY <1>1
  <2> HIDE DEF v, t
  <2> QED BY <1>3, <2>1, <2>2
<1>10. CASE x.op = "arch"
  <2>1. v = [w EXCEPT ![t] = [w[t] EXCEPT !.arch = x.r]]
    BY <1>10 DEF Changed
  <2>2. t \in DOMAIN w => [w[t] EXCEPT !.arch = x.r].libs = w[t].libs
    BY <1>1
  <2> HIDE DEF v, t
  <2> QED BY <1>3, <2>1, <2>2
<1>11. CASE x.op = "update"
  <2> DEFINE key == IF x.k = NoWord THEN w[t].key ELSE x.k
             half == [w EXCEPT ![t] = [w[t] EXCEPT !.key = key]]
             target == IF x.r = Nobody THEN half[t].target ELSE x.r
             full == [half EXCEPT ![t] = [half[t] EXCEPT !.target = target]]
  <2>1. v = full
    BY <1>11 DEF Changed
  <2> HIDE DEF key
  <2>2. t \in DOMAIN w => [w[t] EXCEPT !.key = key].libs = w[t].libs /\ "libs" \in DOMAIN [w[t] EXCEPT !.key = key]
    BY <1>1
  <2>3. DOMAIN half = DOMAIN w /\ \A o \in DOMAIN w : half[o].libs = w[o].libs /\ "libs" \in DOMAIN half[o]
    <3> HIDE DEF t
    <3> QED BY <1>1, <2>2
  <2> HIDE DEF half, target
  <2>4. DOMAIN full = DOMAIN w /\ \A o \in DOMAIN w : full[o].libs = w[o].libs
    <3>1. t \in DOMAIN w => [half[t] EXCEPT !.target = target].libs = half[t].libs
      BY <2>3
    <3> HIDE DEF t
    <3> QED BY <2>3, <3>1
  <2> HIDE DEF full, v
  <2> QED BY <2>1, <2>4 DEF SameLibs
<1>12. CASE x.op = "spawn"
  <2> DEFINE thing == [Blank(x.k, x.k, x.r) EXCEPT !.arch = x.a]
  <2>1. v = Make(w, t, thing) /\ t \notin DOMAIN w
    BY <1>12 DEF Changed, Accepts, Exists
  <2>2. \A n \in LibNames : thing.libs[n] = NoText
    BY DEF Blank, NoText
  <2> HIDE DEF thing, v, t
  <2> QED BY <2>1, <2>2, MakeKeepsLibs
<1>13. CASE x.op = "exit"
  <2> DEFINE thing == [Blank("exit", x.k, x.r) EXCEPT !.target = x.a]
  <2>1. v = Make(w, t, thing) /\ t \notin DOMAIN w
    BY <1>13 DEF Changed, Accepts, Exists
  <2>2. \A n \in LibNames : thing.libs[n] = NoText
    BY DEF Blank, NoText
  <2> HIDE DEF thing, v, t
  <2> QED BY <2>1, <2>2, MakeKeepsLibs
<1>14. CASE x.op = "clone"
  <2> DEFINE copy == [w[x.r] EXCEPT !.loc = IF x.a = Nobody THEN @ ELSE x.a, !.owner = Nobody,
                                    !.tags = @ \ {"offline", "managed"}]
  <2>1. v = Make(w, t, copy) /\ t \notin DOMAIN w /\ x.r \in DOMAIN w
    BY <1>14 DEF Changed, Accepts, Exists
  <2>2. copy.libs = w[x.r].libs
    BY <1>1, <2>1
  <2>3. \A n \in LibNames : \E q \in DOMAIN w : copy.libs[n] = w[q].libs[n]
    BY <2>1, <2>2
  <2> HIDE DEF copy, v, t
  <2> QED BY <2>1, <2>3, MakeKeepsLibs
<1>15. CASE x.op = "detach"
  <2>1. v = IF w[t].arch = Nobody THEN w ELSE [w EXCEPT ![t] = Detached(w, t)]
    BY <1>15 DEF Changed
  <2>2. t \in DOMAIN w => Detached(w, t).libs = w[t].libs
    BY <1>1 DEF Detached
  <2> HIDE DEF v, t
  <2> QED BY <1>2, <1>3, <2>1, <2>2
<1>16. CASE x.op = "transfer"
  <2> DEFINE take == <<Amount(w, t, x.k) - x.v[1], 0>>
             give == <<(IF w[x.r].attrs[x.k] = Unset THEN 0 ELSE Amount(w, x.r, x.k)) + x.v[1], 0>>
             half == [w EXCEPT ![t].attrs[x.k] = take]
             full == [half EXCEPT ![x.r].attrs[x.k] = give]
  <2>1. v = full
    BY <1>16 DEF Changed, Transferred
  <2> HIDE DEF take, give
  <2>2. DOMAIN half = DOMAIN w /\ \A o \in DOMAIN w : half[o].libs = w[o].libs /\ "libs" \in DOMAIN half[o]
    BY <1>1
  <2> HIDE DEF half
  <2>3. DOMAIN full = DOMAIN w /\ \A o \in DOMAIN w : full[o].libs = w[o].libs
    BY <2>2
  <2> HIDE DEF full, v
  <2> QED BY <2>1, <2>3 DEF SameLibs
<1>17. CASE x.op \notin {"attr", "tag", "untag", "title", "desc", "lib", "owner", "move", "update", "spawn", "exit", "clone",
                         "destroy", "detach", "arch", "transfer"}
  <2>1. v = w
    BY <1>17 DEF Changed
  <2> QED BY <1>2, <2>1
<1> QED BY <1>4, <1>5, <1>6, <1>7, <1>8, <1>9, <1>10, <1>11, <1>12, <1>13, <1>14, <1>15, <1>16, <1>17

(* A batch that neither writes a library nor destroys anything *)
LEMMA ApplyTurns ==
    ASSUME NEW w, NEW b, IsSeq(b)
    PROVE  /\ Len(b) \in Nat
           /\ \E u : /\ u[0].w = w /\ Apply(w, b) = u[Len(b)]
                     /\ \A i \in 1..Len(b) : u[i] = Then(u[i - 1], b[i])
<1> DEFINE N == Len(b)
           first == [ok |-> TRUE, w |-> w]
<1>1. N \in Nat
  BY DEF IsSeq
<1>2. PICK u : Looping(u, "apply", first, N, b) /\ Apply(w, b) = u[N]
  BY <1>1, ApplyLoops
<1>3. first.w = w
  OBVIOUS
<1> HIDE DEF N, first
<1>4. u[0] = first
  BY <1>1, <1>2, RunIs
<1>5. \A i \in 1..N : u[i] = Turn("apply", i, u[i - 1], b)
  BY <1>1, <1>2, RunIs
<1>6. \A i \in 1..N : u[i] = Then(u[i - 1], b[i])
  BY <1>5, Turns
<1> QED BY <1>1, <1>2, <1>3, <1>4, <1>6 DEF N

LEMMA ApplyKeepsLibs ==
    ASSUME NEW w, Sound(w), NEW b, IsSeq(b), \A i \in 1..Len(b) : Sane(b[i]) /\ b[i].op \notin {"lib", "destroy"}
    PROVE  SameLibs(w, Apply(w, b).w)
<1> DEFINE N == Len(b)
<1>1. PICK u : /\ u[0].w = w /\ Apply(w, b) = u[N]
               /\ \A i \in 1..N : u[i] = Then(u[i - 1], b[i])
  BY ApplyTurns
<1>2. N \in Nat
  BY ApplyTurns
<1>3. \A i \in 1..N : Sane(b[i]) /\ b[i].op \notin {"lib", "destroy"}
  OBVIOUS
<1> HIDE DEF N
<1> DEFINE S == {i \in 0..N : Sound(u[i].w) /\ SameLibs(w, u[i].w)}
<1>4. 0 \in S
  BY <1>1, <1>2, SameLibsItself
<1>5. ASSUME NEW i \in 1..N, i - 1 \in S PROVE i \in S
  <2> DEFINE v == u[i - 1].w
             x == b[i]
  <2>1. u[i] = Then(u[i - 1], x) /\ Sane(x) /\ x.op \notin {"lib", "destroy"} /\ Sound(v) /\ SameLibs(w, v)
    BY <1>1, <1>3, <1>5
  <2>2. u[i].w = v \/ (Accepts(v, x) /\ u[i].w = Changed(v, x))
    BY <2>1 DEF Then
  <2> HIDE DEF v, x
  <2>3. CASE u[i].w = v
    BY <2>1, <2>3
  <2>4. CASE Accepts(v, x) /\ u[i].w = Changed(v, x)
    <3>1. Sound(Changed(v, x))
      BY <2>1, <2>4, ChangedIsSound
    <3>2. SameLibs(v, Changed(v, x))
      BY <2>1, <2>4, ChangedKeepsLibs
    <3>3. SameLibs(w, Changed(v, x))
      BY <2>1, <3>2, SameLibsOn
    <3> QED BY <2>4, <3>1, <3>3
  <2> QED BY <2>2, <2>3, <2>4
<1>6. N \in S
  <2> HIDE DEF S
  <2>1. \A i \in 0..N : i \in S
    BY <1>2, <1>4, <1>5, Climb
  <2> QED BY <1>2, <2>1
<1> QED BY <1>1, <1>6

(* What the proof needs of the tables: while a script runs, its libraries     *)
(* have been looked at.                                                       *)
LibsInv == modules \in Tables /\ (running # "no" => ~modules.dirty)

LEMMA FreshIsTables ==
    ASSUME NEW shipped \in [LibNames -> Texts \cup {NoText}], NEW w
    PROVE  FreshModules(shipped) \in Tables /\ UpToDate(w, FreshModules(shipped))
<1>1. FreshModules(shipped) \in Tables
  BY DEF FreshModules, Tables
<1>2. FreshModules(shipped).dirty /\ \A n \in LibNames : FreshModules(shipped).cache[n] = {}
  BY DEF FreshModules
<1> QED BY <1>1, <1>2 DEF UpToDate

LEMMA InvalidatedIsTables ==
    ASSUME NEW m \in Tables, NEW w
    PROVE  InvalidateModuleCache(m) \in Tables /\ UpToDate(w, InvalidateModuleCache(m))
<1>1. InvalidateModuleCache(m) \in Tables
  BY DEF InvalidateModuleCache, Tables
<1>2. InvalidateModuleCache(m).dirty /\ \A n \in LibNames : InvalidateModuleCache(m).cache[n] = {}
  BY DEF InvalidateModuleCache, Tables
<1> QED BY <1>1, <1>2 DEF UpToDate

LEMMA SyncedIsTables ==
    ASSUME NEW m \in Tables, NEW w, NEW s \in SyncUserLibSources(w, m)
    PROVE  s \in Tables /\ ~s.dirty /\ (UpToDate(w, m) => UpToDate(w, s))
<1>1. CASE ~m.dirty
  BY <1>1 DEF SyncUserLibSources
<1>2. CASE m.dirty
  <2>1. PICK f \in [LibNames -> Texts \cup {NoText}] : Found(w, f) /\ s = [m EXCEPT !.dirty = FALSE, !.sources = f]
    BY <1>2 DEF SyncUserLibSources
  <2>2. s \in Tables /\ s.dirty = FALSE /\ s.sources = f /\ s.cache = m.cache /\ s.shipped = m.shipped
    BY <2>1 DEF Tables
  <2> QED BY <2>1, <2>2 DEF UpToDate
<1> QED BY <1>1, <1>2

LEMMA RequiredIsTables ==
    ASSUME NEW m \in Tables, ~m.dirty, NEW n \in LibNames, NEW w
    PROVE  LET x == Require[<<n, {}, [ok |-> TRUE, m |-> m]>>].m
           IN  x \in Tables /\ ~x.dirty /\ (UpToDate(w, m) => UpToDate(w, x))
<1> DEFINE st == [ok |-> TRUE, m |-> m]
           p == <<n, {}, st>>
           x == Require[p].m
<1>1. st \in States /\ st.m = m
  BY DEF States
<1> HIDE DEF st
<1>2. p \in LibNames \X (SUBSET LibNames) \X States /\ p[3] = st
  BY <1>1
<1> HIDE DEF p
<1>3. Follows(st, Require[p])
  BY <1>2, RequireFollows
<1>4. /\ x \in Tables
      /\ x.shipped = m.shipped /\ x.sources = m.sources /\ x.dirty = m.dirty
      /\ \A k \in LibNames : \A made \in x.cache[k] :
             \/ \E q \in LibNames : made \in m.cache[q]
             \/ made[1] \in LibNames /\ made[2] # NoText /\ made[2] = TextOf(m, made[1])
  BY <1>1, <1>3 DEF Follows, States
<1> HIDE DEF x
<1>5. ASSUME UpToDate(w, m) PROVE UpToDate(w, x)
  <2> DEFINE Ok(made) == made[2] \in (IF m.shipped[made[1]] # NoText THEN {m.shipped[made[1]]} ELSE Hosted(w, made[1]))
  <2>1. Found(w, m.sources) /\ \A q \in LibNames : \A made \in m.cache[q] : Ok(made)
    BY <1>5 DEF UpToDate
  <2>2. ASSUME NEW made, made[1] \in LibNames, made[2] # NoText, made[2] = TextOf(m, made[1]) PROVE Ok(made)
    BY <2>1, <2>2 DEF TextOf, Found
  <2> HIDE DEF Ok
  <2>3. \A k \in LibNames : \A made \in x.cache[k] : Ok(made)
    BY <1>4, <2>1, <2>2
  <2> QED BY <1>4, <2>1, <2>3 DEF UpToDate, Ok
<1> QED BY <1>4, <1>5 DEF x, p, st

(* No call but require touches the tables, and none the world. *)
(* A script chooses references by one function only, those it is called with. *)
LEMMA CallsAre ==
    /\ Values \/ Effects \/ Places => \E s, next, picks : Called(s, next, picks) /\ (picks = {} \/ SpawnAs)
    /\ Stories => \E s, far : Tells(s, far)
<1> DEFINE A == \E s, next : Called(s, next, {})
           B == \E s, far : Tells(s, far)
<1>1. ASSUME NEW s, NEW next, Called(s, next, {}) PROVE A
  BY <1>1
<1>2. ASSUME NEW s, NEW far, Tells(s, far) PROVE B
  BY <1>2
<1> HIDE DEF A, B
<1>3. SetAttr \/ UnsetAttr \/ ClearAttr \/ AssignField \/ AssignAttr => A
  BY <1>1 DEF SetAttr, UnsetAttr, ClearAttr, AssignField, AssignAttr, Asks
<1>4. CopyAttrs => A
  BY <1>1 DEF CopyAttrs, Asks
<1>5. SetVal \/ SetTitle \/ SetDescription => A
  BY <1>1 DEF SetVal, SetTitle, SetDescription, Asks
<1>6. SetTag \/ UnsetTag \/ Prompt \/ TransferAttr => A
  BY <1>1 DEF SetTag, UnsetTag, Prompt, TransferAttr, Asks
<1>7. SetAliases \/ SetLock \/ SetScript \/ ApplyTemplate \/ SetLib => A
  BY <1>1 DEF SetAliases, SetLock, SetScript, ApplyTemplate, SetLib, Asks
<1>8. Trigger \/ After \/ CancelAfter \/ RunCommandAs \/ Emit \/ EmitNearby => A
  BY <1>1 DEF Trigger, After, CancelAfter, RunCommandAs, Emit, EmitNearby, Asks
<1>9. MoveObject \/ UpdateExit \/ Destroy \/ Clone \/ SetOwner \/ SetArchetype => A
  BY <1>1 DEF MoveObject, UpdateExit, Destroy, Clone, SetOwner, SetArchetype, Asks
<1>10. CloneObject \/ CreateExit \/ Spawn => A
  BY <1>1 DEF CloneObject, CreateExit, Spawn, Makes
<1>11. GenerateDungeon \/ InstantiateMap => A
  BY <1>1 DEF GenerateDungeon, InstantiateMap, Region
<1>12. CallDestroyDungeon \/ CallOnExpire \/ CallOnEnter \/ CallGridMove => A
  BY <1>1 DEF CallDestroyDungeon, CallOnExpire, CallOnEnter, CallGridMove, Asks
<1>13. Stories => B
  BY <1>2 DEF Stories, InkStart, InkContinue, InkChoose, InkGoto, InkSetVar, InkEnd
<1>14. SpawnAs => \E s, next, picks : Called(s, next, picks)
  BY DEF SpawnAs
<1>15. Values \/ Effects \/ Places => A \/ SpawnAs
  BY <1>3, <1>4, <1>5, <1>6, <1>7, <1>8, <1>9, <1>10, <1>11, <1>12 DEF Values, Effects, Places
<1> QED BY <1>13, <1>14, <1>15 DEF A, B

LEMMA CallsLeaveAlone == Values \/ Effects \/ Places \/ Stories => UNCHANGED <<world, modules, running>>
  BY CallsAre DEF Called, Tells

LEMMA LibsInitInv == Init => LibsInv
<1> DEFINE none == [n \in LibNames |-> NoText]
<1>1. none \in [LibNames -> Texts \cup {NoText}]
  OBVIOUS
<1> HIDE DEF none
<1>2. FreshModules(none) \in Tables
  BY <1>1, FreshIsTables
<1> QED BY <1>2 DEF Init, LibsInv, none

Follow == UpToDate(world, modules) => UpToDate(world, modules)'
Destroys == \E i \in DOMAIN batch : batch[i].op = "destroy"

LEMMA RunFollows == Inv /\ LibsInv /\ Run => LibsInv' /\ (Follow \/ Destroys)
<1> SUFFICES ASSUME Inv, LibsInv, Run PROVE LibsInv' /\ (Follow \/ Destroys)
  OBVIOUS
<1>1. modules \in Tables
  BY DEF LibsInv
<1>2. CASE RunHook \/ RunEval
  <2>1. world' = world /\ modules' \in SyncUserLibSources(world, modules)
    BY <1>2 DEF RunHook, RunEval, Begins
  <2>2. modules' \in Tables /\ ~modules'.dirty /\ (UpToDate(world, modules) => UpToDate(world, modules'))
    BY <1>1, <2>1, SyncedIsTables
  <2> QED BY <2>1, <2>2 DEF LibsInv, Follow
<1>3. CASE Pass \/ Return
  <2>1. UNCHANGED <<world, modules, running>>
    BY <1>3 DEF Pass, Return
  <2> QED BY <2>1 DEF LibsInv, Follow
<1>4. ASSUME Ends(world, nextId, modules) PROVE LibsInv' /\ Follow
  <2>1. world' = world /\ modules' = modules /\ running' = "no"
    BY <1>4 DEF Ends
  <2> QED BY <1>1, <2>1 DEF LibsInv, Follow
<1>5. ASSUME Ends(Apply(world, batch).w, counter, InvalidateLibsTouchedBy(batch, modules))
      PROVE  LibsInv' /\ (Follow \/ Destroys)
  <2> DEFINE w == Apply(world, batch).w
             m == InvalidateLibsTouchedBy(batch, modules)
  <2>1. world' = w /\ modules' = m /\ running' = "no"
    BY <1>5 DEF Ends
  <2>2. CASE Wrote(batch) = {}
    <3>1. m = modules
      BY <2>2 DEF InvalidateLibsTouchedBy
    <3>2. IsSeq(batch) /\ DOMAIN batch = 1..Len(batch) /\ \A i \in 1..Len(batch) : Sane(batch[i])
      BY DEF Inv, Numbered, IsSeq
    <3>3. ASSUME ~Destroys, NEW i \in 1..Len(batch) PROVE batch[i].op \notin {"lib", "destroy"}
      BY <2>2, <3>2, <3>3 DEF Wrote, Destroys
    <3>4. ASSUME ~Destroys PROVE SameLibs(world, w)
      <4>1. Sound(world) /\ \A i \in 1..Len(batch) : Sane(batch[i]) /\ batch[i].op \notin {"lib", "destroy"}
        BY <3>2, <3>3, <3>4 DEF Inv
      <4> QED BY <3>2, <4>1, ApplyKeepsLibs
    <3> HIDE DEF w, m
    <3>5. ASSUME ~Destroys PROVE Follow
      BY <1>1, <2>1, <3>1, <3>4, <3>5, SameLibsUpToDate DEF Follow
    <3> QED BY <1>1, <2>1, <3>1, <3>5 DEF LibsInv
  <2>3. CASE Wrote(batch) # {}
    <3>1. m = InvalidateModuleCache(modules)
      BY <2>3 DEF InvalidateLibsTouchedBy
    <3> HIDE DEF w, m
    <3>2. m \in Tables /\ UpToDate(w, m)
      BY <1>1, <3>1, InvalidatedIsTables
    <3> QED BY <2>1, <3>2 DEF LibsInv, Follow
  <2> QED BY <2>2, <2>3
<1>6. CASE Dies
  BY <1>4, <1>6 DEF Dies
<1>7. CASE Finish
  BY <1>4, <1>5, <1>7 DEF Finish
<1> QED BY <1>2, <1>3, <1>6, <1>7 DEF Run

LEMMA LibrariesFollow == Inv /\ LibsInv /\ Libraries => LibsInv' /\ (Follow \/ ImportOverRest)
<1> SUFFICES ASSUME Inv, LibsInv, Libraries PROVE LibsInv' /\ (Follow \/ ImportOverRest)
  OBVIOUS
<1>1. modules \in Tables
  BY DEF LibsInv
<1>2. CASE CallRequire
  <2>1. PICK c \in Says("require") :
          /\ running # "no" /\ running' = running /\ world' = world
          /\ modules' = Require[<<c.k, {}, [ok |-> TRUE, m |-> modules]>>].m
    BY <1>2 DEF CallRequire, script
  <2>2. c.k \in LibNames
    BY CallsAreCalls DEF IsCall
  <2> DEFINE x == Require[<<c.k, {}, [ok |-> TRUE, m |-> modules]>>].m
  <2>3. ~modules.dirty
    BY <2>1 DEF LibsInv
  <2>4. x \in Tables /\ ~x.dirty /\ (UpToDate(world, modules) => UpToDate(world, x))
    BY <1>1, <2>2, <2>3, RequiredIsTables
  <2>5. modules' = x
    BY <2>1
  <2> HIDE DEF x
  <2> QED BY <2>1, <2>4, <2>5 DEF LibsInv, Follow
<1>3. CASE WriteLib
  <2>1. PICK w : Between(w, InvalidateModuleCache(modules))
    BY <1>3 DEF WriteLib
  <2>2. modules' = InvalidateModuleCache(modules) /\ running' = "no" /\ world' = w
    BY <2>1 DEF Between, script
  <2>3. InvalidateModuleCache(modules) \in Tables /\ UpToDate(w, InvalidateModuleCache(modules))
    BY <1>1, InvalidatedIsTables
  <2> QED BY <2>2, <2>3 DEF LibsInv, Follow
<1>4. CASE ReloadModules
  <2>1. PICK shipped \in ShippedVersions : Between(world, FreshModules(shipped))
    BY <1>4 DEF ReloadModules
  <2>2. modules' = FreshModules(shipped) /\ running' = "no" /\ world' = world
    BY <2>1 DEF Between, script
  <2>3. shipped \in [LibNames -> Texts \cup {NoText}]
    BY SoftcodeAssumption
  <2>4. FreshModules(shipped) \in Tables /\ UpToDate(world, FreshModules(shipped))
    BY <2>3, FreshIsTables
  <2> QED BY <2>2, <2>4 DEF LibsInv, Follow
<1>5. CASE ImportOverRest
  <2>1. modules' = modules /\ running' = "no"
    BY <1>5 DEF ImportOverRest, Between, script
  <2> QED BY <1>1, <1>5, <2>1 DEF LibsInv
<1> QED BY <1>2, <1>3, <1>4, <1>5 DEF Libraries

LEMMA OthersFollow == Inv /\ LibsInv /\ (Walk \/ Disconnect \/ Reconnect) => LibsInv' /\ Follow
<1> SUFFICES ASSUME Inv, LibsInv, Walk \/ Disconnect \/ Reconnect PROVE LibsInv' /\ Follow
  OBVIOUS
<1>1. modules \in Tables /\ \A o \in DOMAIN world : "libs" \in DOMAIN world[o]
  BY DEF LibsInv, Inv, Sound, Shaped
<1>2. ASSUME NEW w, Between(w, modules), SameLibs(world, w) PROVE LibsInv' /\ Follow
  <2>1. modules' = modules /\ running' = "no" /\ world' = w
    BY <1>2 DEF Between, script
  <2> QED BY <1>1, <1>2, <2>1, SameLibsUpToDate DEF LibsInv, Follow
<1>3. CASE Walk
  <2>1. PICK x : Between([world EXCEPT ![Actor].loc = world[x].target], modules)
    BY <1>3 DEF Walk
  <2> DEFINE w == [world EXCEPT ![Actor].loc = world[x].target]
  <2>2. SameLibs(world, w)
    BY <1>1 DEF SameLibs
  <2> HIDE DEF w
  <2> QED BY <1>2, <2>1, <2>2 DEF w
<1>4. CASE Disconnect
  <2> DEFINE w == [world EXCEPT ![Actor].tags = @ \cup {"offline"}]
  <2>1. Between(w, modules)
    BY <1>4 DEF Disconnect
  <2>2. SameLibs(world, w)
    BY <1>1 DEF SameLibs
  <2> HIDE DEF w
  <2> QED BY <1>2, <2>1, <2>2
<1>5. CASE Reconnect
  <2> DEFINE w == [world EXCEPT ![Actor].tags = @ \ {"offline"}]
  <2>1. Between(w, modules)
    BY <1>5 DEF Reconnect
  <2>2. SameLibs(world, w)
    BY <1>1 DEF SameLibs
  <2> HIDE DEF w
  <2> QED BY <1>2, <2>1, <2>2
<1> QED BY <1>3, <1>4, <1>5

LEMMA NextFollows == Inv /\ LibsInv /\ [Next]_vars => LibsInv' /\ (Follow \/ Destroys \/ ImportOverRest)
<1> SUFFICES ASSUME Inv, LibsInv, [Next]_vars PROVE LibsInv' /\ (Follow \/ Destroys \/ ImportOverRest)
  OBVIOUS
<1>1. UNCHANGED <<world, modules, running>> => LibsInv' /\ Follow
  BY DEF LibsInv, Follow
<1>2. UNCHANGED vars => UNCHANGED <<world, modules, running>>
  BY DEF vars, script
<1> QED BY <1>1, <1>2, CallsLeaveAlone, RunFollows, LibrariesFollow, OthersFollow DEF Next

(* What `require` gives is made of texts the libraries have, and so are the   *)
(* libraries those required, even if they require one another in circles:     *)
(* writing a library, reloading and a batch that writes one drop what is      *)
(* stale (invalidate_module_cache).  Only objects that scripts destroy and an *)
(* import over REST leave something stale.                                    *)
THEOREM LibrariesStayUpToDate == Spec => ModulesFollow
<1>1. Inv /\ LibsInv /\ [Next]_vars =>
        [(UpToDate(world, modules) /\ ~UpToDate(world', modules')) =>
            \/ \E i \in DOMAIN batch : batch[i].op = "destroy"
            \/ ImportOverRest]_vars
  BY NextFollows DEF Follow, Destroys
<1>2. Inv /\ LibsInv /\ [Next]_vars => LibsInv'
  BY NextFollows
<1> QED BY <1>1, <1>2, LibsInitInv, Invariance, PTL DEF Spec, ModulesFollow
-----------------------------------------------------------------------------
(* Sums.  MapThenSumSet adds up a set in the order CHOOSE gives; the sum is   *)
(* the same whichever member comes first (SumOff).                            *)

First(s) == CHOOSE x \in s : TRUE
AddsUp(u, g, S) == u = [s \in SUBSET S |-> IF s = {} THEN 0 ELSE g[First(s)] + u[s \ {First(s)}]]
Smaller(S, k) == {s \in SUBSET S : Cardinality(s) < k}

LEMMA FirstIsIn == \A s : s # {} => First(s) \in s
  BY DEF First

LEMMA AllSmaller ==
    ASSUME NEW S, IsFiniteSet(S)
    PROVE  /\ Cardinality(S) + 1 \in Nat
           /\ SUBSET S = Smaller(S, Cardinality(S) + 1)
           /\ Smaller(S, 0) = {}
<1>1. ASSUME NEW s \in SUBSET S PROVE Cardinality(s) \in Nat /\ Cardinality(s) <= Cardinality(S)
  BY FS_Subset, FS_CardinalityType
<1>2. Cardinality(S) \in Nat
  BY FS_CardinalityType
<1>3. \A s \in SUBSET S : Cardinality(s) < Cardinality(S) + 1 /\ ~(Cardinality(s) < 0)
  BY <1>1, <1>2
<1> QED BY <1>2, <1>3 DEF Smaller

LEMMA LessIsSmaller ==
    ASSUME NEW S, IsFiniteSet(S), NEW k \in Nat, NEW s \in Smaller(S, k + 1), NEW x \in s
    PROVE  s \ {x} \in Smaller(S, k) /\ IsFiniteSet(s)
<1>1. s \in SUBSET S /\ Cardinality(s) < k + 1
  BY DEF Smaller
<1>2. IsFiniteSet(s)
  BY <1>1, FS_Subset
<1>3. Cardinality(s) \in Nat /\ Cardinality(s \ {x}) = Cardinality(s) - 1
  BY <1>2, FS_CardinalityType, FS_RemoveElement
<1>4. s \ {x} \in SUBSET S
  BY <1>1
<1> QED BY <1>1, <1>2, <1>3, <1>4 DEF Smaller

LEMMA SmallerGrows ==
    ASSUME NEW S, IsFiniteSet(S), NEW k \in Nat
    PROVE  Smaller(S, k) \subseteq Smaller(S, k + 1)
<1> SUFFICES ASSUME NEW s \in Smaller(S, k) PROVE Cardinality(s) < k + 1
  BY DEF Smaller
<1>1. s \in SUBSET S /\ Cardinality(s) < k
  BY DEF Smaller
<1>2. Cardinality(s) \in Nat
  BY <1>1, FS_Subset, FS_CardinalityType
<1> QED BY <1>1, <1>2

LEMMA SumsExist ==
    ASSUME NEW g, NEW S, IsFiniteSet(S)
    PROVE  \E u : AddsUp(u, g, S)
<1> DEFINE N == Cardinality(S) + 1
           Sum(u, s) == IF s = {} THEN 0 ELSE g[First(s)] + u[s \ {First(s)}]
           Good(u, k) == u = [s \in Smaller(S, k) |-> Sum(u, s)]
           T == {k \in 0..N : \E u : Good(u, k)}
<1>1. N \in Nat
  BY AllSmaller
<1>2. 0 \in T
  <2> DEFINE u == [s \in Smaller(S, 0) |-> 0]
  <2>1. u = [s \in Smaller(S, 0) |-> Sum(u, s)]
    <3> HIDE DEF u, Sum
    <3>1. u = [s \in Smaller(S, 0) |-> 0]
      BY DEF u
    <3> QED BY <3>1, AllSmaller
  <2> HIDE DEF u, Sum
  <2> QED BY <1>1, <2>1
<1>3. ASSUME NEW k \in 1..N, k - 1 \in T PROVE k \in T
  <2>1. PICK w : Good(w, k - 1)
    BY <1>3
  <2>2. k - 1 \in Nat /\ (k - 1) + 1 = k
    BY <1>1
  <2>3. Smaller(S, k - 1) \subseteq Smaller(S, k)
    BY <2>2, SmallerGrows
  <2> DEFINE v == [s \in Smaller(S, k) |-> Sum(w, s)]
  <2>4. \A s \in Smaller(S, k) : v[s] = Sum(w, s)
    OBVIOUS
  <2>5. \A s \in Smaller(S, k - 1) : v[s] = w[s]
    <3>1. \A s \in Smaller(S, k - 1) : w[s] = Sum(w, s)
      BY <2>1
    <3> HIDE DEF v, Sum
    <3> QED BY <2>3, <2>4, <3>1
  <2>6. ASSUME NEW s \in Smaller(S, k) PROVE Sum(v, s) = Sum(w, s)
    <3>1. CASE s = {}
      BY <3>1
    <3>2. CASE s # {}
      <4>1. First(s) \in s /\ s \in Smaller(S, (k - 1) + 1)
        BY <2>2, <3>2, FirstIsIn
      <4>2. s \ {First(s)} \in Smaller(S, k - 1)
        BY <2>2, <4>1, LessIsSmaller
      <4> DEFINE less == s \ {First(s)}
      <4>3. v[less] = w[less]
        <5> HIDE DEF v
        <5> QED BY <2>5, <4>2
      <4> HIDE DEF v
      <4> QED BY <3>2, <4>3
    <3> QED BY <3>1, <3>2
  <2>7. v = [s \in Smaller(S, k) |-> Sum(v, s)]
    <3>1. v = [s \in Smaller(S, k) |-> v[s]]
      OBVIOUS
    <3> HIDE DEF v, Sum
    <3> QED BY <2>4, <2>6, <3>1
  <2> HIDE DEF v, Sum
  <2> QED BY <2>7
<1>4. N \in T
  <2> HIDE DEF T
  <2>1. \A k \in 0..N : k \in T
    BY <1>1, <1>2, <1>3, Climb
  <2> QED BY <1>1, <2>1
<1>5. PICK u : Good(u, N)
  BY <1>4
<1>6. u = [s \in SUBSET S |-> Sum(u, s)]
  BY <1>5, AllSmaller
<1> QED BY <1>6 DEF AddsUp

LEMMA SumIs ==
    ASSUME NEW u, NEW g, NEW S, AddsUp(u, g, S)
    PROVE  /\ u[{}] = 0
           /\ \A s \in SUBSET S : s # {} => First(s) \in s /\ u[s] = g[First(s)] + u[s \ {First(s)}]
<1>1. \A s \in SUBSET S : u[s] = IF s = {} THEN 0 ELSE g[First(s)] + u[s \ {First(s)}]
  BY DEF AddsUp
<1> QED BY <1>1, FirstIsIn

(* Every sum is a number, and any member may come first. *)
LEMMA SumOff ==
    ASSUME NEW u, NEW S, IsFiniteSet(S), NEW g \in [S -> Int], AddsUp(u, g, S)
    PROVE  \A s \in SUBSET S : u[s] \in Int /\ \A y \in s : u[s] = g[y] + u[s \ {y}]
<1> DEFINE N == Cardinality(S) + 1
           Ok(s) == u[s] \in Int /\ \A y \in s : u[s] = g[y] + u[s \ {y}]
           T == {k \in 0..N : \A s \in Smaller(S, k) : Ok(s)}
<1>1. N \in Nat
  BY AllSmaller
<1>2. 0 \in T
  BY <1>1, AllSmaller
<1>3. ASSUME NEW k \in 1..N, k - 1 \in T PROVE k \in T
  <2>1. k - 1 \in Nat /\ (k - 1) + 1 = k
    BY <1>1
  <2>2. \A s \in Smaller(S, k - 1) : Ok(s)
    BY <1>3
  <2>3. ASSUME NEW s \in Smaller(S, k) PROVE Ok(s)
    <3>1. s \in SUBSET S /\ s \in Smaller(S, (k - 1) + 1)
      BY <2>1 DEF Smaller
    <3>2. CASE s = {}
      <4>1. u[s] = 0
        BY <3>2, SumIs
      <4> QED BY <3>2, <4>1
    <3>3. CASE s # {}
      <4>0. PICK x \in s : u[s] = g[x] + u[s \ {x}]
        <5>1. \A z \in SUBSET S : z # {} => First(z) \in z /\ u[z] = g[First(z)] + u[z \ {First(z)}]
          BY SumIs
        <5> QED BY <3>1, <3>3, <5>1
      <4>1. x \in s /\ u[s] = g[x] + u[s \ {x}]
        BY <4>0
      <4>2. \A y \in s : Ok(s \ {y})
        <5> HIDE DEF Ok
        <5> QED BY <2>1, <2>2, <3>1, LessIsSmaller
      <4>3. \A y \in s : g[y] \in Int
        BY <3>1
      <4>4. u[s] \in Int
        <5>1. u[s \ {x}] \in Int /\ g[x] \in Int
          BY <4>1, <4>2, <4>3
        <5> QED BY <4>1, <5>1
      <4>5. ASSUME NEW y \in s PROVE u[s] = g[y] + u[s \ {y}]
        <5>1. CASE y = x
          BY <4>1, <5>1
        <5>2. CASE y # x
          <6> DEFINE both == (s \ {x}) \ {y}
          <6>1. u[s \ {x}] = g[y] + u[both]
            BY <4>1, <4>2, <5>2
          <6>2. (s \ {y}) \ {x} = both
            OBVIOUS
          <6>3. u[s \ {y}] = g[x] + u[(s \ {y}) \ {x}]
            BY <4>1, <4>2, <5>2
          <6>4. u[s \ {y}] = g[x] + u[both]
            BY <6>2, <6>3
          <6>5. u[both] \in Int
            <7>1. s \ {x} \in Smaller(S, k - 1) /\ y \in s \ {x}
              BY <2>1, <3>1, <4>1, <5>2, LessIsSmaller
            <7>2. s \ {x} \in Smaller(S, (k - 1) + 1)
              BY <2>1, <7>1, SmallerGrows
            <7>3. both \in Smaller(S, k - 1)
              BY <2>1, <7>1, <7>2, LessIsSmaller
            <7> HIDE DEF both
            <7> QED BY <2>2, <7>3
          <6> HIDE DEF both
          <6> QED BY <4>1, <4>3, <6>1, <6>4, <6>5
        <5> QED BY <5>1, <5>2
      <4> QED BY <4>4, <4>5
    <3> QED BY <3>2, <3>3
  <2> HIDE DEF Ok
  <2> QED BY <2>3
<1>4. N \in T
  <2> HIDE DEF T
  <2>1. \A k \in 0..N : k \in T
    BY <1>1, <1>2, <1>3, Climb
  <2> QED BY <1>1, <2>1
<1>5. \A s \in Smaller(S, N) : Ok(s)
  BY <1>4
<1> HIDE DEF Ok
<1>6. \A s \in SUBSET S : Ok(s)
  BY <1>5, AllSmaller
<1> QED BY <1>6 DEF Ok

(* Where two functions agree, so do their sums. *)
LEMMA SumsAgree ==
    ASSUME NEW S, IsFiniteSet(S), NEW g \in [S -> Int], NEW h \in [S -> Int],
           NEW u, AddsUp(u, g, S), NEW v, AddsUp(v, h, S),
           NEW T \in SUBSET S, \A x \in T : g[x] = h[x]
    PROVE  u[T] = v[T]
<1> DEFINE N == Cardinality(S) + 1
           K == {k \in 0..N : \A s \in Smaller(S, k) : s \subseteq T => u[s] = v[s]}
<1>1. N \in Nat
  BY AllSmaller
<1>2. 0 \in K
  BY <1>1, AllSmaller
<1>3. ASSUME NEW k \in 1..N, k - 1 \in K PROVE k \in K
  <2>1. k - 1 \in Nat /\ (k - 1) + 1 = k
    BY <1>1
  <2>2. ASSUME NEW s \in Smaller(S, k), s \subseteq T PROVE u[s] = v[s]
    <3>1. s \in SUBSET S /\ s \in Smaller(S, (k - 1) + 1)
      BY <2>1 DEF Smaller
    <3>2. CASE s = {}
      BY <3>2, SumIs
    <3>3. CASE s # {}
      <4>0. PICK x \in s : u[s] = g[x] + u[s \ {x}] /\ v[s] = h[x] + v[s \ {x}]
        <5>1. \A z \in SUBSET S : z # {} => First(z) \in z /\ u[z] = g[First(z)] + u[z \ {First(z)}]
          BY SumIs
        <5>2. \A z \in SUBSET S : z # {} => First(z) \in z /\ v[z] = h[First(z)] + v[z \ {First(z)}]
          BY SumIs
        <5> QED BY <3>1, <3>3, <5>1, <5>2
      <4>1. x \in s /\ u[s] = g[x] + u[s \ {x}]
        BY <4>0
      <4>2. v[s] = h[x] + v[s \ {x}]
        BY <4>0
      <4>3. s \ {x} \in Smaller(S, k - 1) /\ s \ {x} \subseteq T
        BY <2>1, <2>2, <3>1, <4>1, LessIsSmaller
      <4>4. u[s \ {x}] = v[s \ {x}]
        BY <1>3, <4>3
      <4>5. g[x] = h[x]
        BY <2>2, <4>1
      <4> QED BY <4>1, <4>2, <4>4, <4>5
    <3> QED BY <3>2, <3>3
  <2> QED BY <2>2
<1>4. N \in K
  <2> HIDE DEF K
  <2>1. \A k \in 0..N : k \in K
    BY <1>1, <1>2, <1>3, Climb
  <2> QED BY <1>1, <2>1
<1>5. T \in Smaller(S, N)
  BY AllSmaller
<1> QED BY <1>4, <1>5

(* What one member of a set loses and another gains *)
LEMMA SumsShift ==
    ASSUME NEW S, IsFiniteSet(S), NEW g \in [S -> Int], NEW h \in [S -> Int],
           NEW u, AddsUp(u, g, S), NEW v, AddsUp(v, h, S),
           NEW t \in S, NEW r \in S, t # r, g[t] + g[r] = h[t] + h[r],
           \A x \in S \ {t, r} : g[x] = h[x]
    PROVE  u[S] = v[S]
<1> DEFINE T == (S \ {t}) \ {r}
<1>1. T \in SUBSET S /\ (\A x \in T : g[x] = h[x]) /\ S \in SUBSET S /\ S \ {t} \in SUBSET S /\ r \in S \ {t}
  OBVIOUS
<1>2. u[T] = v[T]
  <2> HIDE DEF T
  <2> QED BY <1>1, SumsAgree
<1>3. u[S] = g[t] + u[S \ {t}] /\ u[S \ {t}] = g[r] + u[T] /\ u[T] \in Int
  <2>1. \A s \in SUBSET S : u[s] \in Int /\ \A y \in s : u[s] = g[y] + u[s \ {y}]
    BY SumOff
  <2> QED BY <1>1, <2>1
<1>4. v[S] = h[t] + v[S \ {t}] /\ v[S \ {t}] = h[r] + v[T]
  <2>1. \A s \in SUBSET S : v[s] \in Int /\ \A y \in s : v[s] = h[y] + v[s \ {y}]
    BY SumOff
  <2> QED BY <1>1, <2>1
<1>5. g[t] \in Int /\ g[r] \in Int /\ h[t] \in Int /\ h[r] \in Int
  OBVIOUS
<1> HIDE DEF T
<1> QED BY <1>2, <1>3, <1>4, <1>5

(* What everyone holds *)
Held(p) == IF p = Unset THEN 0 ELSE p[1]
Holds(w) == [o \in DOMAIN w |-> Held(w[o].attrs["gold"])]

LEMMA HeldIsNumber ==
    /\ \A p \in Purse : Held(p) \in Int
    /\ \A n, m : Held(<<n, m>>) = n
<1>1. \A n, m : <<n, m>> # Unset
  BY DEF Unset
<1> QED BY <1>1 DEF Held, Purse

LEMMA HoldsNumbers == \A w : Sound(w) => Holds(w) \in [DOMAIN w -> Int]
<1> SUFFICES ASSUME NEW w, Sound(w) PROVE Holds(w) \in [DOMAIN w -> Int]
  OBVIOUS
<1>1. \A o \in DOMAIN w : w[o].attrs["gold"] \in Purse
  BY DEF Sound, Shaped
<1>2. \A o \in DOMAIN w : Held(w[o].attrs["gold"]) \in Int
  BY <1>1, HeldIsNumber
<1> QED BY <1>2 DEF Holds

LEMMA TotalAddsUp ==
    ASSUME NEW w, Sound(w)
    PROVE  \E u : AddsUp(u, Holds(w), DOMAIN w) /\ Total(w) = u[DOMAIN w]
<1> DEFINE Is(u) == u = [s \in SUBSET (DOMAIN w) |->
                            IF s = {} THEN 0
                            ELSE (IF w[CHOOSE x \in s : TRUE].attrs["gold"] = Unset THEN 0
                                  ELSE Amount(w, CHOOSE x \in s : TRUE, "gold"))
                                 + u[s \ {CHOOSE x \in s : TRUE}]]
           W == CHOOSE u : Is(u)
<1>1. ASSUME NEW u PROVE AddsUp(u, Holds(w), DOMAIN w) <=> Is(u)
  <2>1. ASSUME NEW s \in SUBSET (DOMAIN w), s # {}
        PROVE  Holds(w)[First(s)] = IF w[First(s)].attrs["gold"] = Unset THEN 0 ELSE Amount(w, First(s), "gold")
    BY <2>1, FirstIsIn DEF Holds, Held, Amount
  <2> DEFINE a == [s \in SUBSET (DOMAIN w) |-> IF s = {} THEN 0 ELSE Holds(w)[First(s)] + u[s \ {First(s)}]]
             b == [s \in SUBSET (DOMAIN w) |->
                      IF s = {} THEN 0
                      ELSE (IF w[First(s)].attrs["gold"] = Unset THEN 0 ELSE Amount(w, First(s), "gold"))
                           + u[s \ {First(s)}]]
  <2>2. a = b
    BY <2>1
  <2>3. AddsUp(u, Holds(w), DOMAIN w) <=> u = a
    BY DEF AddsUp
  <2>4. Is(u) <=> u = b
    BY DEF First
  <2> HIDE DEF a, b, Is
  <2> QED BY <2>2, <2>3, <2>4
<1>2. \E u : Is(u)
  <2>1. IsFiniteSet(DOMAIN w)
    BY DEF Sound
  <2>2. \E u : AddsUp(u, Holds(w), DOMAIN w)
    BY <2>1, SumsExist
  <2> HIDE DEF Is
  <2> QED BY <1>1, <2>2
<1>3. Is(W)
  BY <1>2
<1>4. Total(w) = W[DOMAIN w]
  BY DEF Total, MapThenSumSet, MapThenFoldSet
<1> HIDE DEF W, Is
<1> QED BY <1>1, <1>3, <1>4

LEMMA SameTotals ==
    ASSUME NEW w, Sound(w), NEW v, Sound(v), DOMAIN v = DOMAIN w,
           NEW t \in DOMAIN w, NEW r \in DOMAIN w, t # r,
           Holds(v)[t] + Holds(v)[r] = Holds(w)[t] + Holds(w)[r],
           \A o \in (DOMAIN w) \ {t, r} : Holds(v)[o] = Holds(w)[o]
    PROVE  Total(v) = Total(w)
<1> DEFINE S == DOMAIN w
           g == Holds(v)
           h == Holds(w)
<1>1. IsFiniteSet(S) /\ g \in [S -> Int] /\ h \in [S -> Int]
  BY HoldsNumbers DEF Sound
<1>2. PICK u : AddsUp(u, g, S) /\ Total(v) = u[S]
  BY TotalAddsUp
<1>3. PICK x : AddsUp(x, h, S) /\ Total(w) = x[S]
  BY TotalAddsUp
<1>4. t \in S /\ r \in S /\ g[t] + g[r] = h[t] + h[r] /\ \A o \in S \ {t, r} : g[o] = h[o]
  OBVIOUS
<1> HIDE DEF S, g, h
<1>5. u[S] = x[S]
  BY <1>1, <1>2, <1>3, <1>4, SumsShift
<1> QED BY <1>2, <1>3, <1>5

LEMMA TransferConserves ==
    ASSUME NEW w, Sound(w), NEW x, Accepts(w, x), Sane(x), x.op = "transfer", x.t # x.r
    PROVE  Total(Transferred(w, x)) = Total(w)
<1> DEFINE had == Amount(w, x.t, x.k)
           has == IF w[x.r].attrs[x.k] = Unset THEN 0 ELSE Amount(w, x.r, x.k)
           take == <<had - x.v[1], 0>>
           give == <<has + x.v[1], 0>>
           half == [w EXCEPT ![x.t].attrs[x.k] = take]
           v == Transferred(w, x)
<1>1. x.t \in DOMAIN w /\ x.r \in DOMAIN w /\ w[x.t].attrs[x.k] # Unset
  BY DEF Accepts, Exists
<1>2. v = [half EXCEPT ![x.r].attrs[x.k] = give]
  BY DEF Transferred
<1>3. Sound(v) /\ DOMAIN v = DOMAIN w
  BY TransferIsSound
<1>4. \A o \in DOMAIN w : /\ {"attrs", "libs", "arch", "title", "desc"} \subseteq DOMAIN w[o] /\ DOMAIN w[o].attrs = AttrKeys
                          /\ Held(w[o].attrs["gold"]) \in Int
  BY HeldIsNumber DEF Sound, Shaped
<1>5. \A o \in DOMAIN w : Holds(w)[o] = Held(w[o].attrs["gold"]) /\ Holds(v)[o] = Held(v[o].attrs["gold"])
  BY <1>3 DEF Holds
<1>6. \A o \in (DOMAIN w) \ {x.t, x.r} : v[o] = w[o]
  <2> HIDE DEF take, give, v
  <2> QED BY <1>2
<1>7. CASE x.k # "gold"
  <2>1. \A o \in DOMAIN w : v[o].attrs["gold"] = w[o].attrs["gold"]
    <3> HIDE DEF take, give, v
    <3>1. \A o \in DOMAIN w : /\ {"attrs", "libs", "arch", "title", "desc"} \subseteq DOMAIN half[o] /\ DOMAIN half[o].attrs = AttrKeys
                              /\ half[o].attrs["gold"] = w[o].attrs["gold"]
      BY <1>1, <1>4, <1>7
    <3>2. DOMAIN half = DOMAIN w
      OBVIOUS
    <3> HIDE DEF half
    <3> QED BY <1>1, <1>2, <1>7, <3>1, <3>2
  <2> HIDE DEF v
  <2>2. \A o \in DOMAIN w : Holds(v)[o] = Holds(w)[o]
    BY <1>5, <2>1
  <2>3. Total(v) = Total(w)
    BY <1>1, <1>3, <2>2, SameTotals
  <2> QED BY <2>3 DEF v
<1>8. CASE x.k = "gold"
  <2>1. v[x.t].attrs["gold"] = take /\ v[x.r].attrs["gold"] = give
    <3> HIDE DEF take, give, v
    <3>1. half[x.t].attrs["gold"] = take /\ half[x.r] = w[x.r] /\ DOMAIN half = DOMAIN w
      BY <1>1, <1>4, <1>8, GoldIsKey
    <3> HIDE DEF half
    <3> QED BY <1>1, <1>2, <1>4, <1>8, <3>1, GoldIsKey
  <2>2. had = Held(w[x.t].attrs["gold"]) /\ has = Held(w[x.r].attrs["gold"])
    BY <1>1, <1>8 DEF Amount, Held
  <2>3. x.v[1] \in Int
    BY DEF Sane
  <2>4. Held(take) = had - x.v[1] /\ Held(give) = has + x.v[1]
    BY HeldIsNumber
  <2>5. Holds(w)[x.t] = had /\ Holds(w)[x.r] = has /\ had \in Int /\ has \in Int
    BY <1>1, <1>4, <1>5, <2>2
  <2> HIDE DEF take, give, v, had, has
  <2>6. Holds(v)[x.t] = had - x.v[1] /\ Holds(v)[x.r] = has + x.v[1]
    BY <1>1, <1>5, <2>1, <2>4
  <2>7. Holds(v)[x.t] + Holds(v)[x.r] = Holds(w)[x.t] + Holds(w)[x.r]
    BY <2>3, <2>5, <2>6
  <2>8. \A o \in (DOMAIN w) \ {x.t, x.r} : Holds(v)[o] = Holds(w)[o]
    BY <1>5, <1>6
  <2>9. Total(v) = Total(w)
    BY <1>1, <1>3, <2>7, <2>8, SameTotals
  <2> QED BY <2>9 DEF v
<1> QED BY <1>7, <1>8

LEMMA TransfersAddUp ==
    ASSUME NEW w, Sound(w), NEW b, IsSeq(b),
           \A i \in 1..Len(b) : Sane(b[i]) /\ b[i].op = "transfer" /\ b[i].t # b[i].r
    PROVE  Total(Apply(w, b).w) = Total(w)
<1> DEFINE N == Len(b)
<1>1. PICK u : /\ u[0].w = w /\ Apply(w, b) = u[N]
               /\ \A i \in 1..N : u[i] = Then(u[i - 1], b[i])
  BY ApplyTurns
<1>2. N \in Nat
  BY ApplyTurns
<1>3. \A i \in 1..N : Sane(b[i]) /\ b[i].op = "transfer" /\ b[i].t # b[i].r
  OBVIOUS
<1> HIDE DEF N
<1> DEFINE S == {i \in 0..N : Sound(u[i].w) /\ Total(u[i].w) = Total(w)}
<1>4. 0 \in S
  BY <1>1, <1>2
<1>5. ASSUME NEW i \in 1..N, i - 1 \in S PROVE i \in S
  <2> DEFINE v == u[i - 1].w
             x == b[i]
  <2>1. /\ u[i] = Then(u[i - 1], x) /\ Sane(x) /\ x.op = "transfer" /\ x.t # x.r
        /\ Sound(v) /\ Total(v) = Total(w)
    BY <1>1, <1>3, <1>5
  <2>2. u[i].w = v \/ (Accepts(v, x) /\ u[i].w = Changed(v, x))
    BY <2>1 DEF Then
  <2> HIDE DEF v, x
  <2>3. CASE u[i].w = v
    BY <2>1, <2>3
  <2>4. CASE Accepts(v, x) /\ u[i].w = Changed(v, x)
    <3>1. Changed(v, x) = Transferred(v, x)
      BY <2>1 DEF Changed
    <3>2. Sound(Transferred(v, x)) /\ Total(Transferred(v, x)) = Total(v)
      BY <2>1, <2>4, TransferIsSound, TransferConserves
    <3> QED BY <2>1, <2>4, <3>1, <3>2
  <2> QED BY <2>2, <2>3, <2>4
<1>6. N \in S
  <2> HIDE DEF S
  <2>1. \A i \in 0..N : i \in S
    BY <1>2, <1>4, <1>5, Climb
  <2> QED BY <1>2, <2>1
<1> QED BY <1>1, <1>6

(* A script's run ends by its death or by its batch, and no other way. *)
LEMMA NextConserves ==
    Inv /\ [Next]_vars =>
        [(running # "no" /\ running' = "no" /\ OnlyTransfers(batch)) => Total(world') = Total(world)]_vars
<1> SUFFICES ASSUME Inv, Next, running # "no", running' = "no", OnlyTransfers(batch)
             PROVE  Total(world') = Total(world)
  OBVIOUS
<1>1. ASSUME NEW m, Ends(world, nextId, m) PROVE Total(world') = Total(world)
  BY <1>1 DEF Ends
<1>2. ASSUME NEW m, Ends(Apply(world, batch).w, counter, m) PROVE Total(world') = Total(world)
  <2>1. Sound(world) /\ IsSeq(batch) /\ DOMAIN batch = 1..Len(batch) /\ \A i \in 1..Len(batch) : Sane(batch[i])
    BY DEF Inv, Numbered, IsSeq
  <2>2. \A i \in 1..Len(batch) : Sane(batch[i]) /\ batch[i].op = "transfer" /\ batch[i].t # batch[i].r
    BY <2>1 DEF OnlyTransfers
  <2>3. Total(Apply(world, batch).w) = Total(world)
    BY <2>1, <2>2, TransfersAddUp
  <2>4. world' = Apply(world, batch).w
    BY <1>2 DEF Ends
  <2> QED BY <2>3, <2>4
<1>3. ~(RunHook \/ RunEval)
  BY DEF RunHook, RunEval, Begins
<1>4. ~(Pass \/ Return)
  BY DEF Pass, Return
<1>5. CASE Dies
  BY <1>1, <1>5 DEF Dies
<1>6. CASE Finish
  BY <1>1, <1>2, <1>6 DEF Finish
<1>7. ~(Values \/ Effects \/ Places \/ Stories)
  BY CallsLeaveAlone
<1>8. ~(Walk \/ Disconnect \/ Reconnect)
  BY DEF Walk, Disconnect, Reconnect, Between
<1>9. ~Libraries
  <2>1. ~CallRequire
    BY DEF CallRequire, script
  <2>2. ~(WriteLib \/ ReloadModules \/ ImportOverRest)
    BY DEF WriteLib, ReloadModules, ImportOverRest, Between
  <2> QED BY <2>1, <2>2 DEF Libraries
<1> QED BY <1>3, <1>4, <1>5, <1>6, <1>7, <1>8, <1>9 DEF Next, Run

(* A batch of nothing but transfers between two objects leaves in the world   *)
(* as much gold as there was, however many they are, in whatever order and    *)
(* whoever gives and takes (Intent::TransferAttr in apply_to).                *)
THEOREM TransfersConserveGold == Spec => TransfersConserve
<1> QED BY NextConserves, Invariance, PTL DEF Spec, TransfersConserve
-----------------------------------------------------------------------------
(* What scripts read.  An attribute, the title and the description of an      *)
(* object are its texts f; k says which attribute.                            *)

Texts3 == {"attr", "title", "desc"}
None(f) == IF f = "attr" THEN Unset ELSE NoWord
Own(w, q, f, k) == CASE f = "attr" -> w[q].attrs[k] [] f = "title" -> w[q].title [] f = "desc" -> w[q].desc
Framed(o) == {"arch", "attrs", "title", "desc"} \subseteq DOMAIN o /\ DOMAIN o.attrs = AttrKeys
Writes(x, o, f, k) == x.op = f /\ x.t = o /\ (f = "attr" => x.k = k)
Given(x, f) == IF f = "attr" THEN x.v ELSE x.k
Foreseen(x, o) == x.op \notin {"transfer", "arch", "detach"} /\ (x.op = "destroy" => x.t # o)
Upheld(w, v, x, o) ==
    /\ Framed(v[o]) /\ v[o].arch = w[o].arch
    /\ \A f \in Texts3, k \in AttrKeys :
           Own(v, o, f, k) = IF Writes(x, o, f, k) THEN Given(x, f) ELSE Own(w, o, f, k)

(* An intent touches nothing but what it is about. *)
LEMMA ChangedSpares ==
    ASSUME NEW w, NEW x, Accepts(w, x), x.op # "transfer", NEW q, q # x.t
    PROVE  (q \in DOMAIN Changed(w, x) <=> q \in DOMAIN w) /\ (q \in DOMAIN w => Changed(w, x)[q] = w[q])
<1>1. CASE x.op = "attr"
  <2>1. Changed(w, x) = [w EXCEPT ![x.t].attrs[x.k] = x.v]
    BY <1>1 DEF Changed
  <2> QED BY <2>1
<1>2. CASE x.op = "tag"
  <2>1. Changed(w, x) = [w EXCEPT ![x.t].tags = @ \cup {x.k}]
    BY <1>2 DEF Changed
  <2> QED BY <2>1
<1>3. CASE x.op = "untag"
  <2>1. Changed(w, x) = [w EXCEPT ![x.t].tags = @ \ {x.k}]
    BY <1>3 DEF Changed
  <2> QED BY <2>1
<1>4. CASE x.op = "title"
  <2>1. Changed(w, x) = [w EXCEPT ![x.t].title = x.k]
    BY <1>4 DEF Changed
  <2> QED BY <2>1
<1>5. CASE x.op = "desc"
  <2>1. Changed(w, x) = [w EXCEPT ![x.t].desc = x.k]
    BY <1>5 DEF Changed
  <2> QED BY <2>1
<1>6. CASE x.op = "lib"
  <2>1. Changed(w, x) = [w EXCEPT ![x.t].libs[x.k] = x.v[1]]
    BY <1>6 DEF Changed
  <2> QED BY <2>1
<1>7. CASE x.op = "owner"
  <2>1. Changed(w, x) = [w EXCEPT ![x.t].owner = x.r]
    BY <1>7 DEF Changed
  <2> QED BY <2>1
<1>8. CASE x.op = "move"
  <2>1. Changed(w, x) = [w EXCEPT ![x.t].loc = x.r]
    BY <1>8 DEF Changed
  <2> QED BY <2>1
<1>9. CASE x.op = "update"
  <2>1. Changed(w, x) = [w EXCEPT ![x.t].key = IF x.k = NoWord THEN @ ELSE x.k,
                                  ![x.t].target = IF x.r = Nobody THEN @ ELSE x.r]
    BY <1>9 DEF Changed
  <2> QED BY <2>1
<1>10. CASE x.op = "arch"
  <2>1. Changed(w, x) = [w EXCEPT ![x.t].arch = x.r]
    BY <1>10 DEF Changed
  <2> QED BY <2>1
<1>11. CASE x.op = "detach"
  <2>1. Changed(w, x) = IF w[x.t].arch = Nobody THEN w ELSE [w EXCEPT ![x.t] = Detached(w, x.t)]
    BY <1>11 DEF Changed
  <2> QED BY <2>1
<1>12. CASE x.op = "destroy"
  <2>1. Changed(w, x) = Restrict(w, DOMAIN w \ {x.t})
    BY <1>12 DEF Changed
  <2> QED BY <2>1 DEF Restrict
<1>13. ASSUME x.op \in {"spawn", "exit", "clone"}
       PROVE  \E thing : Changed(w, x) = Make(w, x.t, thing)
  BY <1>13 DEF Changed
<1>14. CASE x.op \in {"spawn", "exit", "clone"}
  <2>1. PICK thing : Changed(w, x) = Make(w, x.t, thing)
    BY <1>13, <1>14
  <2> QED BY <2>1 DEF Make
<1>15. CASE x.op \notin {"attr", "tag", "untag", "title", "desc", "lib", "owner", "move", "update", "arch", "detach",
                         "destroy", "spawn", "exit", "clone"}
  <2>1. Changed(w, x) = w
    BY <1>15 DEF Changed
  <2> QED BY <2>1
<1> QED BY <1>1, <1>2, <1>3, <1>4, <1>5, <1>6, <1>7, <1>8, <1>9, <1>10, <1>11, <1>12, <1>14, <1>15

(* What it is about, it changes in what it writes. *)
LEMMA ChangedUpholds ==
    ASSUME NEW w, NEW x, Accepts(w, x), NEW o \in DOMAIN w, Framed(w[o]), Foreseen(x, o)
    PROVE  o \in DOMAIN Changed(w, x) /\ Upheld(w, Changed(w, x), x, o)
<1> DEFINE v == Changed(w, x)
           Kept == Framed(v[o]) /\ v[o].arch = w[o].arch /\ v[o].title = w[o].title
<1>1. CASE x.t # o
  <2>1. o \in DOMAIN v /\ v[o] = w[o]
    BY <1>1, ChangedSpares DEF Foreseen
  <2>2. \A f \in Texts3, k \in AttrKeys : ~Writes(x, o, f, k) /\ Own(v, o, f, k) = Own(w, o, f, k)
    BY <1>1, <2>1 DEF Writes, Own, Texts3
  <2> HIDE DEF v
  <2>3. Upheld(w, v, x, o)
    BY <2>1, <2>2 DEF Upheld
  <2> QED BY <2>1, <2>3 DEF v
<1>2. CASE x.t = o /\ x.op = "attr"
  <2>1. v = [w EXCEPT ![o].attrs[x.k] = x.v]
    BY <1>2 DEF Changed
  <2> HIDE DEF v
  <2>2. /\ o \in DOMAIN v /\ Framed(v[o]) /\ v[o].arch = w[o].arch /\ v[o].title = w[o].title /\ v[o].desc = w[o].desc
        /\ \A k \in AttrKeys : v[o].attrs[k] = IF x.k = k THEN x.v ELSE w[o].attrs[k]
    BY <2>1 DEF Framed
  <2>3. \A f \in Texts3, k \in AttrKeys : Own(v, o, f, k) = IF Writes(x, o, f, k) THEN Given(x, f) ELSE Own(w, o, f, k)
    BY <1>2, <2>2 DEF Own, Writes, Given, Texts3
  <2> QED BY <2>2, <2>3 DEF Upheld, v
<1>3. CASE x.t = o /\ x.op = "title"
  <2>1. v = [w EXCEPT ![o].title = x.k]
    BY <1>3 DEF Changed
  <2> HIDE DEF v
  <2>2. /\ o \in DOMAIN v /\ Framed(v[o]) /\ v[o].arch = w[o].arch /\ v[o].title = x.k /\ v[o].desc = w[o].desc
        /\ v[o].attrs = w[o].attrs
    BY <2>1 DEF Framed
  <2>3. \A f \in Texts3, k \in AttrKeys : Own(v, o, f, k) = IF Writes(x, o, f, k) THEN Given(x, f) ELSE Own(w, o, f, k)
    BY <1>3, <2>2 DEF Own, Writes, Given, Texts3
  <2> QED BY <2>2, <2>3 DEF Upheld, v
<1>4. CASE x.t = o /\ x.op = "desc"
  <2>1. v = [w EXCEPT ![o].desc = x.k]
    BY <1>4 DEF Changed
  <2> HIDE DEF v
  <2>2. /\ o \in DOMAIN v /\ Framed(v[o]) /\ v[o].arch = w[o].arch /\ v[o].desc = x.k /\ v[o].title = w[o].title
        /\ v[o].attrs = w[o].attrs
    BY <2>1 DEF Framed
  <2>3. \A f \in Texts3, k \in AttrKeys : Own(v, o, f, k) = IF Writes(x, o, f, k) THEN Given(x, f) ELSE Own(w, o, f, k)
    BY <1>4, <2>2 DEF Own, Writes, Given, Texts3
  <2> QED BY <2>2, <2>3 DEF Upheld, v
<1>5. CASE x.t = o /\ x.op \notin {"attr", "title", "desc"}
  <2>1. x.op \notin {"spawn", "exit", "clone"}
    BY <1>5 DEF Accepts, Exists
  <2>2. \/ v = [w EXCEPT ![o].tags = @ \cup {x.k}]
        \/ v = [w EXCEPT ![o].tags = @ \ {x.k}]
        \/ v = [w EXCEPT ![o].libs[x.k] = x.v[1]]
        \/ v = [w EXCEPT ![o].owner = x.r]
        \/ v = [w EXCEPT ![o].loc = x.r]
        \/ v = [w EXCEPT ![o].key = IF x.k = NoWord THEN @ ELSE x.k, ![o].target = IF x.r = Nobody THEN @ ELSE x.r]
        \/ v = w
    BY <1>5, <2>1 DEF Changed, Foreseen
  <2> HIDE DEF v
  <2>3. /\ o \in DOMAIN v /\ Framed(v[o]) /\ v[o].arch = w[o].arch /\ v[o].title = w[o].title /\ v[o].desc = w[o].desc
        /\ v[o].attrs = w[o].attrs
    BY <2>2 DEF Framed
  <2>4. \A f \in Texts3, k \in AttrKeys : Own(v, o, f, k) = IF Writes(x, o, f, k) THEN Given(x, f) ELSE Own(w, o, f, k)
    BY <1>5, <2>3 DEF Own, Writes, Texts3
  <2> QED BY <2>3, <2>4 DEF Upheld, v
<1> QED BY <1>1, <1>2, <1>3, <1>4, <1>5

LEMMA MostOf ==
    ASSUME NEW T \in SUBSET Nat, NEW l \in T, \A m \in T : m <= l
    PROVE  Max(T) = l
<1>1. \E n \in T : \A m \in T : n >= m
  OBVIOUS
<1>2. Max(T) \in T /\ \A m \in T : Max(T) >= m
  BY <1>1 DEF Max
<1> DEFINE n == Max(T)
<1>3. n \in T /\ n >= l
  BY <1>2
<1> HIDE DEF n
<1>4. n \in Nat /\ l \in Nat /\ n <= l /\ l <= n
  BY <1>3
<1>5. n = l
  BY <1>4
<1> QED BY <1>5 DEF n

LEMMA Greatest ==
    ASSUME NEW N \in Nat, NEW T \in SUBSET (1..N), T # {}
    PROVE  \E m \in T : \A n \in T : n <= m
<1> DEFINE U == {i \in 0..N : \A n \in T : n <= i}
<1>1. N \in U
  OBVIOUS
<1>2. PICK m \in U : \A i \in U : m <= i
  <2>1. U \in SUBSET Nat /\ U # {}
    BY <1>1
  <2> HIDE DEF U
  <2> QED BY <2>1, Least
<1>3. m \in T
  <2>1. CASE m \notin T
    <3>1. \A n \in T : n \in Nat /\ n <= m /\ n # m /\ n >= 1
      BY <1>2, <2>1
    <3>2. PICK t \in T : t \in Nat /\ t <= m /\ t # m /\ t >= 1
      BY <3>1
    <3>3. m \in 0..N
      BY <1>2
    <3>4. m - 1 \in 0..N /\ ~(m <= m - 1)
      BY <3>2, <3>3
    <3>5. \A n \in T : n <= m - 1
      BY <3>1, <3>3
    <3>6. m - 1 \in U
      BY <3>4, <3>5
    <3> HIDE DEF U
    <3> QED BY <1>2, <3>4, <3>6
  <2> QED BY <2>1
<1> QED BY <1>2, <1>3

LEMMA GreatestIn ==
    ASSUME NEW N \in Nat, NEW T \in SUBSET (1..N), T # {}
    PROVE  Max(T) \in T
<1>1. PICK m \in T : \A n \in T : n <= m
  BY Greatest
<1>2. T \in SUBSET Nat
  OBVIOUS
<1>3. Max(T) = m
  BY <1>1, <1>2, MostOf
<1> QED BY <1>3

(* Of all writes T the last one stays; but what is in Free may be replaced by *)
(* other steps.                                                               *)
Stays(N, f, g, T, Free) ==
    /\ \A i \in 1..N : i \in T => f[i] = g[i]
    /\ \A i \in 1..N : i \notin T => f[i] = f[i - 1] \/ f[i - 1] \in Free

LEMMA LastStays ==
    ASSUME NEW N \in Nat, NEW f, NEW g, NEW T \in SUBSET (1..N), NEW Free, Stays(N, f, g, T, Free)
    PROVE  /\ T = {} => f[N] = f[0] \/ f[0] \in Free
           /\ T # {} => f[N] = g[Max(T)] \/ g[Max(T)] \in Free
<1> DEFINE Or(x, y) == x = y \/ y \in Free
           Latest(l, j) == l \in T /\ l <= j /\ \A m \in T : m <= j => m <= l
           Ok(j) == \/ Or(f[j], f[0]) /\ \A m \in T : ~(m <= j)
                    \/ \E l \in T : Latest(l, j) /\ Or(f[j], g[l])
           S == {j \in 0..N : Ok(j)}
<1>1. 0 \in S
  OBVIOUS
<1>2. ASSUME NEW i \in 1..N, i - 1 \in S PROVE i \in S
  <2>1. CASE i \in T
    <3>1. Latest(i, i) /\ f[i] = g[i]
      BY <2>1 DEF Stays
    <3> QED BY <2>1, <3>1
  <2>2. CASE i \notin T
    <3>1. f[i] = f[i - 1] \/ f[i - 1] \in Free
      BY <2>2 DEF Stays
    <3>2. ASSUME NEW m \in T PROVE m <= i <=> m <= i - 1
      <4>1. m # i
        BY <2>2
      <4>2. m \in 1..N
        OBVIOUS
      <4>3. m \in Nat /\ i \in Nat
        BY <4>2
      <4> QED BY <4>1, <4>3
    <3>3. \A l \in T : Latest(l, i - 1) => Latest(l, i)
      BY <3>2
    <3>4. \A y : Or(f[i - 1], y) => Or(f[i], y)
      BY <3>1
    <3>5. Ok(i - 1)
      BY <1>2
    <3>6. i \in 0..N
      OBVIOUS
    <3> HIDE DEF Or, Latest
    <3> QED BY <3>2, <3>3, <3>4, <3>5, <3>6
  <2> QED BY <2>1, <2>2
<1>3. N \in S
  <2> HIDE DEF S
  <2>1. \A j \in 0..N : j \in S
    BY <1>1, <1>2, Climb
  <2> QED BY <2>1
<1>4. Ok(N) /\ \A m \in T : m \in Nat /\ m <= N
  <2>1. Ok(N)
    <3> HIDE DEF Ok
    <3> QED BY <1>3
  <2>2. \A m \in T : m \in Nat /\ m <= N
    OBVIOUS
  <2> QED BY <2>1, <2>2
<1>5. CASE T = {}
  <2>1. Or(f[N], f[0])
    <3> HIDE DEF Or
    <3> QED BY <1>4, <1>5
  <2> QED BY <1>5, <2>1
<1>6. CASE T # {}
  <2>1. PICK l \in T : Latest(l, N) /\ Or(f[N], g[l])
    <3> HIDE DEF Latest, Or
    <3> QED BY <1>4, <1>6
  <2>2. \A m \in T : m <= l
    BY <1>4, <2>1
  <2>3. Max(T) = l
    BY <1>4, <2>2, MostOf
  <2> HIDE DEF Latest, Ok, S
  <2> QED BY <1>6, <2>1, <2>3
<1> QED BY <1>5, <1>6

LEMMA LastWins ==
    ASSUME NEW N \in Nat, NEW f, NEW g, NEW T \in SUBSET (1..N),
           \A i \in 1..N : f[i] = IF i \in T THEN g[i] ELSE f[i - 1]
    PROVE  f[N] = IF T = {} THEN f[0] ELSE g[Max(T)]
<1> DEFINE Free == {}
<1>1. Stays(N, f, g, T, Free)
  BY DEF Stays
<1> HIDE DEF Free
<1>2. /\ T = {} => f[N] = f[0] \/ f[0] \in Free
      /\ T # {} => f[N] = g[Max(T)] \/ g[Max(T)] \in Free
  BY <1>1, LastStays
<1> QED BY <1>2 DEF Free

(* A batch that goes through has gone through at every turn. *)
LEMMA AllAccepted ==
    ASSUME NEW N \in Nat, NEW u, NEW b, \A i \in 1..N : u[i] = Then(u[i - 1], b[i]), u[N].ok
    PROVE  \A i \in 1..N : Accepts(u[i - 1].w, b[i]) /\ u[i].w = Changed(u[i - 1].w, b[i])
<1>1. ASSUME NEW i \in 1..N, u[i].ok
      PROVE  u[i - 1].ok /\ Accepts(u[i - 1].w, b[i]) /\ u[i].w = Changed(u[i - 1].w, b[i])
  <2> DEFINE st == u[i - 1]
             x == b[i]
  <2>1. u[i] = Then(st, x)
    OBVIOUS
  <2> HIDE DEF st, x
  <2>2. st.ok /\ Accepts(st.w, x)
    BY <1>1, <2>1 DEF Then
  <2>3. u[i].w = Changed(st.w, x)
    BY <2>1, <2>2 DEF Then
  <2> QED BY <2>2, <2>3 DEF st, x
<1> DEFINE S == {j \in 0..N : u[N - j].ok}
<1>2. 0 \in S
  OBVIOUS
<1>3. ASSUME NEW j \in 1..N, j - 1 \in S PROVE j \in S
  <2> DEFINE i == N - (j - 1)
  <2>1. i \in 1..N /\ i - 1 = N - j /\ u[i].ok
    BY <1>3
  <2>2. u[i - 1].ok
    BY <1>1, <2>1
  <2> QED BY <2>1, <2>2
<1>4. \A j \in 0..N : j \in S
  <2> HIDE DEF S
  <2> QED BY <1>2, <1>3, Climb
<1>5. ASSUME NEW i \in 1..N PROVE u[i].ok
  <2>1. N - i \in 0..N /\ N - (N - i) = i
    OBVIOUS
  <2> QED BY <1>4, <2>1
<1> QED BY <1>1, <1>5

LEMMA BatchSpares ==
    ASSUME NEW w, NEW b, IsSeq(b), Apply(w, b).ok, NEW q,
           \A i \in 1..Len(b) : b[i].op # "transfer" /\ b[i].t # q
    PROVE  (q \in DOMAIN Apply(w, b).w <=> q \in DOMAIN w) /\ (q \in DOMAIN w => Apply(w, b).w[q] = w[q])
<1> DEFINE N == Len(b)
<1>1. PICK u : u[0].w = w /\ Apply(w, b) = u[N] /\ \A i \in 1..N : u[i] = Then(u[i - 1], b[i])
  BY ApplyTurns
<1>2. N \in Nat
  BY ApplyTurns
<1>3. \A i \in 1..N : b[i].op # "transfer" /\ b[i].t # q
  OBVIOUS
<1>4. \A i \in 1..N : Accepts(u[i - 1].w, b[i]) /\ u[i].w = Changed(u[i - 1].w, b[i])
  <2>1. u[N].ok
    BY <1>1
  <2>2. \A i \in 1..N : u[i] = Then(u[i - 1], b[i])
    BY <1>1
  <2> HIDE DEF N
  <2> QED BY <1>2, <2>1, <2>2, AllAccepted
<1> HIDE DEF N
<1> DEFINE Same(v) == (q \in DOMAIN v <=> q \in DOMAIN w) /\ (q \in DOMAIN w => v[q] = w[q])
           S == {i \in 0..N : Same(u[i].w)}
<1>5. 0 \in S
  BY <1>1, <1>2
<1>6. ASSUME NEW i \in 1..N, i - 1 \in S PROVE i \in S
  <2> DEFINE v == u[i - 1].w
             x == b[i]
  <2>1. Accepts(v, x) /\ u[i].w = Changed(v, x) /\ x.op # "transfer" /\ x.t # q /\ Same(v)
    BY <1>3, <1>4, <1>6
  <2> HIDE DEF v, x
  <2>2. Same(Changed(v, x))
    BY <2>1, ChangedSpares
  <2> QED BY <2>1, <2>2
<1>7. N \in S
  <2> HIDE DEF S
  <2>1. \A i \in 0..N : i \in S
    BY <1>2, <1>5, <1>6, Climb
  <2> QED BY <1>2, <2>1
<1> QED BY <1>1, <1>7

(* An object has in the end what was last written to it. *)
LEMMA BatchUpholds ==
    ASSUME NEW w, NEW b, IsSeq(b), Apply(w, b).ok, NEW o \in DOMAIN w, Framed(w[o]),
           \A i \in 1..Len(b) : Foreseen(b[i], o)
    PROVE  /\ o \in DOMAIN Apply(w, b).w /\ Apply(w, b).w[o].arch = w[o].arch
           /\ \A f \in Texts3, k \in AttrKeys :
                 LET T == {i \in 1..Len(b) : Writes(b[i], o, f, k)}
                 IN  Own(Apply(w, b).w, o, f, k) = IF T = {} THEN Own(w, o, f, k) ELSE Given(b[Max(T)], f)
<1> DEFINE N == Len(b)
<1>1. PICK u : u[0].w = w /\ Apply(w, b) = u[N] /\ \A i \in 1..N : u[i] = Then(u[i - 1], b[i])
  BY ApplyTurns
<1>2. N \in Nat
  BY ApplyTurns
<1>3. \A i \in 1..N : Foreseen(b[i], o)
  OBVIOUS
<1>4. \A i \in 1..N : Accepts(u[i - 1].w, b[i]) /\ u[i].w = Changed(u[i - 1].w, b[i])
  <2>1. u[N].ok
    BY <1>1
  <2>2. \A i \in 1..N : u[i] = Then(u[i - 1], b[i])
    BY <1>1
  <2> HIDE DEF N
  <2> QED BY <1>2, <2>1, <2>2, AllAccepted
<1> DEFINE Good(v) == o \in DOMAIN v /\ Framed(v[o]) /\ v[o].arch = w[o].arch
           S == {i \in 0..N : Good(u[i].w)}
<1> HIDE DEF N
<1>5. 0 \in S
  BY <1>1, <1>2
<1>6. ASSUME NEW i \in 1..N, Good(u[i - 1].w) PROVE Good(u[i].w) /\ Upheld(u[i - 1].w, u[i].w, b[i], o)
  <2> DEFINE v == u[i - 1].w
             x == b[i]
  <2>1. Accepts(v, x) /\ u[i].w = Changed(v, x) /\ Foreseen(x, o) /\ Good(v)
    BY <1>3, <1>4, <1>6
  <2> SUFFICES Good(u[i].w) /\ Upheld(v, u[i].w, x, o)
    OBVIOUS
  <2> HIDE DEF v, x
  <2>2. o \in DOMAIN Changed(v, x) /\ Upheld(v, Changed(v, x), x, o)
    BY <2>1, ChangedUpholds
  <2>3. Good(Changed(v, x))
    BY <2>1, <2>2 DEF Upheld
  <2> QED BY <2>1, <2>2, <2>3
<1>7. \A i \in 0..N : i \in S
  <2>1. ASSUME NEW i \in 1..N, i - 1 \in S PROVE i \in S
    <3> HIDE DEF Good
    <3> QED BY <1>6, <2>1
  <2> HIDE DEF S
  <2> QED BY <1>2, <1>5, <2>1, Climb
<1>8. Good(u[N].w)
  BY <1>2, <1>7
<1>9. ASSUME NEW i \in 1..N PROVE Upheld(u[i - 1].w, u[i].w, b[i], o)
  <2>1. i - 1 \in 0..N
    BY <1>2
  <2>2. Good(u[i - 1].w)
    BY <1>7, <2>1
  <2> HIDE DEF Good
  <2> QED BY <1>6, <2>2
<1>10. ASSUME NEW f \in Texts3, NEW k \in AttrKeys
       PROVE  LET T == {i \in 1..N : Writes(b[i], o, f, k)}
              IN  Own(u[N].w, o, f, k) = IF T = {} THEN Own(w, o, f, k) ELSE Given(b[Max(T)], f)
  <2> DEFINE T == {i \in 1..N : Writes(b[i], o, f, k)}
             h == [i \in 0..N |-> Own(u[i].w, o, f, k)]
             g == [i \in 1..N |-> Given(b[i], f)]
  <2>1. ASSUME NEW i \in 1..N PROVE h[i] = IF i \in T THEN g[i] ELSE h[i - 1]
    <3>1. Own(u[i].w, o, f, k) = IF Writes(b[i], o, f, k) THEN Given(b[i], f) ELSE Own(u[i - 1].w, o, f, k)
      BY <1>9 DEF Upheld
    <3>2. i \in 0..N /\ i - 1 \in 0..N
      BY <1>2
    <3> QED BY <3>1, <3>2
  <2>2. T \in SUBSET (1..N)
    OBVIOUS
  <2>3. h[N] = IF T = {} THEN h[0] ELSE g[Max(T)]
    <3> HIDE DEF T, h, g
    <3> QED BY <1>2, <2>1, <2>2, LastWins
  <2>4. h[N] = Own(u[N].w, o, f, k) /\ h[0] = Own(w, o, f, k)
    BY <1>1, <1>2
  <2>5. T # {} => Max(T) \in 1..N
    <3> HIDE DEF T
    <3> QED BY <1>2, <2>2, GreatestIn
  <2>6. T # {} => g[Max(T)] = Given(b[Max(T)], f)
    <3> HIDE DEF T
    <3> QED BY <2>5
  <2> HIDE DEF T, h, g
  <2>7. Own(u[N].w, o, f, k) = IF T = {} THEN Own(w, o, f, k) ELSE Given(b[Max(T)], f)
    BY <2>3, <2>4, <2>6
  <2> QED BY <2>7 DEF T
<1>11. Apply(w, b) = u[N]
  BY <1>1
<1> QED BY <1>8, <1>10, <1>11 DEF N
-----------------------------------------------------------------------------
(* How an object's line, and what is found along it, follow a change *)

LEMMA LineSteps ==
    ASSUME NEW w, NEW r
    PROVE  /\ Line(w, r)[0] = r
           /\ \A i \in 1..ArchetypeDepth : Line(w, r)[i] = ArchetypeOf(w, Line(w, r)[i - 1])
<1> DEFINE up == Line(w, r)
<1>1. ArchetypeDepth \in Nat /\ Looping(up, "line", r, ArchetypeDepth, w)
  BY SoftcodeAssumption, LineLoops
<1> HIDE DEF up
<1>2. up[0] = r
  BY <1>1, RunIs
<1>3. \A i \in 1..ArchetypeDepth : up[i] = Turn("line", i, up[i - 1], w)
  BY <1>1, RunIs
<1>4. \A i \in 1..ArchetypeDepth : up[i] = ArchetypeOf(w, up[i - 1])
  BY <1>3, Turns
<1> QED BY <1>2, <1>4 DEF up

Beside(w, v, o) ==
    /\ o \in DOMAIN w /\ o \in DOMAIN v /\ v[o].arch = w[o].arch
    /\ \A j \in 1..ArchetypeDepth :
           /\ Line(w, o)[j] \in DOMAIN v <=> Line(w, o)[j] \in DOMAIN w
           /\ Line(w, o)[j] \in DOMAIN w => v[Line(w, o)[j]] = w[Line(w, o)[j]]

LEMMA LineFollows ==
    ASSUME NEW w, NEW v, NEW o, Beside(w, v, o)
    PROVE  \A j \in 0..ArchetypeDepth : Line(v, o)[j] = Line(w, o)[j]
<1> DEFINE D == ArchetypeDepth
           up == Line(w, o)
           to == Line(v, o)
           S == {j \in 0..D : to[j] = up[j]}
<1>1. D \in Nat
  BY SoftcodeAssumption
<1>2. up[0] = o /\ \A i \in 1..D : up[i] = ArchetypeOf(w, up[i - 1])
  BY LineSteps
<1>3. to[0] = o /\ \A i \in 1..D : to[i] = ArchetypeOf(v, to[i - 1])
  BY LineSteps
<1>4. /\ o \in DOMAIN w /\ o \in DOMAIN v /\ v[o].arch = w[o].arch
      /\ \A j \in 1..D : (up[j] \in DOMAIN v <=> up[j] \in DOMAIN w) /\ (up[j] \in DOMAIN w => v[up[j]] = w[up[j]])
  BY DEF Beside
<1> HIDE DEF D, up, to
<1>5. 0 \in S
  BY <1>1, <1>2, <1>3
<1>6. ASSUME NEW i \in 1..D, i - 1 \in S PROVE i \in S
  <2>1. i \in 0..D /\ to[i - 1] = up[i - 1] /\ (i - 1 = 0 \/ i - 1 \in 1..D)
    BY <1>1, <1>6
  <2>2. to[i] = ArchetypeOf(v, to[i - 1]) /\ up[i] = ArchetypeOf(w, up[i - 1])
    BY <1>2, <1>3
  <2>3. ArchetypeOf(v, up[i - 1]) = ArchetypeOf(w, up[i - 1])
    BY <1>2, <1>4, <2>1 DEF ArchetypeOf, Exists
  <2> QED BY <2>1, <2>2, <2>3
<1>7. \A j \in 0..D : j \in S
  <2> HIDE DEF S
  <2> QED BY <1>1, <1>5, <1>6, Climb
<1> QED BY <1>7 DEF D, up, to

(* The line of one's archetype is one's own, but for oneself. *)
LEMMA LineShifts ==
    ASSUME NEW w, NEW o \in DOMAIN w
    PROVE  \A j \in 1..ArchetypeDepth : Line(w, w[o].arch)[j - 1] = Line(w, o)[j]
<1> DEFINE D == ArchetypeDepth
           up == Line(w, o)
           to == Line(w, w[o].arch)
           S == {j \in 0..D : j = 0 \/ to[j - 1] = up[j]}
<1>1. D \in Nat
  BY SoftcodeAssumption
<1>2. up[0] = o /\ \A i \in 1..D : up[i] = ArchetypeOf(w, up[i - 1])
  BY LineSteps
<1>3. to[0] = w[o].arch /\ \A i \in 1..D : to[i] = ArchetypeOf(w, to[i - 1])
  BY LineSteps
<1> HIDE DEF D, up, to
<1>4. 0 \in S
  BY <1>1
<1>5. ASSUME NEW i \in 1..D, i - 1 \in S PROVE i \in S
  <2>1. CASE i = 1
    <3>1. i - 1 = 0 /\ i \in 0..D
      BY <1>1, <2>1
    <3>2. up[i] = ArchetypeOf(w, o)
      BY <1>2, <3>1
    <3> QED BY <1>3, <3>1, <3>2 DEF ArchetypeOf, Exists
  <2>2. CASE i # 1
    <3>1. i - 1 \in 1..D /\ i - 1 # 0 /\ i \in 0..D
      BY <1>1, <2>2
    <3>2. to[i - 2] = up[i - 1]
      <4>1. (i - 1) - 1 = i - 2
        BY <3>1
      <4> QED BY <1>5, <3>1, <4>1
    <3>3. to[i - 1] = ArchetypeOf(w, to[i - 2])
      <4>1. (i - 1) - 1 = i - 2
        BY <3>1
      <4> QED BY <1>3, <3>1, <4>1
    <3>4. up[i] = ArchetypeOf(w, up[i - 1])
      BY <1>2
    <3> QED BY <3>1, <3>2, <3>3, <3>4
  <2> QED BY <2>1, <2>2
<1>6. \A j \in 0..D : j \in S
  <2> HIDE DEF S
  <2> QED BY <1>1, <1>4, <1>5, Climb
<1>7. \A j \in 1..D : j \in 0..D /\ j # 0
  BY <1>1
<1> QED BY <1>6, <1>7 DEF D, up, to

LEMMA LeastIs ==
    ASSUME NEW T \in SUBSET Nat, NEW l \in T, \A m \in T : l <= m
    PROVE  Min(T) = l
<1>1. Min(T) \in T /\ \A m \in T : Min(T) <= m
  <2>1. T # {}
    OBVIOUS
  <2> QED BY <2>1, LeastOf
<1> DEFINE n == Min(T)
<1>2. n \in T /\ n <= l
  BY <1>1
<1> HIDE DEF n
<1>3. n \in Nat /\ l \in Nat /\ n <= l /\ l <= n
  BY <1>2
<1> QED BY <1>3 DEF n

(* What is read of an object: its own text, or that of the nearest archetype. *)
Hits(w, r, f, k) ==
    {i \in 0..ArchetypeDepth : Line(w, r)[i] \in DOMAIN w /\ Own(w, Line(w, r)[i], f, k) # None(f)}
Resolved(w, r, f, k) ==
    IF Hits(w, r, f, k) = {} THEN None(f)
    ELSE IF Line(w, r)[Min(Hits(w, r, f, k))] = Nobody THEN None(f)
    ELSE Own(w, Line(w, r)[Min(Hits(w, r, f, k))], f, k)

LEMMA ResolvedIs ==
    ASSUME NEW w, NEW r
    PROVE  /\ \A k : ResolvedAttr(w, r, k) = Resolved(w, r, "attr", k)
           /\ \A k : ResolvedTitle(w, r) = Resolved(w, r, "title", k)
           /\ \A k : ResolvedDescription(w, r) = Resolved(w, r, "desc", k)
<1> DEFINE up == Line(w, r)
<1>1. DOMAIN up = 0..ArchetypeDepth
  BY LineIs
<1>2. ASSUME NEW k PROVE ResolvedAttr(w, r, k) = Resolved(w, r, "attr", k)
  <2> DEFINE hits == {i \in DOMAIN up : Exists(w, up[i]) /\ w[up[i]].attrs[k] # Unset}
  <2>1. ResolvedAttr(w, r, k) = IF hits = {} THEN Unset
                                ELSE IF up[Min(hits)] = Nobody THEN Unset ELSE w[up[Min(hits)]].attrs[k]
    <3>1. CASE hits = {}
      BY <3>1 DEF ResolvedAttr, Nearest
    <3>2. CASE hits # {}
      BY <3>2 DEF ResolvedAttr, Nearest
    <3> QED BY <3>1, <3>2
  <2>2. hits = Hits(w, r, "attr", k)
    BY <1>1 DEF Hits, Own, None, Exists
  <2> HIDE DEF hits, up
  <2> QED BY <2>1, <2>2 DEF Resolved, Own, None, up
<1>3. ASSUME NEW k PROVE ResolvedTitle(w, r) = Resolved(w, r, "title", k)
  <2> DEFINE hits == {i \in DOMAIN up : Exists(w, up[i]) /\ w[up[i]].title # NoWord}
  <2>1. ResolvedTitle(w, r) = IF hits = {} THEN NoWord
                              ELSE IF up[Min(hits)] = Nobody THEN NoWord ELSE w[up[Min(hits)]].title
    BY DEF ResolvedTitle, Nearest
  <2>2. hits = Hits(w, r, "title", k)
    BY <1>1 DEF Hits, Own, None, Exists
  <2> HIDE DEF hits, up
  <2> QED BY <2>1, <2>2 DEF Resolved, Own, None, up
<1>4. ASSUME NEW k PROVE ResolvedDescription(w, r) = Resolved(w, r, "desc", k)
  <2> DEFINE hits == {i \in DOMAIN up : Exists(w, up[i]) /\ w[up[i]].desc # NoWord}
  <2>1. ResolvedDescription(w, r) = IF hits = {} THEN NoWord
                                    ELSE IF up[Min(hits)] = Nobody THEN NoWord ELSE w[up[Min(hits)]].desc
    BY DEF ResolvedDescription, Nearest
  <2>2. hits = Hits(w, r, "desc", k)
    BY <1>1 DEF Hits, Own, None, Exists
  <2> HIDE DEF hits, up
  <2> QED BY <2>1, <2>2 DEF Resolved, Own, None, up
<1> QED BY <1>2, <1>3, <1>4

(* Where nothing was written, one reads what one read. *)
LEMMA UnwrittenReads ==
    ASSUME NEW w, NEW v, NEW o, Beside(w, v, o), NEW f \in Texts3, NEW k, Own(v, o, f, k) = Own(w, o, f, k)
    PROVE  Resolved(v, o, f, k) = Resolved(w, o, f, k)
<1> DEFINE D == ArchetypeDepth
           up == Line(w, o)
           to == Line(v, o)
           H == Hits(w, o, f, k)
           G == Hits(v, o, f, k)
<1>1. D \in Nat /\ up[0] = o /\ to[0] = o
  BY SoftcodeAssumption, LineSteps
<1>2. \A j \in 0..D : to[j] = up[j]
  BY LineFollows
<1>3. \A j \in 0..D : j = 0 \/ j \in 1..D
  BY <1>1
<1>4. ASSUME NEW j \in 0..D
      PROVE  /\ up[j] \in DOMAIN v <=> up[j] \in DOMAIN w
             /\ up[j] \in DOMAIN w => Own(v, up[j], f, k) = Own(w, up[j], f, k)
  <2>1. CASE j = 0
    BY <1>1, <2>1 DEF Beside
  <2>2. CASE j \in 1..D
    BY <2>2 DEF Beside, Own
  <2> QED BY <1>3, <2>1, <2>2
<1>5. H = {j \in 0..D : up[j] \in DOMAIN w /\ Own(w, up[j], f, k) # None(f)}
  BY DEF Hits
<1>6. G = {j \in 0..D : to[j] \in DOMAIN v /\ Own(v, to[j], f, k) # None(f)}
  BY DEF Hits
<1>7. /\ Resolved(w, o, f, k) = IF H = {} THEN None(f) ELSE IF up[Min(H)] = Nobody THEN None(f) ELSE Own(w, up[Min(H)], f, k)
      /\ Resolved(v, o, f, k) = IF G = {} THEN None(f) ELSE IF to[Min(G)] = Nobody THEN None(f) ELSE Own(v, to[Min(G)], f, k)
  BY DEF Resolved
<1>8. D = ArchetypeDepth
  OBVIOUS
<1> HIDE DEF D, up, to, H, G
<1>9. G = H
  BY <1>2, <1>4, <1>5, <1>6
<1>10. H # {} => Min(H) \in H
  <2>1. H \in SUBSET Nat
    BY <1>1, <1>5
  <2> QED BY <2>1, LeastOf
<1>11. H # {} => Min(H) \in 0..D /\ up[Min(H)] \in DOMAIN w
  BY <1>5, <1>10
<1>12. H # {} => to[Min(H)] = up[Min(H)] /\ Own(v, up[Min(H)], f, k) = Own(w, up[Min(H)], f, k)
  BY <1>2, <1>4, <1>11
<1> QED BY <1>7, <1>9, <1>12

(* What an object has itself is what one reads. *)
LEMMA WrittenReads ==
    ASSUME NEW v, NEW o \in DOMAIN v, o # Nobody, NEW f, NEW k, Own(v, o, f, k) # None(f)
    PROVE  Resolved(v, o, f, k) = Own(v, o, f, k)
<1> DEFINE H == Hits(v, o, f, k)
<1>1. ArchetypeDepth \in Nat /\ Line(v, o)[0] = o
  BY SoftcodeAssumption, LineSteps
<1>2. 0 \in H /\ H \in SUBSET Nat
  BY <1>1 DEF Hits
<1>3. \A m \in H : 0 <= m
  BY <1>2
<1>4. Resolved(v, o, f, k) = IF H = {} THEN None(f) ELSE IF Line(v, o)[Min(H)] = Nobody THEN None(f)
                             ELSE Own(v, Line(v, o)[Min(H)], f, k)
  BY DEF Resolved
<1> HIDE DEF H
<1>5. Min(H) = 0
  BY <1>2, <1>3, LeastIs
<1> QED BY <1>1, <1>2, <1>4, <1>5

(* Where it has nothing any more, one reads what its archetype has. *)
LEMMA ErasedReads ==
    ASSUME NEW w, NEW v, NEW o, Beside(w, v, o), NEW f \in Texts3, NEW k, Own(v, o, f, k) = None(f),
           Nobody \notin DOMAIN w, Line(w, o)[ArchetypeDepth] \notin DOMAIN w
    PROVE  Resolved(v, o, f, k) = Resolved(w, w[o].arch, f, k)
<1> DEFINE D == ArchetypeDepth
           up == Line(w, o)
           to == Line(v, o)
           on == Line(w, w[o].arch)
           H == Hits(w, w[o].arch, f, k)
           G == Hits(v, o, f, k)
<1>1. o \in DOMAIN w /\ D \in Nat /\ up[0] = o /\ to[0] = o
  BY SoftcodeAssumption, LineSteps DEF Beside
<1>2. \A j \in 0..D : to[j] = up[j]
  BY LineFollows
<1>3. \A j \in 1..D : on[j - 1] = up[j]
  BY <1>1, LineShifts
<1>4. \A j \in 1..D : /\ up[j] \in DOMAIN v <=> up[j] \in DOMAIN w
                      /\ up[j] \in DOMAIN w => Own(v, up[j], f, k) = Own(w, up[j], f, k)
  BY DEF Beside, Own
<1>5. H = {j \in 0..D : on[j] \in DOMAIN w /\ Own(w, on[j], f, k) # None(f)}
  BY DEF Hits
<1>6. G = {j \in 0..D : to[j] \in DOMAIN v /\ Own(v, to[j], f, k) # None(f)}
  BY DEF Hits
<1>7. /\ Resolved(w, w[o].arch, f, k) = IF H = {} THEN None(f) ELSE IF on[Min(H)] = Nobody THEN None(f)
                                        ELSE Own(w, on[Min(H)], f, k)
      /\ Resolved(v, o, f, k) = IF G = {} THEN None(f) ELSE IF to[Min(G)] = Nobody THEN None(f) ELSE Own(v, to[Min(G)], f, k)
  BY DEF Resolved
<1>8. D # 0 /\ up[D] \notin DOMAIN w
  BY <1>1
<1>9. on[D] \notin DOMAIN w
  <2>1. D \in 1..D /\ D - 1 \in 0..D
    BY <1>1, <1>8
  <2>2. on[D] = ArchetypeOf(w, on[D - 1])
    BY <2>1, LineSteps
  <2>3. on[D] = Nobody
    BY <1>3, <1>8, <2>1, <2>2 DEF ArchetypeOf, Exists
  <2> QED BY <2>3
<1>10. Own(v, o, f, k) = None(f)
  OBVIOUS
<1> DEFINE arch == w[o].arch
<1> HIDE DEF D, up, to, on, H, G, arch
<1>11. \A j \in G : j \in 1..D /\ j - 1 \in H
  <2>1. ASSUME NEW j \in G PROVE j \in 1..D /\ j - 1 \in H
    <3>1. j \in 0..D /\ to[j] \in DOMAIN v /\ Own(v, to[j], f, k) # None(f) /\ to[j] = up[j]
      BY <1>2, <1>6
    <3>2. j # 0
      BY <1>1, <1>10, <3>1
    <3>3. j \in 1..D /\ j - 1 \in 0..D
      BY <1>1, <3>1, <3>2
    <3>4. up[j] \in DOMAIN w /\ Own(w, up[j], f, k) # None(f)
      BY <1>4, <3>1, <3>3
    <3> QED BY <1>3, <1>5, <3>3, <3>4
  <2> QED BY <2>1
<1>12. \A j \in H : j + 1 \in G /\ j \in Nat
  <2>1. ASSUME NEW j \in H PROVE j + 1 \in G /\ j \in Nat
    <3>1. j \in 0..D /\ on[j] \in DOMAIN w /\ Own(w, on[j], f, k) # None(f)
      BY <1>5
    <3>2. j # D
      BY <1>9, <3>1
    <3>3. j + 1 \in 1..D /\ j + 1 \in 0..D /\ (j + 1) - 1 = j /\ j \in Nat
      BY <1>1, <3>1, <3>2
    <3>4. on[j] = up[j + 1] /\ to[j + 1] = up[j + 1]
      BY <1>2, <1>3, <3>3
    <3>5. up[j + 1] \in DOMAIN v /\ Own(v, up[j + 1], f, k) # None(f)
      BY <1>4, <3>1, <3>3, <3>4
    <3> QED BY <1>6, <3>3, <3>4, <3>5
  <2> QED BY <2>1
<1>13. CASE H = {}
  BY <1>7, <1>11, <1>13
<1>14. CASE H # {}
  <2> DEFINE m == Min(H)
  <2>1. H \in SUBSET Nat /\ G \in SUBSET Nat
    BY <1>1, <1>11, <1>12
  <2>2. m \in H /\ \A j \in H : m <= j
    BY <1>14, <2>1, LeastOf
  <2> HIDE DEF m
  <2>3. m + 1 \in G /\ m \in Nat
    BY <1>12, <2>2
  <2>4. \A j \in G : m + 1 <= j
    <3>1. ASSUME NEW j \in G PROVE m + 1 <= j
      <4>1. j - 1 \in H /\ j \in Nat
        BY <1>11, <2>1
      <4>2. m <= j - 1
        BY <2>2, <4>1
      <4> QED BY <2>3, <4>1, <4>2
    <3> QED BY <3>1
  <2>5. Min(G) = m + 1
    BY <2>1, <2>3, <2>4, LeastIs
  <2>6. m + 1 \in 1..D /\ m + 1 \in 0..D /\ (m + 1) - 1 = m
    BY <1>1, <1>11, <2>3
  <2>7. on[m] = up[m + 1] /\ to[m + 1] = up[m + 1]
    BY <1>2, <1>3, <2>6
  <2>8. on[m] \in DOMAIN w
    BY <1>5, <2>2
  <2>9. Own(v, up[m + 1], f, k) = Own(w, up[m + 1], f, k)
    BY <1>4, <2>6, <2>7, <2>8
  <2> QED BY <1>7, <1>14, <2>3, <2>5, <2>7, <2>9 DEF m
<1> QED BY <1>13, <1>14
-----------------------------------------------------------------------------
(* Nobody is not in the world: no script can make it, nor choose it. *)
Named == Nobody \notin DOMAIN world /\ Nobody \notin chosen /\ 0 < nextId

LEMMA NamedInit == Init => Named
<1> SUFFICES ASSUME Init PROVE Named
  OBVIOUS
<1>1. DOMAIN Start \subseteq Nat \ {Nobody} /\ FirstId \in Nat \ {Nobody}
  BY SoftcodeAssumption DEF IsWorld
<1>2. world = Start /\ nextId = FirstId /\ chosen = {}
  BY DEF Init
<1> QED BY <1>1, <1>2 DEF Named, Nobody

LEMMA CallsChoose ==
    Values \/ Effects \/ Places \/ Stories => UNCHANGED <<world, nextId>> /\ (chosen' = chosen \/ SpawnAs)
<1>1. ASSUME NEW s, NEW next, NEW picks, Called(s, next, picks)
      PROVE  UNCHANGED <<world, nextId>> /\ (picks = {} => chosen' = chosen)
  BY <1>1 DEF Called
<1>2. ASSUME NEW s, NEW far, Tells(s, far) PROVE UNCHANGED <<world, nextId, chosen>>
  BY <1>2 DEF Tells
<1> QED BY <1>1, <1>2, CallsAre

LEMMA RunIsNamed == Inv /\ Named /\ Run => Named'
<1> SUFFICES ASSUME Inv, Named, Run PROVE Named'
  OBVIOUS
<1>1. nextId \in Int /\ counter \in Int /\ nextId <= counter
  BY DEF Inv, Numbered
<1>2. ASSUME UNCHANGED <<world, nextId, chosen>> PROVE Named'
  BY <1>2 DEF Named
<1>3. ASSUME NEW m, Ends(world, nextId, m) PROVE Named'
  BY <1>2, <1>3 DEF Ends
<1>4. ASSUME NEW m, Ends(Apply(world, batch).w, counter, m) PROVE Named'
  <2> DEFINE w == Apply(world, batch).w
  <2>1. world' = w /\ nextId' = counter /\ chosen' = chosen
    BY <1>4 DEF Ends
  <2>2. \A r \in DOMAIN w : r \in DOMAIN world \/ \E i \in 1..Len(batch) : batch[i].op \in Makings /\ batch[i].t = r
    BY ApplyIsSound DEF Inv, Numbered
  <2>3. \A i \in 1..Len(batch) : batch[i].op \in Makings => batch[i].t # Nobody
    BY <1>1 DEF Inv, Numbered, Makes1, Named, Nobody
  <2> HIDE DEF w
  <2> QED BY <1>1, <2>1, <2>2, <2>3 DEF Named
<1>5. CASE RunHook \/ RunEval
  BY <1>2, <1>5 DEF RunHook, RunEval, Begins
<1>6. CASE Pass \/ Return
  BY <1>2, <1>6 DEF Pass, Return
<1>7. CASE Dies
  BY <1>3, <1>7 DEF Dies
<1>8. CASE Finish
  BY <1>3, <1>4, <1>8 DEF Finish
<1> QED BY <1>5, <1>6, <1>7, <1>8 DEF Run

LEMMA OthersAreNamed == Named /\ (Walk \/ Disconnect \/ Reconnect \/ Libraries) => Named'
<1> SUFFICES ASSUME Named, Walk \/ Disconnect \/ Reconnect \/ Libraries PROVE Named'
  OBVIOUS
<1>1. ASSUME NEW w, NEW m, Between(w, m), DOMAIN w = DOMAIN world PROVE Named'
  BY <1>1 DEF Between, Named
<1>2. CASE Walk
  <2>1. PICK x : Between([world EXCEPT ![Actor].loc = world[x].target], modules)
    BY <1>2 DEF Walk
  <2>2. DOMAIN [world EXCEPT ![Actor].loc = world[x].target] = DOMAIN world
    OBVIOUS
  <2> QED BY <1>1, <2>1, <2>2
<1>3. CASE Disconnect
  <2>1. Between([world EXCEPT ![Actor].tags = @ \cup {"offline"}], modules)
    BY <1>3 DEF Disconnect
  <2>2. DOMAIN [world EXCEPT ![Actor].tags = @ \cup {"offline"}] = DOMAIN world
    OBVIOUS
  <2> QED BY <1>1, <2>1, <2>2
<1>4. CASE Reconnect
  <2>1. Between([world EXCEPT ![Actor].tags = @ \ {"offline"}], modules)
    BY <1>4 DEF Reconnect
  <2>2. DOMAIN [world EXCEPT ![Actor].tags = @ \ {"offline"}] = DOMAIN world
    OBVIOUS
  <2> QED BY <1>1, <2>1, <2>2
<1>5. CASE WriteLib \/ ImportOverRest
  <2>1. PICK o, c, m : Between([world EXCEPT ![o].libs[c.k] = c.v[1]], m)
    BY <1>5 DEF WriteLib, ImportOverRest
  <2>2. DOMAIN [world EXCEPT ![o].libs[c.k] = c.v[1]] = DOMAIN world
    OBVIOUS
  <2> QED BY <1>1, <2>1, <2>2
<1>6. CASE ReloadModules
  BY <1>1, <1>6 DEF ReloadModules
<1>7. CASE CallRequire
  BY <1>7 DEF CallRequire, Named
<1> QED BY <1>2, <1>3, <1>4, <1>5, <1>6, <1>7 DEF Libraries

LEMMA NextIsNamed == Inv /\ Named /\ [Next]_vars => Named'
<1> SUFFICES ASSUME Inv, Named, [Next]_vars PROVE Named'
  OBVIOUS
<1>1. ASSUME UNCHANGED <<world, nextId, chosen>> PROVE Named'
  BY <1>1 DEF Named
<1>2. UNCHANGED vars => UNCHANGED <<world, nextId, chosen>>
  BY DEF vars
<1>3. ASSUME SpawnAs, UNCHANGED <<world, nextId>> PROVE Named'
  <2>1. PICK c \in Says("spawn_as") : chosen' = chosen \cup {c.v[1]}
    BY <1>3 DEF SpawnAs, Called
  <2>2. c.v[1] # Nobody
    BY CallsAreCalls DEF IsCall
  <2> QED BY <1>3, <2>1, <2>2 DEF Named
<1>4. CASE Values \/ Effects \/ Places \/ Stories
  <2>1. UNCHANGED <<world, nextId>> /\ (chosen' = chosen \/ SpawnAs)
    BY <1>4, CallsChoose
  <2> QED BY <1>1, <1>3, <2>1
<1> QED BY <1>1, <1>2, <1>4, RunIsNamed, OthersAreNamed DEF Next

LEMMA EveryoneIsNamed == Spec => []Named
  BY NamedInit, NextIsNamed, Invariance, PTL DEF Spec
-----------------------------------------------------------------------------
(* What scripts read back of what they wrote *)

(* An object of a batch that has gone through; v is the world after it. *)
Foretold(v, o) ==
    /\ Apply(world, batch).ok /\ v = Apply(world, batch).w
    /\ \A i \in DOMAIN batch : batch[i].op \notin {"transfer", "arch", "detach"}
    /\ o \in DOMAIN world
    /\ \A j \in 1..ArchetypeDepth : \A i \in DOMAIN batch : batch[i].t # Line(world, o)[j]
    /\ ~Exists(world, Line(world, o)[ArchetypeDepth])
    /\ \A i \in DOMAIN batch : batch[i].op = "destroy" => batch[i].t # o
Written(o, f, k) == {i \in 1..Len(batch) : Writes(batch[i], o, f, k)}

LEMMA ForetoldIs ==
    ASSUME Inv, Named, NEW v, NEW o, Foretold(v, o)
    PROVE  /\ Beside(world, v, o) /\ o # Nobody
           /\ \A f \in Texts3, k \in AttrKeys :
                 Own(v, o, f, k) = IF Written(o, f, k) = {} THEN Own(world, o, f, k)
                                   ELSE Given(batch[Max(Written(o, f, k))], f)
           /\ Nobody \notin DOMAIN world /\ Line(world, o)[ArchetypeDepth] \notin DOMAIN world
<1>1. IsSeq(batch) /\ DOMAIN batch = 1..Len(batch)
  BY DEF Inv, Numbered, IsSeq
<1>2. o \in DOMAIN world /\ Framed(world[o])
  BY DEF Foretold, Inv, Sound, Shaped, Framed
<1>3. \A i \in 1..Len(batch) : Foreseen(batch[i], o)
  BY <1>1 DEF Foretold, Foreseen
<1>4. Apply(world, batch).ok /\ v = Apply(world, batch).w
  BY DEF Foretold
<1>5. /\ o \in DOMAIN v /\ v[o].arch = world[o].arch
      /\ \A f \in Texts3, k \in AttrKeys :
            LET T == {i \in 1..Len(batch) : Writes(batch[i], o, f, k)}
            IN  Own(v, o, f, k) = IF T = {} THEN Own(world, o, f, k) ELSE Given(batch[Max(T)], f)
  <2> DEFINE b == batch
             w == world
  <2>1. IsSeq(b) /\ Apply(w, b).ok /\ o \in DOMAIN w /\ Framed(w[o]) /\ \A i \in 1..Len(b) : Foreseen(b[i], o)
    BY <1>1, <1>2, <1>3, <1>4
  <2> HIDE DEF b, w
  <2>2. /\ o \in DOMAIN Apply(w, b).w /\ Apply(w, b).w[o].arch = w[o].arch
        /\ \A f \in Texts3, k \in AttrKeys :
              LET T == {i \in 1..Len(b) : Writes(b[i], o, f, k)}
              IN  Own(Apply(w, b).w, o, f, k) = IF T = {} THEN Own(w, o, f, k) ELSE Given(b[Max(T)], f)
    BY <2>1, BatchUpholds
  <2> QED BY <1>4, <2>2 DEF b, w
<1>6. ASSUME NEW j \in 1..ArchetypeDepth
      PROVE  /\ Line(world, o)[j] \in DOMAIN v <=> Line(world, o)[j] \in DOMAIN world
             /\ Line(world, o)[j] \in DOMAIN world => v[Line(world, o)[j]] = world[Line(world, o)[j]]
  <2> DEFINE q == Line(world, o)[j]
  <2>1. \A i \in 1..Len(batch) : batch[i].op # "transfer" /\ batch[i].t # q
    BY <1>1 DEF Foretold
  <2> HIDE DEF q
  <2>2. (q \in DOMAIN v <=> q \in DOMAIN world) /\ (q \in DOMAIN world => v[q] = world[q])
    BY <1>1, <1>4, <2>1, BatchSpares
  <2> QED BY <2>2 DEF q
<1>7. Beside(world, v, o)
  BY <1>2, <1>5, <1>6 DEF Beside
<1>8. o # Nobody /\ Nobody \notin DOMAIN world
  BY <1>2 DEF Named
<1>9. Line(world, o)[ArchetypeDepth] \notin DOMAIN world
  BY DEF Foretold, Exists
<1> QED BY <1>5, <1>7, <1>8, <1>9 DEF Written

(* Which write is the last, api.rs finds by looking through the batch. *)
LEMMA LastWritten ==
    ASSUME Inv, NEW o
    PROVE  /\ \A f \in Texts3 : \A k : Written(o, f, k) # {} => Max(Written(o, f, k)) \in Written(o, f, k)
           /\ \A f \in Texts3 : \A k : \A i \in Written(o, f, k) : i \in 1..Len(batch) /\ i # 0
           /\ \A k : LastWrite(batch, o, k) = IF Written(o, "attr", k) = {} THEN 0 ELSE Max(Written(o, "attr", k))
           /\ \A k : LastText(batch, "title", o) = IF Written(o, "title", k) = {} THEN 0 ELSE Max(Written(o, "title", k))
           /\ \A k : LastText(batch, "desc", o) = IF Written(o, "desc", k) = {} THEN 0 ELSE Max(Written(o, "desc", k))
<1>1. DOMAIN batch = 1..Len(batch) /\ Len(batch) \in Nat
  BY DEF Inv, Numbered, IsSeq
<1>2. ASSUME NEW f, NEW k, Written(o, f, k) # {} PROVE Max(Written(o, f, k)) \in Written(o, f, k)
  <2>1. Written(o, f, k) \in SUBSET (1..Len(batch))
    BY DEF Written
  <2> QED BY <1>1, <1>2, <2>1, GreatestIn
<1>3. ASSUME NEW f, NEW k, NEW i \in Written(o, f, k) PROVE i \in 1..Len(batch) /\ i # 0
  BY <1>1 DEF Written
<1>4. ASSUME NEW k
      PROVE  LastWrite(batch, o, k) = IF Written(o, "attr", k) = {} THEN 0 ELSE Max(Written(o, "attr", k))
  <2>1. {i \in DOMAIN batch : batch[i].op = "attr" /\ batch[i].t = o /\ batch[i].k = k} = Written(o, "attr", k)
    BY <1>1 DEF Written, Writes
  <2> QED BY <2>1 DEF LastWrite
<1>5. ASSUME NEW f \in {"title", "desc"}, NEW k
      PROVE  LastText(batch, f, o) = IF Written(o, f, k) = {} THEN 0 ELSE Max(Written(o, f, k))
  <2>1. {i \in DOMAIN batch : batch[i].op = f /\ batch[i].t = o} = Written(o, f, k)
    BY <1>1 DEF Written, Writes
  <2> QED BY <2>1 DEF LastText
<1> QED BY <1>2, <1>3, <1>4, <1>5

LEMMA TextsAreRead ==
    ASSUME Inv, Named, NEW v, NEW o, Foretold(v, o)
    PROVE  /\ TitleOf(batch, world, o) = ResolvedTitle(v, o)
           /\ DescriptionOf(batch, world, o) \in {NoWord, ResolvedDescription(v, o)}
<1> DEFINE k == "gold"
<1>1. k \in AttrKeys
  BY GoldIsKey
<1> HIDE DEF k
<1>2. Beside(world, v, o) /\ o # Nobody
  BY ForetoldIs
<1>3. ASSUME NEW f \in {"title", "desc"}
      PROVE  /\ LastText(batch, f, o) = 0 => Resolved(v, o, f, k) = Resolved(world, o, f, k)
             /\ LastText(batch, f, o) # 0 =>
                   LET x == batch[LastText(batch, f, o)]
                   IN  (x.k = NoWord /\ f = "desc") \/ Resolved(v, o, f, k) = x.k
  <2> DEFINE T == Written(o, f, k)
             i == LastText(batch, f, o)
             x == batch[Max(T)].k
  <2>1. f \in Texts3 /\ f # "attr"
    BY DEF Texts3
  <2>2. i = IF T = {} THEN 0 ELSE Max(T)
    BY LastWritten
  <2>3. T # {} => Max(T) \in T /\ Max(T) \in 1..Len(batch) /\ Max(T) # 0
    BY <2>1, LastWritten
  <2>4. Own(v, o, f, k) = IF T = {} THEN Own(world, o, f, k) ELSE x
    BY <1>1, <2>1, ForetoldIs DEF Given
  <2>5. T # {} /\ f = "title" => x # NoWord
    <3>1. \A j \in T : j \in 1..Len(batch) /\ batch[j].op = f
      BY DEF Written, Writes
    <3>2. \A j \in 1..Len(batch) : Sane(batch[j])
      BY DEF Inv, Numbered
    <3> HIDE DEF T
    <3> QED BY <2>3, <3>1, <3>2 DEF Sane
  <2>6. None(f) = NoWord
    BY <2>1 DEF None
  <2> HIDE DEF T, x, i
  <2>7. /\ T = {} => Resolved(v, o, f, k) = Resolved(world, o, f, k)
        /\ T # {} /\ x # None(f) => Resolved(v, o, f, k) = x
    <3>1. CASE T = {}
      BY <1>2, <2>1, <2>4, <3>1, UnwrittenReads
    <3>2. CASE T # {} /\ x # None(f)
      BY <1>2, <2>4, <3>2, WrittenReads DEF Beside
    <3> QED BY <3>1, <3>2
  <2>8. i # 0 => batch[i].k = x
    BY <2>2 DEF x
  <2>9. i = 0 => T = {}
    BY <2>2, <2>3
  <2>10. i # 0 => T # {}
    BY <2>2
  <2> QED BY <2>5, <2>6, <2>7, <2>8, <2>9, <2>10 DEF i
<1>4. TitleOf(batch, world, o) = ResolvedTitle(v, o)
  <2>1. ResolvedTitle(v, o) = Resolved(v, o, "title", k) /\ ResolvedTitle(world, o) = Resolved(world, o, "title", k)
    BY ResolvedIs
  <2> QED BY <1>3, <2>1 DEF TitleOf
<1>5. DescriptionOf(batch, world, o) \in {NoWord, ResolvedDescription(v, o)}
  <2>1. /\ ResolvedDescription(v, o) = Resolved(v, o, "desc", k)
        /\ ResolvedDescription(world, o) = Resolved(world, o, "desc", k)
    BY ResolvedIs
  <2> QED BY <1>3, <2>1 DEF DescriptionOf
<1> QED BY <1>4, <1>5

LEMMA AttributesAreRead ==
    ASSUME Inv, Named, NEW v, NEW o, Foretold(v, o), NEW k \in AttrKeys
    PROVE  /\ GetAttr(batch, world, o, k) = ResolvedAttr(v, o, k)
           /\ HasAttr(batch, world, o, k) =>
                 \A slot \in 1..2 : Pick(batch, world, o, k, slot) = <<ResolvedAttr(v, o, k)[slot]>>
<1> DEFINE T == Written(o, "attr", k)
           i == LastWrite(batch, o, k)
           x == batch[Max(T)].v
<1>1. Beside(world, v, o) /\ o # Nobody /\ Nobody \notin DOMAIN world /\ Line(world, o)[ArchetypeDepth] \notin DOMAIN world
  BY ForetoldIs
<1>2. i = IF T = {} THEN 0 ELSE Max(T)
  BY LastWritten
<1>3. T # {} => Max(T) # 0
  BY LastWritten DEF Texts3
<1>4. Own(v, o, "attr", k) = IF T = {} THEN Own(world, o, "attr", k) ELSE x
  BY ForetoldIs DEF Given, Texts3
<1>5. None("attr") = Unset /\ "attr" \in Texts3
  BY DEF None, Texts3
<1>6. /\ ResolvedAttr(v, o, k) = Resolved(v, o, "attr", k)
      /\ ResolvedAttr(world, o, k) = Resolved(world, o, "attr", k)
      /\ ResolvedAttr(world, world[o].arch, k) = Resolved(world, world[o].arch, "attr", k)
  BY ResolvedIs
<1>7. i # 0 => batch[i].v = x
  BY <1>2
<1>8. Exists(world, o)
  BY <1>1 DEF Beside, Exists
<1> HIDE DEF T, i, x
<1>9. /\ T = {} => ResolvedAttr(v, o, k) = ResolvedAttr(world, o, k)
      /\ T # {} /\ x # Unset => ResolvedAttr(v, o, k) = x
      /\ T # {} /\ x = Unset => ResolvedAttr(v, o, k) = ResolvedAttr(world, world[o].arch, k)
  <2>1. CASE T = {}
    BY <1>1, <1>4, <1>5, <1>6, <2>1, UnwrittenReads
  <2>2. CASE T # {} /\ x # Unset
    BY <1>1, <1>4, <1>5, <1>6, <2>2, WrittenReads DEF Beside
  <2>3. CASE T # {} /\ x = Unset
    BY <1>1, <1>4, <1>5, <1>6, <2>3, ErasedReads
  <2> QED BY <2>1, <2>2, <2>3
<1>10. i = 0 <=> T = {}
  BY <1>2, <1>3
<1>11. GetAttr(batch, world, o, k) = IF i # 0 /\ batch[i].v # Unset THEN batch[i].v
                                     ELSE IF i # 0 THEN IF Exists(world, o) THEN ResolvedAttr(world, world[o].arch, k) ELSE Unset
                                     ELSE ResolvedAttr(world, o, k)
  BY DEF GetAttr, i
<1>12. GetAttr(batch, world, o, k) = ResolvedAttr(v, o, k)
  BY <1>7, <1>8, <1>9, <1>10, <1>11
<1>13. ASSUME HasAttr(batch, world, o, k), NEW slot \in 1..2
       PROVE  Pick(batch, world, o, k, slot) = <<ResolvedAttr(v, o, k)[slot]>>
  <2> DEFINE root == IF i # 0 THEN batch[i].v ELSE ResolvedAttr(world, o, k)
  <2>1. root # Unset
    BY <1>13 DEF HasAttr, i
  <2>2. Pick(batch, world, o, k, slot) = IF root = Unset THEN Unset ELSE <<root[slot]>>
    BY DEF Pick, i
  <2>3. root = ResolvedAttr(v, o, k)
    BY <1>7, <1>9, <1>10, <2>1
  <2> HIDE DEF root
  <2> QED BY <2>1, <2>2, <2>3
<1> QED BY <1>12, <1>13

LEMMA InvImpliesReadsSeeOwnWrites == Inv /\ Named => ReadsSeeOwnWrites
<1> SUFFICES ASSUME Inv, Named PROVE ReadsSeeOwnWrites
  OBVIOUS
<1> DEFINE done == Apply(world, batch)
           v == done.w
<1>1. ASSUME NEW o, Foretold(v, o)
      PROVE  /\ TitleOf(batch, world, o) = ResolvedTitle(v, o)
             /\ DescriptionOf(batch, world, o) \in {NoWord, ResolvedDescription(v, o)}
             /\ \A k \in AttrKeys :
                   /\ GetAttr(batch, world, o, k) = ResolvedAttr(v, o, k)
                   /\ HasAttr(batch, world, o, k) =>
                         \A slot \in 1..2 : Pick(batch, world, o, k, slot) = <<ResolvedAttr(v, o, k)[slot]>>
  <2> HIDE DEF v
  <2> QED BY <1>1, TextsAreRead, AttributesAreRead
<1>2. done = Apply(world, batch)
  OBVIOUS
<1> HIDE DEF done
<1> QED BY <1>1, <1>2 DEF ReadsSeeOwnWrites, Foretold

(* What a script reads of an object it has written to, however often, and of  *)
(* its title, description and attributes, is what the world says of it once   *)
(* the batch is applied, through the object's archetypes and all, except      *)
(* after the operations ReadsSeeOwnWrites leaves out: pending_attr,           *)
(* pending_title and pending_description foresee apply_to.                    *)
THEOREM ScriptsReadTheirOwnWrites == Spec => []ReadsSeeOwnWrites
  BY Invariance, EveryoneIsNamed, InvImpliesReadsSeeOwnWrites, PTL
-----------------------------------------------------------------------------
(* What is saved of the story *)
Of(w) == IF This \in DOMAIN w THEN w[This].attrs["story"] ELSE Unset

LEMMA StoryIsKey == "story" \in AttrKeys /\ This # Nobody
  BY SoftcodeAssumption DEF OwnKeys

(* An intent that writes it, saves it; another leaves it as it is, if there   *)
(* is any.                                                                    *)
LEMMA StoryTurn ==
    ASSUME NEW w, Sound(w), NEW x, Accepts(w, x), ~Meddles(x)
    PROVE  /\ Writes(x, This, "attr", "story") => Of(Changed(w, x)) = x.v
           /\ ~Writes(x, This, "attr", "story") => Of(Changed(w, x)) = Of(w) \/ Of(w) = Unset
<1> DEFINE v == Changed(w, x)
           Left == Of(v) = Of(w) \/ Of(w) = Unset
<1>1. "story" \in AttrKeys /\ This # Nobody
  BY StoryIsKey
<1>2. CASE x.op = "transfer"
  <2> DEFINE take == <<Amount(w, x.t, x.k) - x.v[1], 0>>
             give == <<(IF w[x.r].attrs[x.k] = Unset THEN 0 ELSE Amount(w, x.r, x.k)) + x.v[1], 0>>
             half == [w EXCEPT ![x.t].attrs[x.k] = take]
  <2>1. v = [half EXCEPT ![x.r].attrs[x.k] = give]
    BY <1>2 DEF Changed, Transferred
  <2> HIDE DEF take, give, v
  <2>2. x.k # "story"
    BY <1>2 DEF Meddles
  <2>3. \A o \in DOMAIN w : {"attrs"} \subseteq DOMAIN w[o] /\ DOMAIN w[o].attrs = AttrKeys
    BY DEF Sound, Shaped
  <2>4. \A o \in DOMAIN w : /\ {"attrs"} \subseteq DOMAIN half[o] /\ DOMAIN half[o].attrs = AttrKeys
                            /\ half[o].attrs["story"] = w[o].attrs["story"]
    BY <1>1, <2>2, <2>3
  <2>5. DOMAIN half = DOMAIN w
    OBVIOUS
  <2> HIDE DEF half
  <2>6. Of(v) = Of(w)
    BY <1>1, <2>1, <2>2, <2>4, <2>5 DEF Of
  <2> QED BY <1>2, <2>6 DEF Writes, v
<1>3. CASE x.op # "transfer" /\ x.t # This
  <2>1. (This \in DOMAIN v <=> This \in DOMAIN w) /\ (This \in DOMAIN w => v[This] = w[This])
    BY <1>3, ChangedSpares
  <2> HIDE DEF v
  <2>2. Of(v) = Of(w) /\ ~Writes(x, This, "attr", "story")
    BY <1>3, <2>1 DEF Of, Writes
  <2> QED BY <2>2 DEF v
<1>4. CASE This \in DOMAIN w /\ Foreseen(x, This)
  <2>1. Framed(w[This])
    BY <1>4 DEF Sound, Shaped, Framed
  <2>2. This \in DOMAIN v /\ Upheld(w, v, x, This)
    BY <1>4, <2>1, ChangedUpholds
  <2> HIDE DEF v
  <2>3. Own(v, This, "attr", "story") =
            IF Writes(x, This, "attr", "story") THEN Given(x, "attr") ELSE Own(w, This, "attr", "story")
    BY <1>1, <2>2 DEF Upheld, Texts3
  <2> QED BY <1>4, <2>2, <2>3 DEF Own, Of, Given, v
<1>5. CASE This \in DOMAIN w /\ x.t = This /\ x.op = "arch"
  <2>1. v = [w EXCEPT ![This].arch = x.r]
    BY <1>5 DEF Changed
  <2> HIDE DEF v
  <2>2. {"attrs"} \subseteq DOMAIN w[This]
    BY <1>5 DEF Sound, Shaped
  <2>3. Of(v) = Of(w)
    BY <1>5, <2>1, <2>2 DEF Of
  <2> QED BY <1>5, <2>3 DEF Writes, v
<1>6. CASE This \in DOMAIN w /\ x.t = This /\ x.op = "detach"
  <2> DEFINE own == w[This].attrs["story"]
             attrs == [k \in AttrKeys |-> ResolvedAttr(w, This, k)]
             title == ResolvedTitle(w, This)
             desc == ResolvedDescription(w, This)
             tags == {g \in UNION {w[o].tags : o \in DOMAIN w} : HasTag(w, This, g)}
  <2>1. v = w \/ v = [w EXCEPT ![This] = Detached(w, This)]
    BY <1>6 DEF Changed
  <2>2. Detached(w, This) = [w[This] EXCEPT !.arch = Nobody, !.title = title, !.desc = desc, !.attrs = attrs, !.tags = tags]
    BY DEF Detached
  <2>3. {"attrs", "arch", "title", "desc"} \subseteq DOMAIN w[This]
    BY <1>6 DEF Sound, Shaped
  <2>4. own # Unset => attrs["story"] = own
    <3>1. Own(w, This, "attr", "story") = own /\ None("attr") = Unset
      BY DEF Own, None
    <3>2. ResolvedAttr(w, This, "story") = Resolved(w, This, "attr", "story")
      BY ResolvedIs
    <3> HIDE DEF own
    <3>3. own # Unset => Resolved(w, This, "attr", "story") = own
      BY <1>1, <1>6, <3>1, WrittenReads
    <3> QED BY <1>1, <3>2, <3>3
  <2> HIDE DEF v, title, desc, attrs, tags
  <2>5. Detached(w, This).attrs = attrs
    BY <2>2, <2>3
  <2>6. Of(w) = own /\ (Of(v) = own \/ Of(v) = attrs["story"])
    BY <1>6, <2>1, <2>5 DEF Of
  <2>7. Of(v) = Of(w) \/ Of(w) = Unset
    BY <2>4, <2>6
  <2> QED BY <1>6, <2>7 DEF Writes, v
<1>7. CASE This \notin DOMAIN w /\ x.t = This
  <2>1. Of(w) = Unset /\ x.op # "attr"
    BY <1>7 DEF Of, Accepts, Exists
  <2> QED BY <2>1 DEF Writes
<1>8. x.op # "destroy" \/ x.t # This
  BY DEF Meddles
<1> QED BY <1>2, <1>3, <1>4, <1>5, <1>6, <1>7, <1>8 DEF Foreseen
(* What the batch saves: its last write, or what is saved already.            *)
Saves == IF Written(This, "attr", "story") = {} THEN Of(world)
         ELSE batch[Max(Written(This, "attr", "story"))].v

LEMMA StoryBatch ==
    ASSUME Inv, Apply(world, batch).ok, \A i \in DOMAIN batch : ~Meddles(batch[i])
    PROVE  Of(Apply(world, batch).w) = Saves \/ Saves = Unset
<1> DEFINE N == Len(batch)
           b == batch
           T == Written(This, "attr", "story")
           Free == {Unset}
<1>1. IsSeq(b) /\ DOMAIN b = 1..N /\ Sound(world) /\ \A i \in 1..N : Sane(b[i])
  BY DEF Inv, Numbered, IsSeq
<1>2. PICK u : u[0].w = world /\ Apply(world, b) = u[N] /\ \A i \in 1..N : u[i] = Then(u[i - 1], b[i])
  BY <1>1, ApplyTurns
<1>3. N \in Nat
  BY <1>1, ApplyTurns
<1>4. u[N].ok /\ T = {i \in 1..N : Writes(b[i], This, "attr", "story")} /\ \A i \in 1..N : ~Meddles(b[i])
  BY <1>1, <1>2 DEF Written
<1> HIDE DEF N, b, T
<1>5. \A i \in 1..N : Accepts(u[i - 1].w, b[i]) /\ u[i].w = Changed(u[i - 1].w, b[i])
  <2>1. \A i \in 1..N : u[i] = Then(u[i - 1], b[i])
    BY <1>2
  <2> QED BY <1>3, <1>4, <2>1, AllAccepted
<1> DEFINE S == {i \in 0..N : Sound(u[i].w)}
<1>6. \A i \in 0..N : i \in S
  <2>1. 0 \in S
    BY <1>1, <1>2, <1>3
  <2>2. ASSUME NEW i \in 1..N, i - 1 \in S PROVE i \in S
    <3> DEFINE v == u[i - 1].w
               x == b[i]
    <3>1. Sound(v) /\ Accepts(v, x) /\ Sane(x) /\ u[i].w = Changed(v, x)
      BY <1>1, <1>5, <2>2
    <3> HIDE DEF v, x
    <3>2. Sound(Changed(v, x))
      BY <3>1, ChangedIsSound
    <3> QED BY <3>1, <3>2
  <2> HIDE DEF S
  <2> QED BY <1>3, <2>1, <2>2, Climb
<1> DEFINE f == [i \in 0..N |-> Of(u[i].w)]
           g == [i \in 1..N |-> b[i].v]
<1>7. Stays(N, f, g, T, Free)
  <2>1. ASSUME NEW i \in 1..N
        PROVE  /\ i \in T => f[i] = g[i]
               /\ i \notin T => f[i] = f[i - 1] \/ f[i - 1] \in Free
    <3> DEFINE v == u[i - 1].w
               x == b[i]
    <3>1. i \in 0..N /\ i - 1 \in 0..N
      BY <1>3
    <3>2. Sound(v) /\ Accepts(v, x) /\ u[i].w = Changed(v, x) /\ ~Meddles(x)
      BY <1>4, <1>5, <1>6, <3>1
    <3>3. f[i] = Of(u[i].w) /\ f[i - 1] = Of(v) /\ g[i] = x.v /\ (i \in T <=> Writes(x, This, "attr", "story"))
      BY <1>4, <3>1
    <3> HIDE DEF v, x, f, g
    <3>4. /\ Writes(x, This, "attr", "story") => Of(Changed(v, x)) = x.v
          /\ ~Writes(x, This, "attr", "story") => Of(Changed(v, x)) = Of(v) \/ Of(v) = Unset
      BY <3>2, StoryTurn
    <3> QED BY <3>2, <3>3, <3>4
  <2> HIDE DEF f, g
  <2> QED BY <2>1 DEF Stays
<1>8. f[0] = Of(world) /\ f[N] = Of(u[N].w) /\ \A i \in 1..N : g[i] = b[i].v
  BY <1>2, <1>3
<1>9. T \in SUBSET (1..N)
  BY <1>4
<1> HIDE DEF f, g
<1>10. /\ T = {} => f[N] = f[0] \/ f[0] \in Free
       /\ T # {} => f[N] = g[Max(T)] \/ g[Max(T)] \in Free
  <2> HIDE DEF Free
  <2> QED BY <1>3, <1>7, <1>9, LastStays
<1>11. T # {} => Max(T) \in 1..N
  BY <1>3, <1>9, GreatestIn
<1>12. Saves = IF T = {} THEN Of(world) ELSE b[Max(T)].v
  BY DEF Saves, T, b
<1>13. f[N] = Saves \/ Saves = Unset
  BY <1>8, <1>10, <1>11, <1>12
<1>14. Apply(world, batch) = u[N]
  BY <1>2 DEF b
<1> QED BY <1>8, <1>13, <1>14

(* How far a story has come is the further of two numbers.                    *)
Point(v) == IF IsPlace(v) THEN v[1] ELSE 0
PointOf(b, w) == Point(IF LastWrite(b, This, "story") # 0 THEN b[LastWrite(b, This, "story")].v ELSE Of(w))

LEMMA PointIsNat == \A b, w : PointOf(b, w) \in Nat
  BY DEF PointOf, Point, IsPlace

LEMMA SavedPointIs == SavedPoint = PointOf(batch, world) /\ SavedPoint' = PointOf(batch', world')
<1>1. \A w : Exists(w, This) <=> This \in DOMAIN w
  BY DEF Exists
<1> QED BY <1>1 DEF SavedPoint, PointOf, Point, Of

LEMMA FurtherOf ==
    ASSUME NEW a \in Nat, NEW b \in Nat
    PROVE  Max({a, b}) = IF a <= b THEN b ELSE a
<1> DEFINE T == {a, b}
<1>1. T \in SUBSET Nat /\ (\A m \in T : m = a \/ m = b) /\ a \in T /\ b \in T
  OBVIOUS
<1> HIDE DEF T
<1>2. CASE a <= b
  <2>1. \A m \in T : m <= b
    BY <1>1, <1>2
  <2> QED BY <1>1, <1>2, <2>1, MostOf DEF T
<1>3. CASE ~(a <= b)
  <2>1. \A m \in T : m <= a
    BY <1>1, <1>3
  <2> QED BY <1>1, <1>3, <2>1, MostOf DEF T
<1> QED BY <1>2, <1>3

(* Where the batch begins, nothing is written; where it grows, its last write *)
(* stays or is a later one.                                                   *)
LEMMA NothingWritten == LastWrite(<<>>, This, "story") = 0
  BY DEF LastWrite

LEMMA LastWriteGrows ==
    ASSUME NEW b, IsSeq(b), NEW s, IsSeq(s)
    PROVE  \/ LastWrite(b, This, "story") < LastWrite(b \o s, This, "story")
           \/ \A w : PointOf(b \o s, w) = PointOf(b, w)
<1> DEFINE c == b \o s
           Is(y) == y.op = "attr" /\ y.t = This /\ y.k = "story"
           T == {i \in 1..Len(b) : Is(b[i])}
           U == {i \in 1..Len(c) : Is(c[i])}
           m == LastWrite(b, This, "story")
           n == LastWrite(c, This, "story")
<1>1. /\ IsSeq(c) /\ Len(c) = Len(b) + Len(s)
      /\ \A i \in 1..Len(b) : c[i] = b[i]
  BY Concat
<1>2. Len(b) \in Nat /\ Len(c) \in Nat /\ Len(s) \in Nat /\ DOMAIN b = 1..Len(b) /\ DOMAIN c = 1..Len(c)
  BY <1>1 DEF IsSeq
<1>3. m = (IF T = {} THEN 0 ELSE Max(T)) /\ n = (IF U = {} THEN 0 ELSE Max(U))
  BY <1>2 DEF LastWrite
<1> HIDE DEF c
<1>4. T \in SUBSET (1..Len(b)) /\ U \in SUBSET (1..Len(c)) /\ \A i \in 1..Len(b) : i \in T <=> i \in U
  BY <1>1, <1>2
<1> HIDE DEF T, U, m, n
<1>5. T # {} => m \in T
  BY <1>2, <1>3, <1>4, GreatestIn
<1>6. ASSUME U # {} PROVE n \in U /\ \A i \in U : i <= n
  <2>1. n \in U
    BY <1>2, <1>3, <1>4, <1>6, GreatestIn
  <2>2. PICK l \in U : \A i \in U : i <= l
    BY <1>2, <1>4, <1>6, Greatest
  <2>3. U \in SUBSET Nat
    BY <1>4
  <2>4. n = l
    BY <1>3, <1>6, <2>2, <2>3, MostOf
  <2> QED BY <2>2, <2>4
<1>7. CASE U = {}
  <2>1. m = 0 /\ n = 0
    BY <1>3, <1>4, <1>7
  <2> QED BY <2>1 DEF PointOf, m, n, c
<1>8. CASE U # {} /\ T = {}
  <2>1. m = 0 /\ n \in 1..Len(c)
    BY <1>3, <1>4, <1>6, <1>8
  <2>2. m < n
    BY <1>2, <2>1
  <2> QED BY <2>2 DEF m, n, c
<1>9. CASE U # {} /\ T # {}
  <2>1. m \in 1..Len(b) /\ n \in 1..Len(c) /\ m <= n
    BY <1>2, <1>4, <1>5, <1>6, <1>9
  <2>2. CASE m = n
    <3>1. c[n] = b[m]
      BY <1>1, <2>1, <2>2
    <3>2. m # 0 /\ n # 0
      BY <2>1
    <3>3. \A w : PointOf(c, w) = Point(c[n].v) /\ PointOf(b, w) = Point(b[m].v)
      BY <3>2 DEF PointOf, m, n
    <3> QED BY <3>1, <3>3 DEF c
  <2>3. CASE m # n
    <3>1. m < n
      BY <1>2, <2>1, <2>3
    <3> QED BY <3>1 DEF m, n, c
  <2> QED BY <2>2, <2>3
<1> QED BY <1>7, <1>8, <1>9

LEMMA SavesAre == Inv => PointOf(batch, world) = Point(Saves)
<1> SUFFICES ASSUME Inv PROVE PointOf(batch, world) = Point(Saves)
  OBVIOUS
<1> DEFINE T == Written(This, "attr", "story")
<1>1. /\ LastWrite(batch, This, "story") = IF T = {} THEN 0 ELSE Max(T)
      /\ T # {} => Max(T) \in T /\ Max(T) # 0
  BY LastWritten DEF Texts3
<1>2. Saves = IF T = {} THEN Of(world) ELSE batch[Max(T)].v
  BY DEF Saves
<1> HIDE DEF T
<1> QED BY <1>1, <1>2 DEF PointOf

LEMMA LastWriteIs ==
    ASSUME NEW b, IsSeq(b), NEW x, x.op = "attr", x.t = This, x.k = "story", NEW w
    PROVE  PointOf(b \o <<x>>, w) = Point(x.v)
<1> DEFINE s == <<x>>
           c == b \o s
           n == Len(b) + 1
           U == {i \in DOMAIN c : c[i].op = "attr" /\ c[i].t = This /\ c[i].k = "story"}
<1>1. IsSeq(s) /\ Len(s) = 1 /\ s[1] = x
  BY OneIsSeq
<1> HIDE DEF s
<1>2. /\ IsSeq(c) /\ Len(b) \in Nat /\ Len(c) = Len(b) + Len(s)
      /\ \A i \in (Len(b) + 1)..(Len(b) + Len(s)) : i - Len(b) \in 1..Len(s) /\ c[i] = s[i - Len(b)]
  BY <1>1, Concat
<1> HIDE DEF c
<1>3. DOMAIN c = 1..n /\ n \in Nat /\ n # 0 /\ c[n] = x
  <2>1. n \in (Len(b) + 1)..(Len(b) + Len(s)) /\ n - Len(b) = 1
    BY <1>1, <1>2
  <2>2. c[n] = s[1]
    BY <1>2, <2>1
  <2> QED BY <1>1, <1>2, <2>2 DEF IsSeq
<1> HIDE DEF n
<1>4. U \in SUBSET Nat /\ n \in U /\ \A i \in U : i <= n
  BY <1>3
<1>5. LastWrite(c, This, "story") = IF U = {} THEN 0 ELSE Max(U)
  BY DEF LastWrite
<1> HIDE DEF U
<1>6. Max(U) = n
  BY <1>4, MostOf
<1>7. LastWrite(c, This, "story") = n
  BY <1>4, <1>5, <1>6
<1>8. PointOf(c, w) = Point(x.v)
  BY <1>3, <1>7 DEF PointOf
<1> QED BY <1>8 DEF c, s

(* No batch outlives its script, and where a story is, is a number.           *)
StoryInv == told \in Nat /\ (running = "no" => batch = <<>>)

LEMMA StoryInitInv == Init => StoryInv
  BY DEF Init, StoryInv

LEMMA NextKeepsNumbers == Inv /\ StoryInv /\ [Next]_vars => StoryInv'
<1> SUFFICES ASSUME Inv, StoryInv, [Next]_vars PROVE StoryInv'
  OBVIOUS
<1>1. told \in Nat /\ (running = "no" => batch = <<>>)
  BY DEF StoryInv
<1>2. CASE Values \/ Effects \/ Places
  <2>1. PICK s, next, picks : Called(s, next, picks)
    BY <1>2, CallsAre
  <2> QED BY <1>1, <2>1 DEF Called, StoryInv
<1>3. CASE Stories
  <2>1. ASSUME NEW s, NEW far, Tells(s, far) PROVE told' = far /\ running # "no" /\ running' = running
    BY <2>1 DEF Tells
  <2>2. PICK s, far : Tells(s, far)
    BY <1>3, CallsAre
  <2>3. running # "no" /\ running' = running
    BY <2>1, <2>2
  <2>4. told' \in Nat
    <3>1. CASE InkStart
      <4>1. PICK saved : (saved = Unset \/ IsPlace(saved)) /\ told' = IF saved = Unset THEN 1 ELSE saved[1]
        BY <2>1, <3>1 DEF InkStart
      <4> QED BY <4>1 DEF IsPlace
    <3>2. CASE InkContinue \/ InkSetVar
      BY <1>1, <2>1, <3>2 DEF InkContinue, InkSetVar
    <3>3. CASE InkChoose
      BY <1>1, <2>1, <3>3 DEF InkChoose
    <3>4. CASE InkGoto
      <4>1. PICK c \in Says("ink_goto") : told' = c.v[1]
        BY <2>1, <3>4 DEF InkGoto
      <4> QED BY <4>1, CallsAreCalls DEF IsCall
    <3>5. CASE InkEnd
      BY <2>1, <3>5 DEF InkEnd
    <3> QED BY <1>3, <3>1, <3>2, <3>3, <3>4, <3>5 DEF Stories
  <2> QED BY <2>3, <2>4 DEF StoryInv
<1>4. CASE Run
  <2>1. CASE RunHook \/ RunEval
    BY <1>1, <2>1 DEF RunHook, RunEval, Begins, StoryInv
  <2>2. CASE Pass \/ Return
    BY <1>1, <2>2 DEF Pass, Return, StoryInv
  <2>3. ASSUME NEW w, NEW next, NEW m, Ends(w, next, m) PROVE StoryInv'
    BY <1>1, <2>3 DEF Ends, StoryInv
  <2>4. CASE Dies \/ Finish
    BY <2>3, <2>4 DEF Dies, Finish
  <2> QED BY <1>4, <2>1, <2>2, <2>4 DEF Run
<1>5. CASE Walk \/ Disconnect \/ Reconnect \/ Libraries
  <2>1. ASSUME NEW w, NEW m, Between(w, m), told' \in {told, 0} PROVE StoryInv'
    BY <1>1, <2>1 DEF Between, script, StoryInv
  <2>2. CASE Walk \/ Reconnect
    BY <2>1, <2>2 DEF Walk, Reconnect
  <2>3. CASE Disconnect
    BY <2>1, <2>3 DEF Disconnect
  <2>4. CASE WriteLib \/ ReloadModules \/ ImportOverRest
    BY <2>1, <2>4 DEF WriteLib, ReloadModules, ImportOverRest
  <2>5. CASE CallRequire
    BY <1>1, <2>5 DEF CallRequire, script, StoryInv
  <2> QED BY <1>5, <2>2, <2>3, <2>4, <2>5 DEF Libraries
<1>6. CASE UNCHANGED vars
  BY <1>1, <1>6 DEF vars, script, StoryInv
<1> QED BY <1>2, <1>3, <1>4, <1>5, <1>6 DEF Next

LEMMA StoriesAreNumbers == Spec => []StoryInv
  BY StoryInitInv, NextKeepsNumbers, Invariance, PTL DEF Spec

(* The ways to lose it, as StoryKept names them                               *)
Loses ==
    \/ (InkStart /\ told # 0)
    \/ InkGoto
    \/ ((\E c \in Says("ink_end") : c.k # "save") /\ told' = 0 /\ batch' = batch)
    \/ (InkEnd /\ told \in 1..(SavedPoint - 1))
    \/ Disconnect
    \/ (LastWrite(batch, This, "story") # 0 /\ running' = "no" /\ world' = world)
    \/ (LastWrite(batch, This, "story") < LastWrite(batch', This, "story") /\ ~InkEnd)
    \/ (running' = "no" /\ \E i \in DOMAIN batch : Meddles(batch[i]))

(* What is told and what is saved being no less, nothing is lost.             *)
LEMMA NothingLost ==
    ASSUME told \in Nat, told' \in Nat, told <= told', SavedPoint <= SavedPoint'
    PROVE  ~(Progress' < Progress)
<1> DEFINE p == SavedPoint
           q == SavedPoint'
<1>1. p \in Nat /\ q \in Nat
  BY SavedPointIs, PointIsNat
<1>2. Progress = Max({told, p}) /\ Progress' = Max({told', q}) /\ p <= q
  BY DEF Progress
<1> HIDE DEF p, q
<1>3. /\ Max({told, p}) = IF told <= p THEN p ELSE told
      /\ Max({told', q}) = IF told' <= q THEN q ELSE told'
  BY <1>1, FurtherOf
<1> QED BY <1>1, <1>2, <1>3

LEMMA NothingSavedLess ==
    ASSUME told \in Nat, told' \in Nat, told <= told', PointOf(batch, world) = PointOf(batch', world')
    PROVE  ~(Progress' < Progress)
<1>1. SavedPoint = SavedPoint' /\ SavedPoint \in Nat
  BY SavedPointIs, PointIsNat
<1>2. SavedPoint <= SavedPoint'
  BY <1>1
<1> QED BY <1>2, NothingLost

(* What a script asks for, other than of its story: it may write over it.     *)
LEMMA CallsKeepStory ==
    ASSUME Inv, StoryInv, Grown, UNCHANGED <<world, told>>, InkEnd => batch' = batch
    PROVE  Progress' < Progress => Loses
<1>1. IsSeq(batch) /\ told \in Nat /\ told' = told /\ world' = world
  BY DEF Inv, Numbered, StoryInv
<1>2. PICK s : IsSeq(s) /\ batch' = batch \o s
  BY DEF Grown
<1>3. \/ LastWrite(batch, This, "story") < LastWrite(batch', This, "story")
      \/ PointOf(batch', world') = PointOf(batch, world)
  BY <1>1, <1>2, LastWriteGrows
<1>4. CASE PointOf(batch', world') = PointOf(batch, world)
  BY <1>1, <1>4, NothingSavedLess
<1>5. CASE LastWrite(batch, This, "story") < LastWrite(batch', This, "story")
  <2>1. CASE batch' = batch
    <3>1. PointOf(batch', world') = PointOf(batch, world)
      BY <1>1, <2>1
    <3> QED BY <1>4, <3>1
  <2>2. CASE batch' # batch
    BY <1>5, <2>2 DEF Loses
  <2> QED BY <2>1, <2>2
<1> QED BY <1>3, <1>4, <1>5

LEMMA TalesKeepStory == Inv /\ StoryInv /\ StoryInv' /\ Stories => (Progress' < Progress => Loses)
<1> SUFFICES ASSUME Inv, StoryInv, StoryInv', Stories PROVE Progress' < Progress => Loses
  OBVIOUS
<1>1. IsSeq(batch) /\ told \in Nat /\ told' \in Nat
  BY DEF Inv, Numbered, StoryInv
<1>2. ASSUME NEW far, Tells(<<>>, far)
      PROVE  told' = far /\ batch' = batch /\ PointOf(batch, world) = PointOf(batch', world')
  <2>1. told' = far /\ batch' = batch \o <<>> /\ world' = world
    BY <1>2 DEF Tells
  <2>2. batch \o <<>> = batch
    BY <1>1 DEF IsSeq
  <2> QED BY <2>1, <2>2
<1>3. ASSUME NEW far, Tells(<<>>, far), told <= far PROVE ~(Progress' < Progress)
  BY <1>1, <1>2, <1>3, NothingSavedLess
<1>4. CASE InkStart
  <2>1. PICK far : Tells(<<>>, far)
    BY <1>4 DEF InkStart
  <2>2. told = 0 => told <= far
    BY <1>1, <1>2, <2>1
  <2> QED BY <1>3, <1>4, <2>1, <2>2 DEF Loses
<1>5. CASE InkContinue
  BY <1>1, <1>3, <1>5 DEF InkContinue
<1>6. CASE InkChoose
  BY <1>1, <1>3, <1>6 DEF InkChoose
<1>7. CASE InkGoto
  BY <1>7 DEF Loses
<1>8. CASE InkSetVar
  BY <1>1, <1>3, <1>8 DEF InkSetVar
<1>9. CASE InkEnd
  <2> DEFINE x == I("attr", This, "story", <<told, 0>>, Nobody, Nobody)
  <2>1. PICK c \in Says("ink_end") : Tells(IF c.k = "save" /\ told # 0 THEN <<x>> ELSE <<>>, 0)
    BY <1>9 DEF InkEnd
  <2>2. CASE c.k = "save" /\ told # 0
    <3>1. x.op = "attr" /\ x.t = This /\ x.k = "story" /\ x.v = <<told, 0>>
      BY DEF I
    <3> HIDE DEF x
    <3>2. told' = 0 /\ batch' = batch \o <<x>>
      BY <2>1, <2>2 DEF Tells
    <3>3. PointOf(batch', world') = Point(<<told, 0>>)
      BY <1>1, <3>1, <3>2, LastWriteIs
    <3>4. Point(<<told, 0>>) = told
      BY <1>1, <2>2 DEF Point, IsPlace, Unset
    <3>5. SavedPoint' = told /\ SavedPoint \in Nat
      BY <3>3, <3>4, SavedPointIs, PointIsNat
    <3>6. CASE told \in 1..(SavedPoint - 1)
      BY <1>9, <3>6 DEF Loses
    <3>7. CASE told \notin 1..(SavedPoint - 1)
      <4> DEFINE p == SavedPoint
      <4>1. Progress = Max({told, p}) /\ Progress' = Max({0, told}) /\ p \in Nat /\ told \notin 1..(p - 1) /\ told # 0
        BY <2>2, <3>2, <3>5, <3>7 DEF Progress
      <4> HIDE DEF p
      <4>2. Progress = (IF told <= p THEN p ELSE told) /\ Progress' = IF 0 <= told THEN told ELSE 0
        BY <1>1, <4>1, FurtherOf
      <4> QED BY <1>1, <4>1, <4>2
    <3> QED BY <3>6, <3>7
  <2>3. CASE told = 0
    <3>1. Tells(<<>>, 0)
      BY <2>1, <2>3
    <3> QED BY <1>3, <2>3, <3>1
  <2>4. CASE c.k # "save"
    <3>1. Tells(<<>>, 0)
      BY <2>1, <2>4
    <3> QED BY <1>2, <2>4, <3>1 DEF Loses
  <2> QED BY <2>2, <2>3, <2>4
<1> QED BY <1>4, <1>5, <1>6, <1>7, <1>8, <1>9 DEF Stories

LEMMA RunKeepsStory == Inv /\ StoryInv /\ Run => (Progress' < Progress => Loses)
<1> SUFFICES ASSUME Inv, StoryInv, Run PROVE Progress' < Progress => Loses
  OBVIOUS
<1>1. told \in Nat /\ (running = "no" => batch = <<>>)
  BY DEF StoryInv
<1>2. ASSUME UNCHANGED <<told, batch, world>> PROVE ~(Progress' < Progress)
  BY <1>1, <1>2, NothingSavedLess
<1>3. CASE RunHook \/ RunEval
  <2>1. UNCHANGED <<told, world>> /\ running = "no" /\ batch' = <<>>
    BY <1>3 DEF RunHook, RunEval, Begins
  <2> QED BY <1>1, <1>2, <2>1
<1>4. CASE Pass \/ Return
  BY <1>2, <1>4 DEF Pass, Return
<1>5. ASSUME NEW m, Ends(world, nextId, m) PROVE Progress' < Progress => Loses
  <2>1. told' = told /\ world' = world /\ batch' = <<>> /\ running' = "no"
    BY <1>5 DEF Ends
  <2>2. CASE LastWrite(batch, This, "story") # 0
    BY <2>1, <2>2 DEF Loses
  <2>3. CASE LastWrite(batch, This, "story") = 0
    <3>1. PointOf(batch, world) = PointOf(batch', world')
      BY <2>1, <2>3, NothingWritten DEF PointOf
    <3> QED BY <1>1, <2>1, <3>1, NothingSavedLess
  <2> QED BY <2>2, <2>3
<1>6. CASE Dies
  BY <1>5, <1>6 DEF Dies
<1>7. ASSUME NEW m, Apply(world, batch).ok, Ends(Apply(world, batch).w, counter, m) PROVE Progress' < Progress => Loses
  <2> DEFINE w == Apply(world, batch).w
  <2>1. told' = told /\ world' = w /\ batch' = <<>> /\ running' = "no"
    BY <1>7 DEF Ends
  <2>2. CASE \E i \in DOMAIN batch : Meddles(batch[i])
    BY <2>1, <2>2 DEF Loses
  <2>3. CASE \A i \in DOMAIN batch : ~Meddles(batch[i])
    <3>1. Of(w) = Saves \/ Saves = Unset
      BY <1>7, <2>3, StoryBatch
    <3> HIDE DEF w
    <3>2. SavedPoint = Point(Saves)
      BY SavedPointIs, SavesAre
    <3>3. SavedPoint' = Point(Of(w))
      BY <2>1, SavedPointIs, NothingWritten DEF PointOf
    <3>4. SavedPoint \in Nat /\ SavedPoint' \in Nat
      BY SavedPointIs, PointIsNat
    <3>5. Point(Unset) = 0
      BY DEF Point, IsPlace
    <3>6. SavedPoint = SavedPoint' \/ SavedPoint = 0
      BY <3>1, <3>2, <3>3, <3>5
    <3>7. SavedPoint <= SavedPoint' /\ told <= told' /\ told' \in Nat
      BY <1>1, <2>1, <3>4, <3>6
    <3> QED BY <1>1, <3>7, NothingLost
  <2> QED BY <2>2, <2>3
<1>8. CASE Finish
  BY <1>5, <1>7, <1>8 DEF Finish
<1> QED BY <1>3, <1>4, <1>6, <1>8 DEF Run

LEMMA OthersKeepStory ==
    Inv /\ StoryInv /\ (Walk \/ Disconnect \/ Reconnect \/ Libraries) => (Progress' < Progress => Loses)
<1> SUFFICES ASSUME Inv, StoryInv, Walk \/ Disconnect \/ Reconnect \/ Libraries PROVE Progress' < Progress => Loses
  OBVIOUS
<1>1. told \in Nat
  BY DEF StoryInv
<1>2. \A o \in DOMAIN world : {"attrs"} \subseteq DOMAIN world[o]
  BY DEF Inv, Sound, Shaped
<1>3. ASSUME NEW w, NEW m, Between(w, m), told' = told, Of(w) = Of(world) PROVE ~(Progress' < Progress)
  <2>1. batch' = batch /\ world' = w
    BY <1>3 DEF Between, script
  <2>2. PointOf(batch, world) = PointOf(batch', world')
    BY <1>3, <2>1 DEF PointOf
  <2> QED BY <1>1, <1>3, <2>2, NothingSavedLess
<1>4. CASE Walk
  <2>1. PICK x : Between([world EXCEPT ![Actor].loc = world[x].target], modules) /\ told' = told
    BY <1>4 DEF Walk
  <2> DEFINE to == world[x].target
             w == [world EXCEPT ![Actor].loc = to]
  <2> HIDE DEF to
  <2>2. Of(w) = Of(world)
    BY <1>2 DEF Of
  <2> HIDE DEF w
  <2> QED BY <1>3, <2>1, <2>2 DEF w, to
<1>5. CASE Disconnect
  BY <1>5 DEF Loses
<1>6. CASE Reconnect
  <2> DEFINE w == [world EXCEPT ![Actor].tags = @ \ {"offline"}]
  <2>1. Between(w, modules) /\ told' = told
    BY <1>6 DEF Reconnect
  <2>2. Of(w) = Of(world)
    BY <1>2 DEF Of
  <2> HIDE DEF w
  <2> QED BY <1>3, <2>1, <2>2
<1>7. CASE WriteLib \/ ImportOverRest
  <2>1. PICK o, k, text, m : Between([world EXCEPT ![o].libs[k] = text], m) /\ told' = told
    BY <1>7 DEF WriteLib, ImportOverRest
  <2> DEFINE w == [world EXCEPT ![o].libs[k] = text]
  <2>2. Of(w) = Of(world)
    BY <1>2 DEF Of
  <2>3. Between(w, m) /\ told' = told
    BY <2>1
  <2> HIDE DEF w
  <2> QED BY <1>3, <2>2, <2>3
<1>8. CASE ReloadModules
  BY <1>3, <1>8 DEF ReloadModules
<1>9. CASE CallRequire
  <2>1. UNCHANGED <<told, batch, world>>
    BY <1>9 DEF CallRequire, script
  <2> QED BY <1>1, <2>1, NothingSavedLess
<1> QED BY <1>4, <1>5, <1>6, <1>7, <1>8, <1>9 DEF Libraries

LEMMA NextKeepsStory ==
    Inv /\ StoryInv /\ [Next]_vars => [Progress' < Progress => Loses]_vars
<1> SUFFICES ASSUME Inv, StoryInv, Next PROVE Progress' < Progress => Loses
  OBVIOUS
<1>1. CASE Run
  BY <1>1, RunKeepsStory
<1>2. CASE Values \/ Effects \/ Places
  <2>1. Grown
    BY <1>2, SetAttrKeeps, AssignAttrKeeps, UnsetsKeep, PromptKeeps, TransferAttrKeeps, SetValKeeps, CopyAttrsKeeps,
       WordsKeep, ScriptsKeep, MessagesKeep, MovesKeep, ThingsKeep, SpawnAsKeeps, RegionsKeep, DestroyDungeonKeeps,
       OnExpireKeeps, OnEnterKeeps, GridMoveKeeps DEF Values, Effects, Places
  <2>2. UNCHANGED <<world, told>>
    <3>1. ASSUME NEW s, NEW next, NEW picks, Called(s, next, picks) PROVE UNCHANGED <<world, told>>
      BY <3>1 DEF Called
    <3> QED BY <1>2, <3>1, CallsAre
  <2>3. InkEnd => batch' = batch
    <3> SUFFICES ASSUME InkEnd PROVE batch' = batch
      OBVIOUS
    <3>1. IsSeq(batch)
      BY DEF Inv, Numbered
    <3>2. told' = 0 /\ (told = 0 => batch' = batch \o <<>>)
      BY DEF InkEnd, Tells
    <3> QED BY <2>2, <3>1, <3>2 DEF IsSeq
  <2> QED BY <2>1, <2>2, <2>3, CallsKeepStory
<1>3. CASE Stories
  <2>1. StoryInv'
    BY NextKeepsNumbers
  <2> QED BY <1>3, <2>1, TalesKeepStory
<1>4. CASE Libraries \/ Walk \/ Disconnect \/ Reconnect
  BY <1>4, OthersKeepStory
<1> QED BY <1>1, <1>2, <1>3, <1>4 DEF Next

LEMMA KeepingIsStoryKept == StoryKept <=> [][Progress' < Progress => Loses]_vars
  BY DEF StoryKept, Loses

(* A story that is being told, or saved, is lost by the script that starts    *)
(* another over it, leaves it or gives it up, by its player leaving, by the   *)
(* script that ended it coming to nothing, by what is written over what was   *)
(* saved or destroys it: and by nothing else, whatever else scripts do in     *)
(* whatever order, and whichever batches go through (InkManager, and the      *)
(* attribute api.rs saves its state in).                                      *)
THEOREM StoriesAreKept == Spec => StoryKept
<1> QED BY NextKeepsStory, Invariance, StoriesAreNumbers, KeepingIsStoryKept, PTL DEF Spec
=============================================================================
