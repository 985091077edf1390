----------------------------- MODULE Hooks_proofs -----------------------------
(***************************************************************************)
(* The lists the engine keeps of who answers what follow the objects, and  *)
(* what an object remembers is lost in one way only, for any objects,      *)
(* players, hooks, scripts, lines of archetypes and depth limit.           *)
(*                                                                         *)
(* What bumps nothing either changes no archetype, so that every line is   *)
(* the one it was (ArchetypesMakeLines), or is remembered as bypassed; and *)
(* two players in one room see the same but for what they carry.           *)
(*                                                                         *)
(* At the end, the stack on which hooks cause hooks: its counters agree    *)
(* with it and only the hooks of moves pile up on it, for every depth      *)
(* limit and for hooks that cause any number of hooks.                     *)
(***************************************************************************)
EXTENDS Hooks, HookDispatch, FiniteSetTheorems, SequenceTheorems, WellFoundedInduction, TLAPS

-----------------------------------------------------------------------------
(* The inductive invariant *)

Typed ==
    /\ live \subseteq Refs /\ objs \in [Refs -> Object]
    /\ late # NoList => late.state \in 0..MaxState
    /\ offered # NoList => offered.for \in Refs

(* The list kept is right for p, if he has the scope it was made for: see     *)
(* CommandsFollow.                                                            *)
GoodFor(p) ==
    \A h \in Commands \cup Builtin(TRUE) :
        \/ h \in offered.list <=> h \in Builtin(offered.builder) \/ (h \in Commands /\ Answering(p, h) # {})
        \/ offered.for # p /\ h \in Own(p) \cup Own(offered.for)

(* It is right for everybody in the room, whatever scope he has by now: he may*)
(* be given the other one, and find the list again.                           *)
OfferedGood ==
    offered # NoList => \A p \in Players \cap live : objs[p].home = offered.room => GoodFor(p)

Inv == Typed /\ IndexesFollow /\ OfferedGood

-----------------------------------------------------------------------------
(* Lines of archetypes *)

(* Every nonempty set of naturals has a least member. *)
LEMMA Least ==
    ASSUME NEW T \in SUBSET Nat, T # {}
    PROVE  \E n \in T : \A k \in T : n <= k
<1> DEFINE R == {ss \in Nat \X Nat : ss[1] < ss[2]}
<1>1. R = OpToRel(<, Nat)
  BY DEF OpToRel
<1>2. IsWellFoundedOn(R, Nat)
  BY <1>1, NatLessThanWellFounded
<1>3. PICK n \in T : \A k \in T : <<k, n>> \notin R
  BY <1>2, WFMin
<1>4. ASSUME NEW k \in T PROVE n <= k
  <2>1. <<k, n>> \in Nat \X Nat
    OBVIOUS
  <2>2. ~(<<k, n>>[1] < <<k, n>>[2])
    BY <2>1, <1>3
  <2> QED BY <2>2
<1>5. QED
  BY <1>4

LEMMA MinIn ==
    ASSUME NEW T \in SUBSET Nat, T # {}
    PROVE  Min(T) \in T
<1>1. PICK n \in T : \A k \in T : n <= k
  BY Least
<1> QED BY <1>1 DEF Min

(* The depth counts at least the object itself. *)
LEMMA Depth == MaxArchetypeDepth - 1 \in Nat /\ 0 \in 0..(MaxArchetypeDepth - 1)
  BY ConstantsAssumption

(* f goes from o by next. *)
Goes(A, next, o, n, f) == f \in [0..n -> A] /\ f[0] = o /\ \A i \in 1..n : f[i] = next[f[i - 1]]

LEMMA LineExists ==
    ASSUME NEW A, NEW next \in [A -> A], NEW o \in A, NEW n \in Nat
    PROVE  \E f : Goes(A, next, o, n, f)
<1> DEFINE P(m) == \E f \in [0..m -> A] : f[0] = o /\ \A i \in 1..m : f[i] = next[f[i - 1]]
           T == {m \in Nat : ~P(m)}
<1> SUFFICES ASSUME T # {} PROVE FALSE
  BY DEF Goes
<1>1. PICK m \in T : \A k \in T : m <= k
  BY Least
<1>2. P(0)
  <2> DEFINE f == [i \in 0..0 |-> o]
  <2>1. f \in [0..0 -> A] /\ f[0] = o /\ \A i \in 1..0 : f[i] = next[f[i - 1]]
    OBVIOUS
  <2> HIDE DEF f
  <2> QED BY <2>1
<1>3. m \in Nat \ {0} /\ m - 1 \in Nat
  <2>1. m \in Nat /\ ~P(m)
    OBVIOUS
  <2> HIDE DEF P
  <2> QED BY <1>2, <2>1
<1>4. P(m - 1)
  <2> HIDE DEF P
  <2>1. CASE m - 1 \in T
    BY <1>1, <1>3, <2>1
  <2> QED BY <1>3, <2>1
<1>5. PICK f \in [0..(m - 1) -> A] : f[0] = o /\ \A i \in 1..(m - 1) : f[i] = next[f[i - 1]]
  BY <1>4
<1> DEFINE g == [i \in 0..m |-> IF i = m THEN next[f[m - 1]] ELSE f[i]]
<1>6. g \in [0..m -> A]
  BY <1>3
<1>7. g[0] = o
  BY <1>3, <1>5
<1>8. \A i \in 1..m : g[i] = next[g[i - 1]]
  BY <1>3, <1>5
<1>9. P(m)
  BY <1>6, <1>7, <1>8
<1> QED BY <1>9

(* The line of an object goes from it to its archetypes, as far as the limit. *)
LEMMA LineWorks ==
    ASSUME Typed, NEW o \in Refs
    PROVE  Line(o) \in [0..(MaxArchetypeDepth - 1) -> Refs \cup {None}]
<1> DEFINE N == MaxArchetypeDepth - 1
           B == Refs \cup {None}
           next == [r \in B |-> ArchetypeOf(r)]
           F(f) == [i \in 0..N |-> IF i = 0 THEN o ELSE ArchetypeOf(f[i - 1])]
           W == CHOOSE w : w = F(w)
<1>1. N \in Nat
  BY Depth
<1>2. \A r : ArchetypeOf(r) \in B
  BY DEF Typed, ArchetypeOf, Object
<1>3. next \in [B -> B]
  BY <1>2
<1>4. PICK f \in [0..N -> B] : f[0] = o /\ \A i \in 1..N : f[i] = next[f[i - 1]]
  <2>1. o \in B
    OBVIOUS
  <2> HIDE DEF N, next, B
  <2>2. \E f : Goes(B, next, o, N, f)
    BY <1>1, <1>3, <2>1, LineExists
  <2> QED BY <2>2 DEF Goes
<1>5. f = F(f)
  <2> HIDE DEF N
  <2>1. ASSUME NEW i \in 1..N PROVE f[i] = ArchetypeOf(f[i - 1])
    <3>1. i - 1 \in 0..N
      BY <1>1
    <3>2. f[i - 1] \in B
      BY <3>1, <1>4
    <3> QED BY <1>4, <3>2
  <2> QED BY <1>1, <1>4, <2>1
<1>6. Line(o) = W
  BY DEF Line
<1>7. W = F(W)
  <2> HIDE DEF F
  <2> QED BY <1>5
<1>8. F(W) \in [0..N -> B]
  <2> HIDE DEF W, N
  <2> QED BY <1>2
<1> HIDE DEF W, F
<1> QED BY <1>6, <1>7, <1>8

(* What an operator picks from a line is at one of its places.                *)
LEMMA Nearest ==
    ASSUME Typed, NEW o \in Refs, NEW T \in SUBSET DOMAIN Line(o), T # {}
    PROVE  Min(T) \in T
<1>1. T \in SUBSET Nat
  BY LineWorks, Depth
<1> QED BY <1>1, MinIn

(* Lines depend on the archetypes alone. *)
LEMMA ArchetypesMakeLines ==
    ASSUME \A x : ArchetypeOf(x)' = ArchetypeOf(x), NEW o
    PROVE  Line(o)' = Line(o)
<1> DEFINE F(f) == [i \in 0..(MaxArchetypeDepth - 1) |-> IF i = 0 THEN o ELSE ArchetypeOf(f[i - 1])]
           G(f) == [i \in 0..(MaxArchetypeDepth - 1) |-> IF i = 0 THEN o ELSE ArchetypeOf(f[i - 1])']
<1>1. \A f : F(f) = G(f)
  <2> HIDE DEF ArchetypeOf
  <2> QED OBVIOUS
<1>2. Line(o) = CHOOSE f : f = F(f)
  BY DEF Line
<1>3. Line(o)' = CHOOSE f : f = G(f)
  BY DEF Line, ArchetypeOf
<1> HIDE DEF F, G
<1>4. (CHOOSE f : f = F(f)) = (CHOOSE f : f = G(f))
  BY <1>1, Zenon
<1> QED BY <1>2, <1>3, <1>4

-----------------------------------------------------------------------------
(* The indexes *)

(* x is what it was, but for where it is and what it remembers. *)
SameBehaviour(x) ==
    /\ objs'[x].source = objs[x].source /\ objs'[x].enabled = objs[x].enabled
    /\ objs'[x].interval = objs[x].interval /\ objs'[x].global = objs[x].global

SameArchetypes == live' = live /\ \A x \in live : objs'[x].arch = objs[x].arch

LEMMA SameLines ==
    ASSUME SameArchetypes, NEW o
    PROVE  Line(o)' = Line(o)
<1>1. \A x : ArchetypeOf(x)' = ArchetypeOf(x)
  BY DEF SameArchetypes, ArchetypeOf
<1> QED BY <1>1, ArchetypesMakeLines

(* An object whose line is the same answers, ticks and serves the same.       *)
LEMMA SameAnswers ==
    ASSUME Typed, SameArchetypes, NEW o \in Refs,
           \A i \in DOMAIN Line(o) : Line(o)[i] \in live => SameBehaviour(Line(o)[i])
    PROVE  /\ Ticks(o)' = Ticks(o) /\ Serves(o)' = Serves(o)
           /\ \A h : ObjectResponds(o, h)' = ObjectResponds(o, h)
           /\ ResolveHookNames(o)' = ResolveHookNames(o)
<1>0. PICK up : up = Line(o)
  OBVIOUS
<1>1. Line(o)' = up /\ live' = live
  BY <1>0, SameLines DEF SameArchetypes
<1>2. ASSUME NEW i \in DOMAIN up, NEW h PROVE Defines(up[i], h)' <=> Defines(up[i], h)
  BY <1>0, <1>1 DEF Defines, SameBehaviour
<1>3. ASSUME NEW h PROVE Definers(o, h)' = Definers(o, h)
  <2>1. Definers(o, h) = {i \in DOMAIN up : Defines(up[i], h)}
    BY <1>0 DEF Definers
  <2>2. Definers(o, h)' = {i \in DOMAIN up : Defines(up[i], h)'}
    BY <1>1 DEF Definers
  <2> QED BY <1>2, <2>1, <2>2
<1>4. ASSUME NEW h PROVE ObjectResponds(o, h)' = ObjectResponds(o, h)
  BY <1>3 DEF ObjectResponds
<1>5. ResolveHookNames(o)' = ResolveHookNames(o)
  BY <1>4 DEF ResolveHookNames
<1>6. Interval(o)' = Interval(o)
  <2> DEFINE set == {i \in DOMAIN up : up[i] \in live /\ objs[up[i]].interval # 0}
             set2 == {i \in DOMAIN up : up[i] \in live' /\ objs'[up[i]].interval # 0}
  <2>1. set2 = set
    BY <1>0, <1>1 DEF SameBehaviour
  <2>2. Interval(o) = IF set = {} THEN 1 ELSE objs[up[Min(set)]].interval
    BY <1>0 DEF Interval
  <2>3. Interval(o)' = IF set2 = {} THEN 1 ELSE objs'[up[Min(set2)]].interval
    BY <1>1 DEF Interval
  <2>4. ASSUME set # {} PROVE objs'[up[Min(set)]].interval = objs[up[Min(set)]].interval
    <3>1. set \in SUBSET DOMAIN Line(o)
      BY <1>0
    <3>2. Min(set) \in set
      <4> HIDE DEF set
      <4> QED BY <2>4, <3>1, Nearest
    <3> QED BY <1>0, <3>2 DEF SameBehaviour
  <2> HIDE DEF set, set2
  <2> QED BY <2>1, <2>2, <2>3, <2>4
<1>7. IsGlobal(o)' = IsGlobal(o)
  <2>1. IsGlobal(o) = \E i \in DOMAIN up : up[i] \in live /\ objs[up[i]].global
    BY <1>0 DEF IsGlobal
  <2>2. IsGlobal(o)' = \E i \in DOMAIN up : up[i] \in live' /\ objs'[up[i]].global
    BY <1>1 DEF IsGlobal
  <2> QED BY <1>0, <1>1, <2>1, <2>2 DEF SameBehaviour
<1>8. Ticks(o)' = Ticks(o) /\ Serves(o)' = Serves(o)
  BY <1>4, <1>5, <1>6, <1>7 DEF Ticks, Serves
<1> QED BY <1>4, <1>5, <1>8

(* What bumps nothing changes no archetype, and is remembered as bypassed.    *)
LEMMA IndexesUntold ==
    ASSUME Typed, IndexesFollow, SameArchetypes, NEW os,
           \A x \in live \ os : SameBehaviour(x), derived' = derived, bypassed' = bypassed \cup os
    PROVE  IndexesFollow'
<1> SUFFICES ASSUME derived # NoList PROVE /\ DOMAIN derived = live
                                           /\ \A o \in live : Unbypassed(o)' =>
                                                derived[o] = [ticks |-> Ticks(o)', serves |-> Serves(o)']
  BY DEF IndexesFollow, SameArchetypes
<1>1. ASSUME NEW o \in live, Unbypassed(o)'
      PROVE  derived[o] = [ticks |-> Ticks(o)', serves |-> Serves(o)']
  <2>0. PICK up : up = Line(o)
    OBVIOUS
  <2>1. Line(o)' = up
    BY <2>0, SameLines
  <2>2. \A i \in DOMAIN up : up[i] \notin bypassed /\ up[i] \notin os
    BY <1>1, <2>1 DEF Unbypassed
  <2>3. Unbypassed(o)
    BY <2>0, <2>2 DEF Unbypassed
  <2>4. \A i \in DOMAIN Line(o) : Line(o)[i] \in live => SameBehaviour(Line(o)[i])
    BY <2>0, <2>2
  <2>5. o \in Refs
    BY DEF Typed
  <2>6. Ticks(o)' = Ticks(o) /\ Serves(o)' = Serves(o)
    BY <2>4, <2>5, SameAnswers
  <2> QED BY <2>3, <2>6 DEF IndexesFollow
<1> QED BY <1>1 DEF IndexesFollow

(* Looking into the lists changes nobody's answers, and makes nothing up.     *)
LEMMA NobodyChanges ==
    ASSUME Typed, UNCHANGED <<live, objs>>, NEW o \in Refs
    PROVE  /\ Ticks(o)' = Ticks(o) /\ Serves(o)' = Serves(o)
           /\ \A h : ObjectResponds(o, h)' = ObjectResponds(o, h)
           /\ ResolveHookNames(o)' = ResolveHookNames(o)
<1>1. SameArchetypes /\ \A x : SameBehaviour(x)
  BY DEF SameArchetypes, SameBehaviour
<1> QED BY <1>1, SameAnswers

LEMMA SameBuild ==
    ASSUME Typed, UNCHANGED <<live, objs>>
    PROVE  Build' = Build
<1>1. \A o \in live : Ticks(o)' = Ticks(o) /\ Serves(o)' = Serves(o)
  BY NobodyChanges DEF Typed
<1>2. Build = [o \in live |-> [ticks |-> Ticks(o), serves |-> Serves(o)]]
  BY DEF Build
<1>3. Build' = [o \in live |-> [ticks |-> Ticks(o)', serves |-> Serves(o)']]
  BY DEF Build
<1> QED BY <1>1, <1>2, <1>3

LEMMA IndexesConsulted ==
    ASSUME Typed, IndexesFollow, Consult, UNCHANGED <<live, objs>>
    PROVE  IndexesFollow' /\ Indexes' = Indexes
<1>1. Build' = Build
  BY SameBuild
<1>2. Indexes' = Indexes
  BY <1>1 DEF Indexes, Consult
<1>3. CASE derived # NoList
  <2>1. derived' = derived /\ bypassed' = bypassed \cup {}
    BY <1>3 DEF Consult, Indexes
  <2>2. SameArchetypes /\ \A x \in live \ {} : SameBehaviour(x)
    BY DEF SameArchetypes, SameBehaviour
  <2> QED BY <1>2, <2>1, <2>2, IndexesUntold
<1>4. CASE derived = NoList
  <2>1. derived' = [o \in live |-> [ticks |-> Ticks(o), serves |-> Serves(o)]]
    BY <1>4 DEF Consult, Indexes, Build
  <2>2. \A o \in live : Ticks(o)' = Ticks(o) /\ Serves(o)' = Serves(o)
    BY NobodyChanges DEF Typed
  <2>3. \A o \in live : derived'[o] = [ticks |-> Ticks(o)', serves |-> Serves(o)']
    BY <2>1, <2>2
  <2> QED BY <1>2, <2>1, <2>3 DEF IndexesFollow
<1> QED BY <1>3, <1>4

-----------------------------------------------------------------------------
(* The commands offered *)

LEMMA SameSurroundings ==
    ASSUME Typed, UNCHANGED <<live, objs>>, Indexes' = Indexes, NEW p \in Refs
    PROVE  /\ \A h : Answering(p, h)' = Answering(p, h)
           /\ Own(p)' = Own(p)
<1>1. \A o \in Refs : \A h : ObjectResponds(o, h)' = ObjectResponds(o, h)
  BY NobodyChanges
<1>2. /\ \A l : Within(l)' = Within(l)
      /\ \A l : Within(l) \subseteq live
  BY DEF Within
<1>3. Nearby(p)' = Nearby(p) /\ Placed(p)' = Placed(p)
  BY <1>2 DEF Nearby, Placed
<1>4. Placed(p) => Nearby(p) \subseteq Refs
  <2>1. objs[p].home \in Refs \cup {None}
    BY DEF Typed, Object
  <2> QED BY <1>2, <2>1 DEF Placed, Nearby, Typed
<1>5. ASSUME NEW h PROVE Answering(p, h)' = Answering(p, h)
  <2>1. CASE Placed(p)
    <3>1. {o \in Nearby(p) : ObjectResponds(o, h)'} = {o \in Nearby(p) : ObjectResponds(o, h)}
      BY <1>1, <1>4, <2>1
    <3>2. Answering(p, h) = {o \in Nearby(p) : ObjectResponds(o, h)}
                              \cup {o \in DOMAIN Indexes : h \in Indexes[o].serves}
      BY <2>1 DEF Answering
    <3>3. Answering(p, h)' = {o \in Nearby(p) : ObjectResponds(o, h)'}
                               \cup {o \in DOMAIN Indexes : h \in Indexes[o].serves}
      BY <1>3, <2>1 DEF Answering
    <3> QED BY <3>1, <3>2, <3>3
  <2>2. CASE ~Placed(p)
    BY <1>3, <2>2 DEF Answering
  <2> QED BY <2>1, <2>2
<1>6. Own(p)' = Own(p)
  <2>1. {p} \cup Within(p) \subseteq Refs
    BY <1>2 DEF Typed
  <2>2. Own(p) = {h \in Commands : \E o \in {p} \cup Within(p) : ObjectResponds(o, h)}
    BY DEF Own
  <2>3. Own(p)' = {h \in Commands : \E o \in {p} \cup Within(p) : ObjectResponds(o, h)'}
    BY <1>2 DEF Own
  <2> QED BY <1>1, <2>1, <2>2, <2>3
<1> QED BY <1>5, <1>6

(* Two in one room see the same, but for themselves and what they carry.      *)
LEMMA RoomMates ==
    ASSUME Typed, NEW p \in Players \cap live, NEW q \in Players \cap live,
           objs[p].home = objs[q].home, NEW h \in Commands
    PROVE  \/ (\E o \in Nearby(p) : ObjectResponds(o, h)) <=> (\E o \in Nearby(q) : ObjectResponds(o, h))
           \/ p # q /\ h \in Own(q) \cup Own(p)
<1>1. \A x, y \in {p, q} : Nearby(x) \subseteq Nearby(y) \cup {x, y} \cup Within(x)
  BY DEF Nearby
<1>2. Nearby(p) \subseteq Nearby(q) \cup {p, q} \cup Within(p)
  BY <1>1
<1>3. Nearby(q) \subseteq Nearby(p) \cup {p, q} \cup Within(q)
  BY <1>1
<1>4. \A o \in {p} \cup Within(p) : ObjectResponds(o, h) => h \in Own(p)
  BY DEF Own
<1>5. \A o \in {q} \cup Within(q) : ObjectResponds(o, h) => h \in Own(q)
  BY DEF Own
<1> QED BY <1>2, <1>3, <1>4, <1>5

LEMMA CommandsMade ==
    ASSUME Typed, NEW p \in Players \cap live, NEW q \in Players \cap live,
           objs[p].home = objs[q].home, NEW h \in Commands \cup Builtin(TRUE)
    PROVE  \/ h \in CommandsFor(p) <=>
                h \in Builtin(p \in builders) \/ (h \in Commands /\ Answering(q, h) # {})
           \/ p # q /\ h \in Own(q) \cup Own(p)
<1>1. CASE Placed(p) /\ h \in Commands
  <2>1. Placed(q)
    BY <1>1 DEF Placed
  <2>2. h \in HookNames
    BY <1>1 DEF HookNames
  <2>3. h \in CommandsFor(p) <=>
          \/ h \in Builtin(p \in builders)
          \/ \E o \in Nearby(p) : ObjectResponds(o, h)
          \/ \E o \in DOMAIN Indexes : h \in Indexes[o].serves
    <3>1. h \in UNION {ResolveHookNames(o) : o \in Nearby(p)} <=> \E o \in Nearby(p) : ObjectResponds(o, h)
      <4>1. \A o : h \in ResolveHookNames(o) <=> ObjectResponds(o, h)
        BY <2>2 DEF ResolveHookNames
      <4> QED BY <4>1
    <3>2. h \in UNION {Indexes[o].serves : o \in DOMAIN Indexes} <=> \E o \in DOMAIN Indexes : h \in Indexes[o].serves
      OBVIOUS
    <3> DEFINE A == Builtin(p \in builders)
               B == UNION {ResolveHookNames(o) : o \in Nearby(p)}
               C == UNION {Indexes[o].serves : o \in DOMAIN Indexes}
    <3>4. CommandsFor(p) = A \cup ((B \cup C) \cap Commands)
      BY <1>1 DEF CommandsFor
    <3> HIDE DEF A, B, C
    <3>5. h \in CommandsFor(p) <=> h \in A \/ h \in B \/ h \in C
      BY <1>1, <3>4
    <3> QED BY <3>1, <3>2, <3>5, Zenon DEF A, B, C
  <2>4. Answering(q, h) # {} <=>
          \/ \E o \in Nearby(q) : ObjectResponds(o, h)
          \/ \E o \in DOMAIN Indexes : h \in Indexes[o].serves
    BY <2>1 DEF Answering
  <2> QED BY <1>1, <2>3, <2>4, RoomMates
<1>2. CASE h \notin Commands
  BY <1>2 DEF CommandsFor
<1>3. CASE ~Placed(p)
  <2>1. ~Placed(q)
    BY <1>3 DEF Placed
  <2> QED BY <1>3, <2>1 DEF CommandsFor, Answering
<1> QED BY <1>1, <1>2, <1>3

LEMMA OfferedLooked ==
    ASSUME Typed, OfferedGood, UNCHANGED <<live, objs, offered>>, Indexes' = Indexes
    PROVE  OfferedGood'
<1> SUFFICES ASSUME offered # NoList, NEW p \in Players \cap live, objs[p].home = offered.room
             PROVE  GoodFor(p)'
  BY DEF OfferedGood
<1>1. GoodFor(p)
  BY DEF OfferedGood
<1>2. (\A h : Answering(p, h)' = Answering(p, h)) /\ Own(p)' = Own(p)
  BY SameSurroundings, ConstantsAssumption
<1>3. Own(offered.for)' = Own(offered.for)
  <2>1. PICK q : q = offered.for
    OBVIOUS
  <2>2. q \in Refs
    BY <2>1 DEF Typed
  <2>3. Own(q)' = Own(q)
    BY <2>2, SameSurroundings
  <2> QED BY <2>1, <2>3
<1>4. ASSUME NEW h \in Commands \cup Builtin(TRUE)
      PROVE  \/ h \in offered.list <=> h \in Builtin(offered.builder) \/ (h \in Commands /\ Answering(p, h)' # {})
             \/ offered.for # p /\ h \in Own(p)' \cup Own(offered.for)'
  BY <1>1, <1>2, <1>3 DEF GoodFor
<1> QED BY <1>4 DEF GoodFor

LEMMA OfferedMade ==
    ASSUME Typed, NEW p \in Players \cap live, UNCHANGED <<live, objs>>, Indexes' = Indexes,
           offered' = [room |-> objs[p].home, builder |-> p \in builders, list |-> CommandsFor(p), for |-> p]
    PROVE  OfferedGood'
<1> DEFINE b == p \in builders
           l == CommandsFor(p)
<1>1. PICK list, bld, r : list = l /\ bld = b /\ r = objs[p].home
  OBVIOUS
<1>2. offered'.room = r /\ offered'.builder = bld /\ offered'.list = list /\ offered'.for = p
  BY <1>1
<1> HIDE DEF b, l
<1> SUFFICES ASSUME NEW q \in Players \cap live, objs[q].home = r PROVE GoodFor(q)'
  BY <1>2 DEF OfferedGood
<1>3. p \in Refs /\ q \in Refs
  BY ConstantsAssumption
<1>4. (\A h : Answering(q, h)' = Answering(q, h)) /\ Own(q)' = Own(q) /\ Own(p)' = Own(p)
  BY <1>3, SameSurroundings
<1>5. ASSUME NEW h \in Commands \cup Builtin(TRUE)
      PROVE  \/ h \in list <=> h \in Builtin(bld) \/ (h \in Commands /\ Answering(q, h)' # {})
             \/ p # q /\ h \in Own(q)' \cup Own(p)'
  <2>1. objs[p].home = objs[q].home
    BY <1>1
  <2>2. \/ h \in CommandsFor(p) <=>
                h \in Builtin(p \in builders) \/ (h \in Commands /\ Answering(q, h) # {})
        \/ p # q /\ h \in Own(q) \cup Own(p)
    BY <2>1, CommandsMade
  <2>3. Builtin(bld) = Builtin(p \in builders)
    BY <1>1, Zenon DEF b
  <2> QED BY <1>1, <1>4, <2>2, <2>3 DEF l
<1> QED BY <1>2, <1>4, <1>5 DEF GoodFor

-----------------------------------------------------------------------------
(* Types *)

LEMMA Fields ==
    ASSUME Typed, NEW o \in Refs
    PROVE  /\ objs[o] \in Object
           /\ objs[o].arch \in Refs \cup {None} /\ objs[o].home \in Refs \cup {None}
           /\ objs[o].interval \in Intervals \cup {0} /\ objs[o].source \in [HookNames -> Nat]
           /\ objs[o].state \in 0..MaxState /\ objs[o].state \in Nat
           /\ objs[o].enabled \in BOOLEAN /\ objs[o].global \in BOOLEAN
<1>1. objs[o] \in Object
  BY DEF Typed
<1>2. MaxState \in Nat
  BY ConstantsAssumption
<1> QED BY <1>1, <1>2 DEF Object

(* An object made of fields of the right types is an object. *)
LEMMA Made ==
    ASSUME NEW a \in Refs \cup {None}, NEW l \in Refs \cup {None}, NEW g \in BOOLEAN,
           NEW n \in Intervals \cup {0}, NEW s \in [HookNames -> Nat], NEW e \in BOOLEAN, NEW m \in 0..MaxState
    PROVE  [arch |-> a, home |-> l, global |-> g, interval |-> n, source |-> s, enabled |-> e, state |-> m] \in Object
  BY DEF Object

LEMMA NoSourceTyped == NoSource \in [HookNames -> Nat] /\ 0 \in 0..MaxState
  BY ConstantsAssumption DEF NoSource

LEMMA BlankTyped ==
    ASSUME NEW a \in Refs \cup {None}, NEW l \in Refs \cup {None}
    PROVE  Blank(a, l) \in Object
  BY Made, NoSourceTyped DEF Blank

(* The nearest in the line that has a tick_interval *)
LEMMA IntervalTyped ==
    ASSUME Typed, NEW o \in Refs, NEW T, T \in SUBSET DOMAIN Line(o), T # {},
           \A i \in T : Line(o)[i] \in live /\ objs[Line(o)[i]].interval # 0
    PROVE  objs[Line(o)[Min(T)]].interval \in Intervals
<1>1. Min(T) \in T
  BY Nearest
<1>2. Line(o)[Min(T)] \in Refs /\ objs[Line(o)[Min(T)]].interval # 0
  BY <1>1 DEF Typed
<1> QED BY <1>2, Fields

LEMMA FlattenedTyped ==
    ASSUME Typed, NEW o \in Refs
    PROVE  FlattenedChainSource(o) \in [HookNames -> Nat]
<1>0. PICK up : up = Line(o)
  OBVIOUS
<1> DEFINE with(h) == {i \in Authored(o) : objs[up[i]].source[h] # 0}
           defined(h) == IF with(h) = {} THEN 0 ELSE objs[up[Min(with(h))]].source[h]
<1>1. FlattenedChainSource(o) = [h \in HookNames |-> defined(h)]
  BY <1>0 DEF FlattenedChainSource
<1>2. ASSUME NEW h \in HookNames PROVE defined(h) \in Nat
  <2>1. CASE with(h) = {}
    BY <2>1
  <2>2. CASE with(h) # {}
    <3>1. Authored(o) \in SUBSET DOMAIN up /\ \A i \in Authored(o) : up[i] \in live
      BY <1>0 DEF Authored
    <3>2. with(h) \in SUBSET DOMAIN Line(o) /\ with(h) \in SUBSET Authored(o)
      BY <1>0, <3>1
    <3>3. Min(with(h)) \in with(h)
      <4> HIDE DEF with
      <4> QED BY <2>2, <3>2, Nearest
    <3>4. up[Min(with(h))] \in Refs
      <4> HIDE DEF with
      <4> QED BY <3>1, <3>2, <3>3 DEF Typed
    <3>5. objs[up[Min(with(h))]].source \in [HookNames -> Nat]
      BY <3>4, Fields
    <3> HIDE DEF with
    <3> QED BY <2>2, <3>5
  <2> QED BY <2>1, <2>2
<1> HIDE DEF defined
<1> QED BY <1>1, <1>2

(* A record is what its fields are. *)
LEMMA Parts ==
    ASSUME Typed, NEW o \in Refs
    PROVE  objs[o] = [arch |-> objs[o].arch, home |-> objs[o].home, global |-> objs[o].global,
                      interval |-> objs[o].interval, source |-> objs[o].source,
                      enabled |-> objs[o].enabled, state |-> objs[o].state]
<1>1. objs[o] \in Object
  BY DEF Typed
<1> QED BY <1>1 DEF Object

LEMMA DetachedTyped ==
    ASSUME Typed, NEW o \in Refs
    PROVE  Detached(o) \in Object /\ Detached(o).state = objs[o].state
<1> DEFINE set == {i \in DOMAIN Line(o) : Line(o)[i] \in live /\ objs[Line(o)[i]].interval # 0}
           n == IF set = {} THEN 0 ELSE Interval(o)
           e == objs[o].enabled \/ Authored(o) # {}
           g == IsGlobal(o)
           s == FlattenedChainSource(o)
<1>1. Detached(o) = [objs[o] EXCEPT !.arch = None, !.global = g, !.interval = n, !.source = s, !.enabled = e]
  BY DEF Detached
<1>2. n \in Intervals \cup {0}
  <2>1. CASE set # {}
    <3>1. Interval(o) = objs[Line(o)[Min(set)]].interval
      BY <2>1 DEF Interval
    <3>2. set \in SUBSET DOMAIN Line(o) /\ \A i \in set : Line(o)[i] \in live /\ objs[Line(o)[i]].interval # 0
      OBVIOUS
    <3> HIDE DEF set
    <3> QED BY <2>1, <3>1, <3>2, IntervalTyped
  <2> QED BY <2>1
<1>3. s \in [HookNames -> Nat]
  BY FlattenedTyped
<1>4. g \in BOOLEAN
  BY DEF IsGlobal
<1>5. e \in BOOLEAN
  OBVIOUS
<1>6. None \in Refs \cup {None}
  OBVIOUS
<1>7. objs[o] \in Object
  BY Fields
<1> HIDE DEF n, e, g, s
<1> QED BY <1>1, <1>2, <1>3, <1>4, <1>5, <1>6, <1>7 DEF Object

-----------------------------------------------------------------------------
(* Steps *)

(* What an object remembers is lost in these ways only: StateKept, of a step. *)
Remembered ==
    \A o \in live \cap live' : objs'[o].state < objs[o].state =>
        \/ ClearScript(o)
        \/ DeliveryEnd /\ late.of = o

(* A change of one object that tells everybody *)
LEMMA EditTold ==
    ASSUME Typed, NEW o \in Refs, NEW new \in Object, Edit(o, new), BumpStruct
    PROVE  /\ Inv'
           /\ \A x \in live : x # o => objs'[x] = objs[x]
           /\ objs'[o] = new
<1>1. /\ o \in live /\ objs' = [objs EXCEPT ![o] = new] /\ offered' = NoList
      /\ live' = live /\ late' = late /\ derived' = NoList
  BY DEF Edit, Changes, BumpStruct
<1>2. Typed'
  BY <1>1 DEF Typed
<1>3. IndexesFollow' /\ OfferedGood'
  BY <1>1 DEF IndexesFollow, OfferedGood
<1>4. (\A x \in live : x # o => objs'[x] = objs[x]) /\ objs'[o] = new
  BY <1>1 DEF Typed
<1> QED BY <1>2, <1>3, <1>4 DEF Inv

(* The same object otherwise remembers what it did. *)
LEMMA EditRemembers ==
    ASSUME Typed, NEW o \in Refs, \A x \in live : x # o => objs'[x] = objs[x], objs'[o].state = objs[o].state
    PROVE  Remembered
<1>1. ASSUME NEW x \in live \cap live' PROVE ~(objs'[x].state < objs[x].state)
  <2>1. x \in Refs /\ objs[x].state \in Nat /\ objs'[x].state = objs[x].state
    BY Fields DEF Typed
  <2> QED BY <2>1
<1> QED BY <1>1 DEF Remembered

(* A change of one object that bumps nothing and leaves its archetype *)
LEMMA EditUntold ==
    ASSUME Inv, NEW o \in Refs, NEW new \in Object, Edit(o, new),
           new.arch = objs[o].arch, new.state = objs[o].state,
           \/ NoBump({o})
           \/ /\ UNCHANGED <<derived, bypassed>>
              /\ new.source = objs[o].source /\ new.enabled = objs[o].enabled
              /\ new.interval = objs[o].interval /\ new.global = objs[o].global
    PROVE  Inv' /\ Remembered
<1>1. /\ o \in live /\ objs' = [objs EXCEPT ![o] = new] /\ offered' = NoList
      /\ live' = live /\ late' = late
  BY DEF Edit, Changes
<1>2. (\A x \in live : x # o => objs'[x] = objs[x]) /\ objs'[o] = new
  BY <1>1 DEF Inv, Typed
<1>3. Typed'
  BY <1>1 DEF Inv, Typed
<1>4. SameArchetypes
  BY <1>1, <1>2 DEF SameArchetypes
<1>5. IndexesFollow'
  <2>1. CASE NoBump({o})
    <3>1. \A x \in live \ {o} : SameBehaviour(x)
      BY <1>2 DEF SameBehaviour
    <3> QED BY <1>4, <2>1, <3>1, IndexesUntold DEF Inv, NoBump
  <2>2. CASE /\ UNCHANGED <<derived, bypassed>>
             /\ new.source = objs[o].source /\ new.enabled = objs[o].enabled
             /\ new.interval = objs[o].interval /\ new.global = objs[o].global
    <3>1. \A x \in live \ {} : SameBehaviour(x)
      BY <1>2, <2>2 DEF SameBehaviour
    <3>2. derived' = derived /\ bypassed' = bypassed \cup {}
      BY <2>2
    <3> QED BY <1>4, <3>1, <3>2, IndexesUntold DEF Inv
  <2> QED BY <2>1, <2>2
<1>6. OfferedGood'
  BY <1>1 DEF OfferedGood
<1>7. Remembered
  BY <1>2, EditRemembers DEF Inv
<1> QED BY <1>3, <1>5, <1>6, <1>7 DEF Inv

LEMMA SetScriptKeeps ==
    ASSUME Inv, NEW o \in Refs, NEW s \in Sources, SetScript(o, s)
    PROVE  Inv' /\ Remembered
<1>1. Edit(o, WithSource(o, s)) /\ BumpStruct /\ Typed
  BY DEF SetScript, Inv
<1>2. s \in [HookNames -> Nat] /\ TRUE \in BOOLEAN
  BY ConstantsAssumption
<1>3. WithSource(o, s) \in Object /\ WithSource(o, s).state = objs[o].state
  BY <1>1, <1>2, Fields DEF WithSource, Object
<1> QED BY <1>1, <1>3, EditTold, EditRemembers

LEMMA ClearScriptKeeps ==
    ASSUME Inv, NEW o \in Refs, ClearScript(o)
    PROVE  Inv' /\ Remembered
<1> DEFINE new == [objs[o] EXCEPT !.source = NoSource, !.enabled = TRUE, !.state = 0]
<1>1. Edit(o, new) /\ BumpStruct /\ Typed
  BY DEF ClearScript, Inv
<1>2. new \in Object
  BY <1>1, NoSourceTyped, Fields DEF Object
<1> HIDE DEF new
<1>3. Inv' /\ \A x \in live : x # o => objs'[x] = objs[x]
  BY <1>1, <1>2, EditTold
<1>4. ASSUME NEW x \in live \cap live', objs'[x].state < objs[x].state PROVE ClearScript(x)
  <2>1. CASE x = o
    BY <2>1
  <2>2. CASE x # o
    <3>1. objs[x].state \in Nat /\ objs'[x].state = objs[x].state
      BY <1>1, <1>3, <2>2, Fields DEF Typed
    <3> QED BY <1>4, <3>1
  <2> QED BY <2>1, <2>2
<1> QED BY <1>3, <1>4 DEF Remembered

LEMMA RetagKeeps ==
    ASSUME Inv, NEW o \in Refs, Retag(o)
    PROVE  Inv' /\ Remembered
<1> DEFINE g == ~objs[o].global
           new == [objs[o] EXCEPT !.global = g]
<1>1. Edit(o, new) /\ BumpStruct /\ Typed
  BY DEF Retag, Inv
<1>2. g \in BOOLEAN
  OBVIOUS
<1> HIDE DEF g
<1>3. new \in Object /\ new.state = objs[o].state
  BY <1>1, <1>2, Fields DEF Object
<1> HIDE DEF new
<1> QED BY <1>1, <1>3, EditTold, EditRemembers

LEMMA SetArchetypeKeeps ==
    ASSUME Inv, NEW o \in Refs, NEW p, SetArchetype(o, p)
    PROVE  Inv' /\ Remembered
<1> DEFINE new == [objs[o] EXCEPT !.arch = p]
<1>1. Edit(o, new) /\ BumpStruct /\ Typed /\ p \in live
  BY DEF SetArchetype, Inv
<1>2. new \in Object /\ new.state = objs[o].state
  BY <1>1, Fields DEF Object, Typed
<1> HIDE DEF new
<1> QED BY <1>1, <1>2, EditTold, EditRemembers

LEMMA DetachKeeps ==
    ASSUME Inv, NEW o \in Refs, Detach(o)
    PROVE  Inv' /\ Remembered
<1>1. Edit(o, Detached(o)) /\ BumpStruct /\ Typed
  BY DEF Detach, Inv
<1>2. Detached(o) \in Object /\ Detached(o).state = objs[o].state
  BY <1>1, DetachedTyped
<1> QED BY <1>1, <1>2, EditTold, EditRemembers

LEMMA SetIntervalKeeps ==
    ASSUME Inv, NEW o \in Refs, NEW n \in Intervals, SetInterval(o, n)
    PROVE  Inv' /\ Remembered
<1> DEFINE new == [objs[o] EXCEPT !.interval = n]
<1>1. Edit(o, new) /\ BumpStruct /\ Typed
  BY DEF SetInterval, Inv
<1>2. new \in Object /\ new.state = objs[o].state
  BY <1>1, Fields DEF Object
<1> HIDE DEF new
<1> QED BY <1>1, <1>2, EditTold, EditRemembers

LEMMA CmdSetKeeps ==
    ASSUME Inv, NEW o \in Refs, NEW n \in Intervals, CmdSet(o, n)
    PROVE  Inv' /\ Remembered
<1> DEFINE new == [objs[o] EXCEPT !.interval = n]
<1>1. Edit(o, new) /\ NoBump({o}) /\ Typed
  BY DEF CmdSet, Inv
<1>2. new \in Object /\ new.state = objs[o].state /\ new.arch = objs[o].arch
  BY <1>1, Fields DEF Object
<1> HIDE DEF new
<1> QED BY <1>1, <1>2, EditUntold

LEMMA TransferAttrKeeps ==
    ASSUME Inv, NEW o \in Refs, NEW p \in Refs, TransferAttr(o, p)
    PROVE  Inv' /\ Remembered
<1>1. /\ {o, p} \subseteq live /\ o # p /\ live' = live /\ NoBump({o, p}) /\ Typed
      /\ \E m, n \in Intervals : Changes([objs EXCEPT ![o].interval = m, ![p].interval = n])
  BY DEF TransferAttr, Inv
<1>2. PICK m \in Intervals, n \in Intervals : Changes([objs EXCEPT ![o].interval = m, ![p].interval = n])
  BY <1>1
<1> DEFINE a == [objs[o] EXCEPT !.interval = m]
           b == [objs[p] EXCEPT !.interval = n]
<1>3. /\ a \in Object /\ a.state = objs[o].state /\ a.arch = objs[o].arch
      /\ b \in Object /\ b.state = objs[p].state /\ b.arch = objs[p].arch
  BY <1>1, Fields DEF Object
<1>4. objs' = [[objs EXCEPT ![o] = a] EXCEPT ![p] = b] /\ offered' = NoList /\ late' = late
  <2>1. objs' = [objs EXCEPT ![o].interval = m, ![p].interval = n] /\ offered' = NoList /\ late' = late
    BY <1>2 DEF Changes
  <2> QED BY <1>1, <2>1 DEF Typed
<1> HIDE DEF a, b
<1>5. /\ objs' \in [Refs -> Object] /\ objs'[o] = a /\ objs'[p] = b
      /\ \A x \in Refs \ {o, p} : objs'[x] = objs[x]
  <2>1. objs \in [Refs -> Object]
    BY <1>1 DEF Typed
  <2> HIDE DEF Object
  <2> QED BY <1>1, <1>3, <1>4, <2>1
<1>6. Typed'
  BY <1>1, <1>4, <1>5 DEF Typed
<1>7. \A x \in live : objs'[x].state = objs[x].state /\ objs'[x].arch = objs[x].arch
  BY <1>1, <1>3, <1>5 DEF Typed
<1>8. SameArchetypes /\ \A x \in live \ {o, p} : SameBehaviour(x)
  BY <1>1, <1>5, <1>7 DEF SameArchetypes, SameBehaviour, Typed
<1>9. IndexesFollow'
  BY <1>1, <1>8, IndexesUntold DEF Inv, NoBump
<1>10. Remembered
  <2>1. \A x \in live : objs[x].state \in Nat
    BY <1>1, Fields DEF Typed
  <2> QED BY <1>7, <2>1 DEF Remembered
<1> QED BY <1>4, <1>6, <1>9, <1>10 DEF Inv, OfferedGood

LEMMA CmdReloadKeeps ==
    ASSUME Inv, NEW o \in Refs, CmdReload(o)
    PROVE  Inv' /\ Remembered
<1> DEFINE new == [objs[o] EXCEPT !.enabled = TRUE]
<1>1. Edit(o, new) /\ NoBump({o}) /\ Typed /\ TRUE \in BOOLEAN
  BY DEF CmdReload, Inv
<1>2. new \in Object /\ new.state = objs[o].state /\ new.arch = objs[o].arch
  BY <1>1, Fields DEF Object
<1> HIDE DEF new
<1> QED BY <1>1, <1>2, EditUntold

(* What a content file makes of an object *)
LEMMA RewrittenTyped ==
    ASSUME Typed, NEW o \in Refs, NEW new \in Rewritten(o)
    PROVE  new \in Object /\ new.state = objs[o].state /\ new.arch = objs[o].arch
<1>1. CASE \E s \in Sources : new = WithSource(o, s)
  <2>1. PICK s \in Sources : new = WithSource(o, s)
    BY <1>1
  <2>2. s \in [HookNames -> Nat] /\ TRUE \in BOOLEAN
    BY ConstantsAssumption
  <2> QED BY <2>1, <2>2, Fields DEF WithSource, Object
<1>2. CASE new = [objs[o] EXCEPT !.global = TRUE]
  <2>1. TRUE \in BOOLEAN
    OBVIOUS
  <2> QED BY <1>2, <2>1, Fields DEF Object
<1>3. CASE \E n \in Intervals : new = [objs[o] EXCEPT !.interval = n]
  BY <1>3, Fields DEF Object
<1> QED BY <1>1, <1>2, <1>3 DEF Rewritten

LEMMA FilesKeep ==
    ASSUME Inv, NEW o \in Refs, ReloadWorld(o) \/ ImportOverRest(o)
    PROVE  Inv' /\ Remembered
<1>1. CASE ReloadWorld(o)
  <2>1. PICK new \in Rewritten(o) : Edit(o, new) /\ BumpStruct
    BY <1>1 DEF ReloadWorld
  <2>2. Typed
    BY DEF Inv
  <2>3. new \in Object /\ new.state = objs[o].state
    BY <2>2, RewrittenTyped
  <2> QED BY <2>1, <2>2, <2>3, EditTold, EditRemembers
<1>2. CASE ImportOverRest(o)
  <2>1. PICK new \in Rewritten(o) : Edit(o, new) /\ NoBump({o})
    BY <1>2 DEF ImportOverRest
  <2>2. new \in Object /\ new.state = objs[o].state /\ new.arch = objs[o].arch
    BY RewrittenTyped DEF Inv
  <2> QED BY <2>1, <2>2, EditUntold
<1> QED BY <1>1, <1>2

(* An object comes, or goes. *)
LEMMA CreateKeeps ==
    ASSUME Inv, NEW r \in Refs \ live, NEW new \in Object,
           Changes([objs EXCEPT ![r] = new]), live' = live \cup {r}, BumpStruct
    PROVE  Inv' /\ Remembered
<1>1. /\ objs' = [objs EXCEPT ![r] = new] /\ offered' = NoList /\ late' = late /\ derived' = NoList
  BY DEF Changes, BumpStruct
<1>2. Typed'
  BY <1>1 DEF Typed, Inv
<1>3. IndexesFollow' /\ OfferedGood'
  BY <1>1 DEF IndexesFollow, OfferedGood
<1>4. ASSUME NEW x \in live PROVE ~(objs'[x].state < objs[x].state)
  <2>1. x \in Refs /\ objs[x].state \in Nat /\ objs'[x] = objs[x]
    BY <1>1, Fields DEF Typed, Inv
  <2> QED BY <2>1
<1> QED BY <1>2, <1>3, <1>4 DEF Inv, Remembered

LEMMA CloneKeeps ==
    ASSUME Inv, NEW o \in Refs, NEW r \in Refs, Clone(o, r)
    PROVE  Inv' /\ Remembered
<1> DEFINE new == [objs[o] EXCEPT !.global = FALSE]
<1>1. /\ r \notin live /\ Changes([objs EXCEPT ![r] = new]) /\ live' = live \cup {r} /\ BumpStruct
      /\ Typed /\ FALSE \in BOOLEAN
  BY DEF Clone, NewRef, Inv
<1>2. new \in Object
  BY <1>1, Fields DEF Object
<1> HIDE DEF new
<1> QED BY <1>1, <1>2, CreateKeeps

LEMMA SpawnKeeps ==
    ASSUME Inv, NEW o \in Refs, NEW l, NEW r \in Refs, Spawn(o, l, r)
    PROVE  Inv' /\ Remembered
<1>1. /\ r \notin live /\ l \in live /\ Changes([objs EXCEPT ![r] = Blank(o, l)])
      /\ live' = live \cup {r} /\ BumpStruct
  BY DEF Spawn, NewRef
<1>2. Blank(o, l) \in Object
  BY <1>1, BlankTyped DEF Inv, Typed
<1> QED BY <1>1, <1>2, CreateKeeps

LEMMA DestroyKeeps ==
    ASSUME Inv, NEW o \in Refs, Destroy(o)
    PROVE  Inv' /\ Remembered
<1>1. /\ objs' = objs /\ offered' = NoList /\ late' = late /\ derived' = NoList /\ live' = live \ {o}
  BY DEF Destroy, Changes, BumpStruct
<1>2. Typed'
  BY <1>1 DEF Typed, Inv
<1>3. IndexesFollow' /\ OfferedGood'
  BY <1>1 DEF IndexesFollow, OfferedGood
<1>4. ASSUME NEW x \in live PROVE ~(objs'[x].state < objs[x].state)
  <2>1. x \in Refs /\ objs[x].state \in Nat /\ objs'[x] = objs[x]
    BY <1>1, Fields DEF Typed, Inv
  <2> QED BY <2>1
<1> QED BY <1>2, <1>3, <1>4 DEF Inv, Remembered

LEMMA RelocateKeeps ==
    ASSUME Inv, NEW o \in Refs, NEW l, Relocate(o, l)
    PROVE  Inv' /\ Remembered
<1> DEFINE new == [objs[o] EXCEPT !.home = l]
<1>1. Edit(o, new) /\ UNCHANGED <<derived, bypassed>> /\ Typed /\ l \in Refs
  BY DEF Relocate, Inv, Typed
<1>2. /\ new \in Object /\ new.state = objs[o].state /\ new.arch = objs[o].arch
      /\ new.source = objs[o].source /\ new.enabled = objs[o].enabled
      /\ new.interval = objs[o].interval /\ new.global = objs[o].global
  BY <1>1, Fields DEF Object
<1> HIDE DEF new
<1> QED BY <1>1, <1>2, EditUntold

-----------------------------------------------------------------------------
(* Ticks and questions *)

(* A state written back, by a run of an object's own hook or none *)
LEMMA WriteBackKeeps ==
    ASSUME Inv, NEW o, NEW s \in 0..MaxState, WriteBackScriptState(o, s),
           live' = live, UNCHANGED <<derived, bypassed>>, late' = NoList \/ late' = late
    PROVE  Inv' /\ \A x \in live : x # o => objs'[x] = objs[x]
<1>1. /\ objs' = IF o \in live THEN [objs EXCEPT ![o].state = s] ELSE objs
      /\ offered' = NoList
  BY DEF WriteBackScriptState
<1>2. Typed
  BY DEF Inv
<1> DEFINE new == [objs[o] EXCEPT !.state = s]
<1>3. CASE o \in live
  <2>1. o \in Refs
    BY <1>2, <1>3 DEF Typed
  <2>2. /\ new \in Object /\ new.arch = objs[o].arch
        /\ new.source = objs[o].source /\ new.enabled = objs[o].enabled
        /\ new.interval = objs[o].interval /\ new.global = objs[o].global
    BY <1>2, <2>1, Fields DEF Object
  <2>3. objs' = [objs EXCEPT ![o] = new]
    BY <1>1, <1>3, <2>1
  <2> HIDE DEF new
  <2>4. objs' \in [Refs -> Object] /\ objs'[o] = new /\ \A x \in Refs : x # o => objs'[x] = objs[x]
    <3>1. objs \in [Refs -> Object]
      BY <1>2 DEF Typed
    <3> HIDE DEF Object
    <3> QED BY <2>1, <2>2, <2>3, <3>1
  <2>5. SameArchetypes /\ \A x \in live \ {} : SameBehaviour(x)
    BY <1>2, <2>2, <2>4 DEF SameArchetypes, SameBehaviour, Typed
  <2>6. derived' = derived /\ bypassed' = bypassed \cup {}
    OBVIOUS
  <2>7. IndexesFollow'
    BY <1>2, <2>5, <2>6, IndexesUntold DEF Inv
  <2>8. Typed'
    BY <1>1, <1>2, <2>4 DEF Typed
  <2> QED BY <1>1, <1>2, <2>4, <2>7, <2>8 DEF Inv, OfferedGood, Typed
<1>4. CASE o \notin live
  <2>1. objs' = objs
    BY <1>1, <1>4
  <2>2. SameArchetypes /\ \A x \in live \ {} : SameBehaviour(x)
    BY <2>1 DEF SameArchetypes, SameBehaviour
  <2>3. derived' = derived /\ bypassed' = bypassed \cup {}
    OBVIOUS
  <2>4. IndexesFollow'
    BY <1>2, <2>2, <2>3, IndexesUntold DEF Inv
  <2>5. Typed'
    BY <1>1, <1>2, <2>1 DEF Typed
  <2> QED BY <1>1, <2>1, <2>4, <2>5 DEF Inv, OfferedGood
<1> QED BY <1>3, <1>4

LEMMA DeliveryEndKeeps ==
    ASSUME Inv, DeliveryEnd
    PROVE  Inv' /\ Remembered
<1>1. /\ late # NoList /\ WriteBackScriptState(late.of, late.state) /\ late' = NoList
      /\ live' = live /\ UNCHANGED <<derived, bypassed>>
  BY DEF DeliveryEnd
<1>2. PICK o, s : o = late.of /\ s = late.state
  OBVIOUS
<1>3. s \in 0..MaxState /\ WriteBackScriptState(o, s)
  BY <1>1, <1>2 DEF Inv, Typed
<1>4. Inv' /\ \A x \in live : x # o => objs'[x] = objs[x]
  BY <1>1, <1>3, WriteBackKeeps
<1>5. ASSUME NEW x \in live, objs'[x].state < objs[x].state PROVE late.of = x
  <2>1. CASE x # o
    <3>1. objs'[x] = objs[x] /\ objs[x].state \in Nat
      BY <1>4, <2>1, Fields DEF Inv, Typed
    <3> QED BY <1>5, <3>1
  <2> QED BY <1>2, <2>1
<1> QED BY <1>4, <1>5 DEF Remembered

LEMMA FireHookKeeps ==
    ASSUME Inv, NEW o \in Refs, FireHook(o)
    PROVE  Inv' /\ Remembered
<1>1. /\ o \in live /\ objs[o].state < MaxState /\ WriteBackScriptState(o, After(o))
      /\ live' = live /\ late' = late /\ UNCHANGED <<derived, bypassed>>
  BY DEF FireHook, Remembers
<1>2. objs[o].state \in Nat /\ After(o) = objs[o].state + 1 /\ After(o) \in 0..MaxState
  BY <1>1, Fields, ConstantsAssumption DEF After, Inv
<1>3. PICK s : s = After(o)
  OBVIOUS
<1>4. s \in 0..MaxState /\ WriteBackScriptState(o, s)
  BY <1>1, <1>2, <1>3
<1>5. Inv' /\ \A x \in live : x # o => objs'[x] = objs[x]
  BY <1>1, <1>4, WriteBackKeeps
<1>6. objs'[o].state = s
  BY <1>1, <1>4 DEF WriteBackScriptState, Inv, Typed, Object
<1>7. ASSUME NEW x \in live PROVE ~(objs'[x].state < objs[x].state)
  <2>1. CASE x # o
    <3>1. objs'[x] = objs[x] /\ objs[x].state \in Nat
      BY <1>5, <2>1, Fields DEF Inv, Typed
    <3> QED BY <3>1
  <2>2. CASE x = o
    BY <1>2, <1>3, <1>6, <2>2
  <2> QED BY <2>1, <2>2
<1> QED BY <1>5, <1>7 DEF Remembered

(* Who only asks leaves the objects alone. *)
LEMMA AskingRemembers ==
    ASSUME Typed, UNCHANGED <<live, objs>>
    PROVE  Remembered
<1>1. ASSUME NEW x \in live PROVE ~(objs'[x].state < objs[x].state)
  <2>1. objs[x].state \in Nat
    BY Fields DEF Typed
  <2> QED BY <2>1
<1> QED BY <1>1 DEF Remembered

LEMMA FireTickKeeps ==
    ASSUME Inv, NEW o \in Refs, FireTick(o)
    PROVE  Inv' /\ Remembered
<1>1. /\ Consult /\ UNCHANGED <<live, objs, builders, offered>>
      /\ late' = IF o \in live /\ Remembers(o) THEN [of |-> o, state |-> After(o)] ELSE NoList
      /\ Typed /\ IndexesFollow /\ OfferedGood
  BY DEF FireTick, Inv
<1>2. IndexesFollow' /\ Indexes' = Indexes
  BY <1>1, IndexesConsulted
<1>3. OfferedGood'
  BY <1>1, <1>2, OfferedLooked
<1>4. late' # NoList => late'.state \in 0..MaxState
  <2>1. CASE o \in live /\ Remembers(o)
    <3>1. objs[o].state \in Nat /\ objs[o].state < MaxState
      BY <1>1, <2>1, Fields DEF Remembers
    <3> QED BY <1>1, <2>1, <3>1, ConstantsAssumption DEF After
  <2> QED BY <1>1, <2>1
<1>5. Typed'
  BY <1>1, <1>4 DEF Typed
<1>6. Remembered
  BY <1>1, AskingRemembers
<1> QED BY <1>2, <1>3, <1>5, <1>6 DEF Inv

LEMMA AskingKeeps ==
    ASSUME Inv, NEW p \in Players, SendCommands(p) \/ DispatchFallback(p) \/ Grant(p)
    PROVE  Inv' /\ Remembered
<1>1. Typed /\ IndexesFollow /\ OfferedGood
  BY DEF Inv
<1>2. CASE SendCommands(p)
  <2>1. /\ p \in live /\ Consult /\ UNCHANGED <<live, objs, builders, late>>
        /\ offered' = [room |-> objs[p].home, builder |-> p \in builders, list |-> CommandsFor(p), for |-> p]
    BY <1>2 DEF SendCommands
  <2>2. IndexesFollow' /\ Indexes' = Indexes
    BY <1>1, <2>1, IndexesConsulted
  <2>3. OfferedGood'
    BY <1>1, <2>1, <2>2, OfferedMade
  <2>4. offered'.for = p /\ p \in Refs
    BY <2>1, ConstantsAssumption
  <2>5. Typed'
    BY <1>1, <2>1, <2>4 DEF Typed
  <2> QED BY <1>1, <2>1, <2>2, <2>3, <2>5, AskingRemembers DEF Inv
<1>3. CASE DispatchFallback(p)
  <2>1. Consult /\ UNCHANGED <<live, objs, builders, offered, late>>
    BY <1>3 DEF DispatchFallback
  <2>2. IndexesFollow' /\ Indexes' = Indexes
    BY <1>1, <2>1, IndexesConsulted
  <2>3. OfferedGood'
    BY <1>1, <2>1, <2>2, OfferedLooked
  <2>4. Typed'
    BY <1>1, <2>1 DEF Typed
  <2> QED BY <1>1, <2>1, <2>2, <2>3, <2>4, AskingRemembers DEF Inv
<1>4. CASE Grant(p)
  <2>1. UNCHANGED <<live, objs, derived, offered, late, bypassed>>
    BY <1>4 DEF Grant
  <2>2. SameArchetypes /\ (\A x \in live \ {} : SameBehaviour(x)) /\ bypassed' = bypassed \cup {}
    BY <2>1 DEF SameArchetypes, SameBehaviour
  <2>3. IndexesFollow'
    BY <1>1, <2>1, <2>2, IndexesUntold
  <2>4. Indexes' = Indexes
    BY <1>1, <2>1, SameBuild DEF Indexes
  <2>5. OfferedGood'
    BY <1>1, <2>1, <2>4, OfferedLooked
  <2>6. Typed'
    BY <1>1, <2>1 DEF Typed
  <2> QED BY <1>1, <2>1, <2>3, <2>5, <2>6, AskingRemembers DEF Inv
<1> QED BY <1>2, <1>3, <1>4

-----------------------------------------------------------------------------
(* The theorems *)

LEMMA InitInv == Init => Inv
<1> SUFFICES ASSUME Init PROVE Inv
  OBVIOUS
<1>1. PICK start \in Starts :
        /\ live = DOMAIN start
        /\ objs = [o \in Refs |-> IF o \in live THEN start[o] ELSE Unborn]
  BY DEF Init
<1>2. derived = NoList /\ offered = NoList /\ late = NoList
  BY DEF Init
<1>3. Unborn \in Object
  BY BlankTyped DEF Unborn
<1>4. DOMAIN start \subseteq Refs /\ \A o \in DOMAIN start : start[o] \in Object
  BY ConstantsAssumption
<1>5. Typed
  <2> HIDE DEF Object
  <2> QED BY <1>1, <1>2, <1>3, <1>4 DEF Typed
<1> QED BY <1>2, <1>5 DEF Inv, IndexesFollow, OfferedGood

LEMMA NextKeepsInv == Inv /\ [Next]_vars => Inv' /\ Remembered
<1> SUFFICES ASSUME Inv, [Next]_vars PROVE Inv' /\ Remembered
  OBVIOUS
<1>0. Scripted \subseteq Refs /\ live \subseteq Refs
  BY ConstantsAssumption DEF Inv, Typed
<1>1. CASE Behaviour
  BY <1>0, <1>1, ClearScriptKeeps, RetagKeeps, DetachKeeps, CmdReloadKeeps, SetScriptKeeps,
     TransferAttrKeeps, SetArchetypeKeeps, SetIntervalKeeps, CmdSetKeeps DEF Behaviour
<1>2. CASE Files
  BY <1>0, <1>2, FilesKeep DEF Files
<1>3. CASE Existence
  BY <1>0, <1>3, DestroyKeeps, RelocateKeeps, CloneKeeps, SpawnKeeps DEF Existence
<1>4. CASE Asking
  BY <1>4, AskingKeeps DEF Asking
<1>5. CASE Ticking
  BY <1>5, DeliveryEndKeeps, FireTickKeeps, FireHookKeeps DEF Ticking
<1>6. CASE UNCHANGED vars
  <2>1. /\ Typed /\ IndexesFollow /\ OfferedGood
        /\ UNCHANGED <<live, objs, builders, derived, offered, late, bypassed>>
    BY <1>6 DEF Inv, vars
  <2>2. SameArchetypes /\ (\A x \in live \ {} : SameBehaviour(x)) /\ bypassed' = bypassed \cup {}
    BY <2>1 DEF SameArchetypes, SameBehaviour
  <2>3. IndexesFollow'
    BY <2>1, <2>2, IndexesUntold
  <2>4. Indexes' = Indexes
    BY <2>1, SameBuild DEF Indexes
  <2>5. OfferedGood'
    BY <2>1, <2>4, OfferedLooked
  <2>6. Typed'
    BY <2>1 DEF Typed
  <2> QED BY <2>1, <2>3, <2>5, <2>6, AskingRemembers DEF Inv
<1> QED BY <1>1, <1>2, <1>3, <1>4, <1>5, <1>6 DEF Next

LEMMA Invariance == Spec => []Inv
  BY InitInv, NextKeepsInv, PTL DEF Spec

(* What the engine keeps of who ticks and who serves is what it would make    *)
(* afresh, but for objects under something that a write told nobody of, and   *)
(* the commands offered are those that find somebody who answers, but for     *)
(* what one in the same room carries (DerivedIndexes, bump_struct,            *)
(* send_commands).                                                            *)
THEOREM ListsAreTrue == Spec => []ListsFollow
<1>1. ASSUME Inv PROVE ListsFollow
  <2>1. CommandsFollow
    <3>1. ASSUME NEW p \in Players \cap live, Fits(p), NEW h \in Commands \cup Builtin(TRUE)
          PROVE  \/ h \in offered.list <=> h \in Builtin(p \in builders) \/ (h \in Commands /\ Answering(p, h) # {})
                 \/ offered.for # p /\ h \in Own(p) \cup Own(offered.for)
      <4>1. offered # NoList /\ offered.room = objs[p].home /\ offered.builder = (p \in builders)
        BY <3>1 DEF Fits
      <4>2. GoodFor(p)
        BY <1>1, <4>1 DEF Inv, OfferedGood
      <4>3. Builtin(offered.builder) = Builtin(p \in builders)
        BY <4>1, Zenon
      <4>4. \/ h \in offered.list <=> h \in Builtin(offered.builder) \/ (h \in Commands /\ Answering(p, h) # {})
            \/ offered.for # p /\ h \in Own(p) \cup Own(offered.for)
        BY <4>2 DEF GoodFor
      <4> QED BY <4>3, <4>4
    <3> QED BY <3>1 DEF CommandsFollow
  <2> QED BY <1>1, <2>1 DEF Inv, Typed, ListsFollow
<1> QED BY <1>1, Invariance, PTL

(* Whatever hooks and commands come in between, what an object remembers is   *)
(* lost only with its script, and by the end of an on_tick run of the engine's*)
(* own tick (fire_tick_hook_with_args, write_back_script_state).              *)
THEOREM NothingForgotten == Spec => StateKept
<1>1. Inv /\ [Next]_vars =>
        [\A o \in live \cap live' : objs'[o].state < objs[o].state =>
            \/ ClearScript(o)
            \/ DeliveryEnd /\ late.of = o]_vars
  BY NextKeepsInv DEF Remembered
<1> QED BY <1>1, Invariance, PTL DEF Spec, StateKept

-----------------------------------------------------------------------------
(* What is picked from a line: the nearest value that is set, 0 if none is.   *)
(* Names, intervals and tags are functions from objects to values here.       *)

Last == MaxArchetypeDepth - 1
Set(up, v) == {i \in 0..Last : v[up[i]] # 0}
First(up, v) == IF Set(up, v) = {} THEN 0 ELSE v[up[Min(Set(up, v))]]

LEMMA FirstSet ==
    ASSUME NEW up, NEW v, NEW k \in 0..Last, v[up[k]] # 0,
           \A i \in 0..Last : i < k => v[up[i]] = 0
    PROVE  First(up, v) = v[up[k]]
<1>1. Set(up, v) \in SUBSET Nat /\ k \in Set(up, v)
  BY DEF Set
<1>2. Min(Set(up, v)) \in Set(up, v) /\ \A i \in Set(up, v) : Min(Set(up, v)) <= i
  <2>1. PICK n \in Set(up, v) : \A i \in Set(up, v) : n <= i
    BY <1>1, Least
  <2> QED BY <2>1 DEF Min
<1>3. Min(Set(up, v)) = k
  BY <1>1, <1>2 DEF Set
<1> QED BY <1>1, <1>3 DEF First

LEMMA NoneSet ==
    ASSUME NEW up, NEW v, \A i \in 0..Last : v[up[i]] = 0
    PROVE  First(up, v) = 0
BY DEF First, Set

(* Of a line that says something, one place is the nearest that does.         *)
LEMMA NearestSet ==
    ASSUME NEW up, NEW v
    PROVE  \/ First(up, v) = 0 /\ \A i \in 0..Last : v[up[i]] = 0
           \/ \E k \in 0..Last : /\ v[up[k]] # 0 /\ First(up, v) = v[up[k]]
                                /\ \A i \in 0..Last : i < k => v[up[i]] = 0
<1>1. CASE Set(up, v) = {}
  BY <1>1 DEF Set, First
<1>2. CASE Set(up, v) # {}
  <2>1. Set(up, v) \in SUBSET Nat
    BY DEF Set
  <2>2. PICK k \in Set(up, v) : \A i \in Set(up, v) : k <= i
    BY <1>2, <2>1, Least
  <2>3. k \in 0..Last /\ v[up[k]] # 0
    BY DEF Set
  <2>4. ASSUME NEW i \in 0..Last, i < k PROVE v[up[i]] = 0
    <3>1. i \notin Set(up, v)
      BY <2>2, <2>3, <2>4
    <3> QED BY <3>1 DEF Set
  <2> QED BY <2>3, <2>4, FirstSet
<1> QED BY <1>1, <1>2

(* Induction up to a bound, over a set.                                       *)
LEMMA UpTo ==
    ASSUME NEW S, NEW m \in Nat, 0 \in S, \A i \in 0..m : i + 1 \in 0..m /\ i \in S => i + 1 \in S
    PROVE  0..m \subseteq S
<1> DEFINE T == (0..m) \ S
<1> SUFFICES ASSUME T # {} PROVE FALSE
  OBVIOUS
<1>1. T \in SUBSET Nat
  OBVIOUS
<1>2. PICK n \in T : \A k \in T : n <= k
  BY <1>1, Least
<1>3. n \in 0..m /\ n \notin S /\ n # 0
  OBVIOUS
<1>4. n - 1 \in 0..m /\ (n - 1) + 1 = n
  BY <1>3
<1>5. n - 1 \in S
  BY <1>2, <1>4
<1> QED BY <1>3, <1>4, <1>5

(* Lines before and after one object, o, loses its archetype.                 *)
Cut(next, o) == [next EXCEPT ![o] = None]
Stops(A, next) == next \in [A -> A] /\ None \in A /\ next[None] = None

LEMMA LoneLine ==
    ASSUME NEW A, NEW next, Stops(A, next), NEW o \in A, NEW f, Goes(A, Cut(next, o), o, Last, f)
    PROVE  f[0] = o /\ \A i \in 1..Last : f[i] = None
<1> DEFINE S == {i \in 0..Last : i = 0 \/ f[i] = None}
<1>1. Last \in Nat /\ f[0] = o
  BY Depth DEF Goes, Last
<1>2. Cut(next, o)[o] = None /\ Cut(next, o)[None] = None
  BY DEF Cut, Stops
<1>3. ASSUME NEW i \in 0..Last, i + 1 \in 0..Last, i \in S PROVE i + 1 \in S
  <2>1. f[i + 1] = Cut(next, o)[f[i]]
    <3>1. i + 1 \in 1..Last /\ (i + 1) - 1 = i
      BY <1>3
    <3> QED BY <3>1 DEF Goes
  <2> QED BY <1>1, <1>2, <1>3, <2>1
<1>4. 0 \in S
  BY <1>1
<1>5. 0..Last \subseteq S
  <2> HIDE DEF S
  <2> QED BY <1>1, <1>3, <1>4, UpTo
<1> QED BY <1>1, <1>5

LEMMA LoneFirst ==
    ASSUME NEW A, NEW next, Stops(A, next), NEW o \in A, NEW f, Goes(A, Cut(next, o), o, Last, f),
           NEW w, w[None] = 0
    PROVE  First(f, w) = w[o]
<1>1. f[0] = o /\ \A i \in 1..Last : f[i] = None
  BY LoneLine
<1>2. Last \in Nat /\ 0 \in 0..Last
  BY Depth DEF Last
<1>3. CASE w[o] = 0
  <2>1. \A i \in 0..Last : w[f[i]] = 0
    BY <1>1, <1>2, <1>3
  <2> QED BY <1>3, <2>1, NoneSet
<1>4. CASE w[o] # 0
  <2>1. w[f[0]] # 0 /\ \A i \in 0..Last : i < 0 => w[f[i]] = 0
    BY <1>1, <1>2, <1>4
  <2> QED BY <1>1, <1>2, <2>1, FirstSet
<1> QED BY <1>3, <1>4

(* A line that o is not on stays; one that comes to o first at k stays so far *)
(* and ends there.                                                            *)
LEMMA CutLine ==
    ASSUME NEW A, NEW next, Stops(A, next), NEW o \in A, NEW q \in A, NEW k \in Nat,
           NEW up, Goes(A, next, q, Last, up),
           NEW cut, Goes(A, Cut(next, o), q, Last, cut),
           \A i \in 0..Last : i < k => up[i] # o
    PROVE  /\ \A i \in 0..Last : i <= k => cut[i] = up[i]
           /\ k \in 0..Last /\ up[k] = o => \A i \in 0..Last : i > k => cut[i] = None
<1>1. Last \in Nat /\ up[0] = q /\ cut[0] = q
  BY Depth DEF Goes, Last
<1>2. \A i \in 0..Last : up[i] \in A /\ cut[i] \in A
  BY DEF Goes
<1>3. ASSUME NEW i \in 0..Last, i + 1 \in 0..Last
      PROVE  up[i + 1] = next[up[i]] /\ cut[i + 1] = Cut(next, o)[cut[i]]
  <2>1. i + 1 \in 1..Last /\ (i + 1) - 1 = i
    BY <1>3
  <2> QED BY <2>1 DEF Goes
<1>4. /\ \A x \in A : x # o => Cut(next, o)[x] = next[x]
      /\ Cut(next, o)[o] = None /\ Cut(next, o)[None] = None
  BY DEF Cut, Stops
<1> DEFINE S == {i \in 0..Last : i <= k => cut[i] = up[i]}
           N == {i \in 0..Last : i > k => cut[i] = None}
<1>5. 0..Last \subseteq S
  <2>1. 0 \in S
    BY <1>1
  <2>2. ASSUME NEW i \in 0..Last, i + 1 \in 0..Last, i \in S PROVE i + 1 \in S
    <3> SUFFICES ASSUME i + 1 <= k PROVE cut[i + 1] = up[i + 1]
      BY <2>2
    <3>1. i < k /\ i <= k
      OBVIOUS
    <3>2. cut[i] = up[i] /\ up[i] # o /\ up[i] \in A
      BY <1>2, <2>2, <3>1
    <3> QED BY <1>3, <1>4, <2>2, <3>2
  <2> HIDE DEF S
  <2> QED BY <1>1, <2>1, <2>2, UpTo
<1>6. ASSUME k \in 0..Last, up[k] = o PROVE 0..Last \subseteq N
  <2>1. 0 \in N
    BY <1>1
  <2>2. ASSUME NEW i \in 0..Last, i + 1 \in 0..Last, i \in N PROVE i + 1 \in N
    <3> SUFFICES ASSUME i + 1 > k PROVE cut[i + 1] = None
      BY <2>2
    <3>1. CASE i = k
      <4>1. cut[i] = o
        BY <1>5, <1>6, <3>1
      <4> QED BY <1>3, <1>4, <2>2, <4>1
    <3>2. CASE i # k
      <4>1. i > k
        BY <3>2
      <4>2. cut[i] = None
        BY <2>2, <4>1
      <4> QED BY <1>3, <1>4, <2>2, <4>2
    <3> QED BY <3>1, <3>2
  <2> HIDE DEF N
  <2> QED BY <1>1, <2>1, <2>2, UpTo
<1> QED BY <1>5, <1>6

(* From the place where a line comes to o on, it is the line of o; and if it  *)
(* ends within the walk, so does that, as many places earlier.                *)
Continues(up, k, own) == \A j \in 0..Last : IF k + j \in 0..Last THEN up[k + j] = own[j] ELSE own[j] = None

LEMMA Shifted ==
    ASSUME NEW A, NEW next, Stops(A, next), NEW o \in A, NEW q \in A, NEW k \in 0..Last,
           NEW up, Goes(A, next, q, Last, up), up[k] = o, next[up[Last]] = None,
           NEW own, Goes(A, next, o, Last, own)
    PROVE  Continues(up, k, own)
<1>1. Last \in Nat /\ own[0] = o
  BY Depth DEF Goes, Last
<1>2. ASSUME NEW i \in 0..Last, i + 1 \in 0..Last
      PROVE  up[i + 1] = next[up[i]] /\ own[i + 1] = next[own[i]]
  <2>1. i + 1 \in 1..Last /\ (i + 1) - 1 = i
    BY <1>2
  <2> QED BY <2>1 DEF Goes
<1> DEFINE S == {j \in 0..Last : IF k + j \in 0..Last THEN up[k + j] = own[j] ELSE own[j] = None}
<1>3. 0 \in S
  BY <1>1
<1>4. ASSUME NEW j \in 0..Last, j + 1 \in 0..Last, j \in S PROVE j + 1 \in S
  <2>1. own[j + 1] = next[own[j]]
    BY <1>2, <1>4
  <2>2. CASE k + j + 1 \in 0..Last
    <3>1. k + j \in 0..Last /\ (k + j) + 1 = k + (j + 1) /\ (k + j) + 1 \in 0..Last
      BY <1>1, <2>2
    <3>2. up[(k + j) + 1] = next[up[k + j]]
      BY <1>2, <3>1
    <3>3. up[k + j] = own[j]
      BY <1>4, <3>1
    <3> QED BY <1>4, <2>1, <3>1, <3>2, <3>3
  <2>3. CASE k + j = Last
    <3>1. up[Last] = own[j]
      BY <1>4, <2>3
    <3>2. k + (j + 1) \notin 0..Last
      BY <2>3, <1>1
    <3> QED BY <1>4, <2>1, <3>1, <3>2
  <2>4. CASE k + j > Last
    <3>1. k + j \notin 0..Last /\ k + (j + 1) \notin 0..Last
      BY <2>4, <1>1
    <3>2. own[j] = None
      BY <1>4, <3>1
    <3> QED BY <1>4, <2>1, <3>1, <3>2 DEF Stops
  <2> QED BY <1>1, <2>2, <2>3, <2>4
<1>5. 0..Last \subseteq S
  <2> HIDE DEF S
  <2> QED BY <1>1, <1>3, <1>4, UpTo
<1> QED BY <1>5 DEF Continues

(* If o takes with it what its line said, a line through o says what it did.  *)
LEMMA CutSaysTheSame ==
    ASSUME NEW A, NEW next, Stops(A, next), NEW o \in A, NEW q \in A,
           NEW up, Goes(A, next, q, Last, up), next[up[Last]] = None,
           NEW cut, Goes(A, Cut(next, o), q, Last, cut),
           NEW own, Goes(A, next, o, Last, own),
           NEW v, NEW w, v[None] = 0, w[None] = 0, w[o] = First(own, v),
           \A x \in A : x # o => w[x] = v[x]
    PROVE  First(cut, w) = First(up, v)
<1>1. Last \in Nat /\ \A i \in 0..Last : up[i] \in A
  BY Depth DEF Goes, Last
<1>2. CASE \A i \in 0..Last : up[i] # o
  <2>1. \A i \in 0..Last : i < Last + 1 => up[i] # o
    BY <1>2
  <2>2. Last + 1 \in Nat
    BY <1>1
  <2>3. \A i \in 0..Last : i <= Last + 1 => cut[i] = up[i]
    BY <2>1, <2>2, CutLine
  <2>4. \A i \in 0..Last : i <= Last + 1
    BY <1>1
  <2>5. \A i \in 0..Last : cut[i] = up[i] /\ w[cut[i]] = v[up[i]]
    BY <1>1, <1>2, <2>3, <2>4
  <2>6. Set(cut, w) = Set(up, v)
    BY <2>5 DEF Set
  <2>7. CASE First(up, v) = 0 /\ \A i \in 0..Last : v[up[i]] = 0
    BY <2>5, <2>7, NoneSet
  <2>8. ASSUME NEW k \in 0..Last, v[up[k]] # 0, First(up, v) = v[up[k]],
               \A i \in 0..Last : i < k => v[up[i]] = 0
        PROVE  First(cut, w) = First(up, v)
    <3>1. w[cut[k]] # 0 /\ \A i \in 0..Last : i < k => w[cut[i]] = 0
      BY <2>5, <2>8
    <3>2. First(cut, w) = w[cut[k]]
      BY <3>1, FirstSet
    <3> QED BY <2>5, <2>8, <3>2
  <2> QED BY <2>7, <2>8, NearestSet
<1>3. CASE \E i \in 0..Last : up[i] = o
  <2> DEFINE P == {i \in 0..Last : up[i] = o}
  <2>1. P \in SUBSET Nat /\ P # {}
    BY <1>3
  <2>2. PICK k \in P : \A i \in P : k <= i
    <3> HIDE DEF P
    <3> QED BY <2>1, Least
  <2>3. k \in 0..Last /\ k \in Nat /\ up[k] = o
    OBVIOUS
  <2>4. \A i \in 0..Last : i < k => up[i] # o
    <3> SUFFICES ASSUME NEW i \in 0..Last, i < k, up[i] = o PROVE FALSE
      OBVIOUS
    <3>1. i \in P
      OBVIOUS
    <3>2. k <= i
      <4> HIDE DEF P
      <4> QED BY <2>2, <3>1
    <3> QED BY <1>1, <2>3, <3>2
  <2> HIDE DEF P
  <2>5. /\ \A i \in 0..Last : i <= k => cut[i] = up[i]
        /\ \A i \in 0..Last : i > k => cut[i] = None
    <3>1. k \in Nat
      BY <2>3
    <3>2. /\ \A i \in 0..Last : i <= k => cut[i] = up[i]
          /\ k \in 0..Last /\ up[k] = o => \A i \in 0..Last : i > k => cut[i] = None
      BY <3>1, <2>4, CutLine
    <3> QED BY <2>3, <3>2
  <2>6. \A j \in 0..Last : IF k + j \in 0..Last THEN up[k + j] = own[j] ELSE own[j] = None
    <3>1. k \in 0..Last
      BY <2>3
    <3>2. up[k] = o
      BY <2>3
    <3>3. Continues(up, k, own)
      BY <3>1, <3>2, Shifted
    <3> QED BY <3>3 DEF Continues
  <2>7. \A i \in 0..Last : i < k => w[cut[i]] = v[up[i]]
    BY <1>1, <2>3, <2>4, <2>5
  <2>8. cut[k] = o /\ \A i \in 0..Last : i > k => w[cut[i]] = 0
    BY <1>1, <2>3, <2>5
  <2>9. ASSUME NEW i \in 0..Last, i < k, v[up[i]] # 0, \A m \in 0..Last : m < i => v[up[m]] = 0
        PROVE  First(cut, w) = First(up, v)
    <3>1. First(up, v) = v[up[i]]
      BY <2>9, FirstSet
    <3>2. \A m \in 0..Last : m < i => w[cut[m]] = 0
      <4> SUFFICES ASSUME NEW m \in 0..Last, m < i PROVE w[cut[m]] = 0
        OBVIOUS
      <4>1. m < k
        BY <2>3, <2>9
      <4> QED BY <2>7, <2>9, <4>1
    <3>3. First(cut, w) = w[cut[i]]
      BY <2>7, <2>9, <3>2, FirstSet
    <3> QED BY <2>7, <2>9, <3>1, <3>3
  <2>10. ASSUME \A i \in 0..Last : i < k => v[up[i]] = 0 PROVE First(cut, w) = First(up, v)
    <3>1. \A i \in 0..Last : i < k => w[cut[i]] = 0
      BY <2>7, <2>10
    <3>2. CASE First(own, v) = 0 /\ \A j \in 0..Last : v[own[j]] = 0
      <4>1. \A i \in 0..Last : w[cut[i]] = 0
        <5> SUFFICES ASSUME NEW i \in 0..Last PROVE w[cut[i]] = 0
          OBVIOUS
        <5>1. i < k \/ i = k \/ i > k
          BY <2>3
        <5> QED BY <2>8, <3>1, <3>2, <5>1
      <4>2. \A i \in 0..Last : v[up[i]] = 0
        <5> SUFFICES ASSUME NEW i \in 0..Last, ~(i < k) PROVE v[up[i]] = 0
          BY <2>10
        <5>1. i - k \in 0..Last /\ k + (i - k) = i
          BY <1>1, <2>3
        <5>2. up[i] = own[i - k]
          BY <2>6, <5>1
        <5> QED BY <3>2, <5>1, <5>2
      <4> QED BY <4>1, <4>2, NoneSet
    <3>3. ASSUME NEW j \in 0..Last, v[own[j]] # 0, First(own, v) = v[own[j]],
                 \A m \in 0..Last : m < j => v[own[m]] = 0
          PROVE  First(cut, w) = First(up, v)
      <4>1. k + j \in 0..Last /\ up[k + j] = own[j]
        BY <2>6, <3>3
      <4>2. \A i \in 0..Last : i < k + j => v[up[i]] = 0
        <5> SUFFICES ASSUME NEW i \in 0..Last, i < k + j, ~(i < k) PROVE v[up[i]] = 0
          BY <2>10
        <5>1. i - k \in 0..Last /\ k + (i - k) = i /\ i - k < j
          BY <1>1, <2>3
        <5>2. up[i] = own[i - k]
          BY <2>6, <5>1
        <5> QED BY <3>3, <5>1, <5>2
      <4>3. First(up, v) = v[own[j]]
        BY <3>3, <4>1, <4>2, FirstSet
      <4>4. w[cut[k]] # 0
        BY <2>8, <3>3
      <4>5. First(cut, w) = w[cut[k]]
        BY <2>3, <3>1, <4>4, FirstSet
      <4> QED BY <2>8, <3>3, <4>3, <4>5
    <3> QED BY <3>2, <3>3, NearestSet
  <2>11. CASE \A i \in 0..Last : i < k => v[up[i]] = 0
    BY <2>10, <2>11
  <2>12. CASE \E i \in 0..Last : i < k /\ v[up[i]] # 0
    <3>1. PICK m \in 0..Last : m < k /\ v[up[m]] # 0
      BY <2>12
    <3>2. PICK i \in 0..Last : v[up[i]] # 0 /\ \A n \in 0..Last : n < i => v[up[n]] = 0
      BY <3>1, NearestSet
    <3>3. i < k
      <4> SUFFICES ASSUME ~(i < k) PROVE FALSE
        OBVIOUS
      <4>1. m < i
        BY <2>3, <3>1
      <4> QED BY <3>1, <3>2, <4>1
    <3> QED BY <2>9, <3>2, <3>3
  <2> QED BY <2>11, <2>12
<1> QED BY <1>2, <1>3

-----------------------------------------------------------------------------
(* What the model's operators pick, in these terms.                           *)

Known == Refs \cup {None}
Arch == [x \in Known |-> ArchetypeOf(x)]
Says(h) == [x \in Known |-> IF x \in live /\ objs[x].enabled THEN objs[x].source[h] ELSE 0]
Paces == [x \in Known |-> IF x \in live THEN objs[x].interval ELSE 0]
Tagged == [x \in Known |-> IF x \in live /\ objs[x].global THEN 1 ELSE 0]

ReadsLine(o) ==
    /\ Goes(Known, Arch, o, Last, Line(o))
    /\ \A h \in HookNames : /\ Answer(o, h) = First(Line(o), Says(h))
                            /\ ObjectResponds(o, h) <=> First(Line(o), Says(h)) # 0
    /\ Interval(o) = IF First(Line(o), Paces) = 0 THEN 1 ELSE First(Line(o), Paces)
    /\ IsGlobal(o) <=> First(Line(o), Tagged) # 0
Reading == Stops(Known, Arch) /\ \A o \in Refs : ReadsLine(o)

LEMMA ArchStops == ASSUME Typed PROVE Stops(Known, Arch)
<1>1. \A r : ArchetypeOf(r) \in Known
  BY DEF Typed, ArchetypeOf, Object, Known
<1>2. None \notin live
  BY ConstantsAssumption DEF Typed
<1> QED BY <1>1, <1>2 DEF Stops, Arch, Known, ArchetypeOf

LEMMA LineGoes ==
    ASSUME Typed, NEW o \in Refs
    PROVE  Goes(Known, Arch, o, Last, Line(o))
<1> DEFINE F(f) == [i \in 0..Last |-> IF i = 0 THEN o ELSE ArchetypeOf(f[i - 1])]
           W == CHOOSE w : w = F(w)
<1>1. Last \in Nat /\ Arch \in [Known -> Known] /\ o \in Known
  BY Depth, ArchStops DEF Last, Stops, Known
<1>2. PICK f : Goes(Known, Arch, o, Last, f)
  BY <1>1, LineExists
<1>3. f = F(f)
  <2>1. ASSUME NEW i \in 1..Last PROVE f[i] = ArchetypeOf(f[i - 1])
    <3>1. i - 1 \in 0..Last
      BY <1>1
    <3>2. f[i - 1] \in Known /\ f[i] = Arch[f[i - 1]]
      BY <1>2, <3>1 DEF Goes
    <3> QED BY <3>2 DEF Arch
  <2>2. f \in [0..Last -> Known] /\ f[0] = o
    BY <1>2 DEF Goes
  <2> QED BY <1>1, <2>1, <2>2
<1>4. Line(o) = W
  BY DEF Line, Last
<1>5. W = F(W)
  <2> HIDE DEF F
  <2> QED BY <1>3
<1>6. W \in [0..Last -> Known]
  BY <1>4, LineWorks DEF Last, Known
<1> HIDE DEF W
<1>7. W[0] = o /\ \A i \in 1..Last : W[i] = ArchetypeOf(W[i - 1])
  BY <1>1, <1>5
<1>8. \A i \in 1..Last : W[i - 1] \in Known
  BY <1>1, <1>6
<1>9. \A i \in 1..Last : W[i] = Arch[W[i - 1]]
  BY <1>7, <1>8 DEF Arch
<1> QED BY <1>4, <1>6, <1>7, <1>9 DEF Goes

LEMMA LinesAreRead == Typed => Reading
<1> SUFFICES ASSUME Typed, NEW o \in Refs PROVE ReadsLine(o)
  BY ArchStops DEF Reading
<1>0. PICK up : up = Line(o)
  OBVIOUS
<1>1. up \in [0..Last -> Known] /\ DOMAIN up = 0..Last
  BY <1>0, LineWorks DEF Last, Known
<1>2. Goes(Known, Arch, o, Last, Line(o))
  BY LineGoes
<1>3. ASSUME NEW h \in HookNames
      PROVE  /\ Answer(o, h) = First(Line(o), Says(h))
             /\ ObjectResponds(o, h) <=> First(Line(o), Says(h)) # 0
  <2>1. \A i \in 0..Last : Says(h)[up[i]] = IF Defines(up[i], h) THEN objs[up[i]].source[h] ELSE 0
    BY <1>1 DEF Says, Defines
  <2>2. Definers(o, h) = Set(up, Says(h))
    BY <1>0, <1>1, <2>1 DEF Definers, Set, Defines
  <2>3. CASE Set(up, Says(h)) = {}
    BY <1>0, <2>2, <2>3 DEF Answer, ObjectResponds, First
  <2>4. CASE Set(up, Says(h)) # {}
    <3>1. Set(up, Says(h)) \in SUBSET Nat
      BY DEF Set
    <3>2. PICK k : k = Min(Set(up, Says(h)))
      OBVIOUS
    <3>3. k \in Set(up, Says(h))
      BY <2>4, <3>1, <3>2, MinIn
    <3>4. k \in 0..Last /\ Says(h)[up[k]] # 0
      BY <3>3 DEF Set
    <3>5. Says(h)[up[k]] = objs[up[k]].source[h]
      BY <2>1, <3>4
    <3>6. Answer(o, h) = objs[up[k]].source[h]
      BY <1>0, <2>2, <2>4, <3>2 DEF Answer, ObjectResponds, ResolveScript
    <3>7. First(up, Says(h)) = Says(h)[up[k]]
      BY <2>4, <3>2 DEF First
    <3> QED BY <1>0, <2>2, <2>4, <3>4, <3>5, <3>6, <3>7 DEF ObjectResponds
  <2> QED BY <2>3, <2>4
<1>4. Interval(o) = IF First(Line(o), Paces) = 0 THEN 1 ELSE First(Line(o), Paces)
  <2> DEFINE set == {i \in DOMAIN up : up[i] \in live /\ objs[up[i]].interval # 0}
  <2>1. \A i \in 0..Last : Paces[up[i]] = IF up[i] \in live THEN objs[up[i]].interval ELSE 0
    BY <1>1 DEF Paces
  <2>2. set = Set(up, Paces)
    BY <1>1, <2>1 DEF Set
  <2>3. Interval(o) = IF set = {} THEN 1 ELSE objs[up[Min(set)]].interval
    BY <1>0 DEF Interval
  <2> HIDE DEF set
  <2>4. CASE Set(up, Paces) = {}
    BY <1>0, <2>2, <2>3, <2>4 DEF First
  <2>5. CASE Set(up, Paces) # {}
    <3>1. Set(up, Paces) \in SUBSET Nat
      BY DEF Set
    <3>2. PICK k : k = Min(Set(up, Paces))
      OBVIOUS
    <3>3. k \in Set(up, Paces)
      BY <2>5, <3>1, <3>2, MinIn
    <3>4. k \in 0..Last /\ Paces[up[k]] # 0
      BY <3>3 DEF Set
    <3>5. Paces[up[k]] = objs[up[k]].interval
      BY <2>1, <3>4
    <3>6. Interval(o) = objs[up[k]].interval
      BY <2>2, <2>3, <2>5, <3>2
    <3>7. First(up, Paces) = Paces[up[k]]
      BY <2>5, <3>2 DEF First
    <3> QED BY <1>0, <3>4, <3>5, <3>6, <3>7
  <2> QED BY <2>4, <2>5
<1>5. IsGlobal(o) <=> First(Line(o), Tagged) # 0
  <2>1. \A i \in 0..Last : Tagged[up[i]] # 0 <=> up[i] \in live /\ objs[up[i]].global
    BY <1>1 DEF Tagged
  <2>2. IsGlobal(o) <=> \E i \in 0..Last : Tagged[up[i]] # 0
    BY <1>0, <1>1, <2>1 DEF IsGlobal
  <2> QED BY <1>0, <2>2, NearestSet
<1> QED BY <1>2, <1>3, <1>4, <1>5 DEF ReadsLine

(* What a detached object gets is what its line said.                         *)
Keeps(v, w, o) == /\ v[None] = 0 /\ w[None] = 0
                  /\ w[o] = First(Line(o), v)
                  /\ \A x \in Known : x # o => w[x] = v[x]

LEMMA DetachedSources ==
    ASSUME Typed, NEW o \in live, AllEnabled(o), NEW h \in HookNames
    PROVE  FlattenedChainSource(o)[h] = First(Line(o), Says(h))
<1>0. PICK up : up = Line(o)
  OBVIOUS
<1> DEFINE with == {i \in Authored(o) : objs[up[i]].source[h] # 0}
<1>1. up \in [0..Last -> Known] /\ DOMAIN up = 0..Last
  BY <1>0, LineWorks DEF Last, Known, Typed
<1>2. \A i \in 0..Last : up[i] \in live => objs[up[i]].enabled
  BY <1>0, <1>1 DEF AllEnabled
<1>3. \A i \in 0..Last : Says(h)[up[i]] = IF up[i] \in live THEN objs[up[i]].source[h] ELSE 0
  BY <1>1, <1>2 DEF Says
<1>4. NoSource[h] = 0
  BY DEF NoSource
<1>5. with = Set(up, Says(h))
  BY <1>0, <1>1, <1>3, <1>4 DEF Authored, Set
<1>6. FlattenedChainSource(o)[h] = IF with = {} THEN 0 ELSE objs[up[Min(with)]].source[h]
  BY <1>0 DEF FlattenedChainSource
<1> HIDE DEF with
<1>7. CASE Set(up, Says(h)) = {}
  BY <1>0, <1>5, <1>6, <1>7 DEF First
<1>8. CASE Set(up, Says(h)) # {}
  <2>1. Set(up, Says(h)) \in SUBSET Nat
    BY DEF Set
  <2>2. PICK k : k = Min(Set(up, Says(h)))
    OBVIOUS
  <2>3. k \in Set(up, Says(h))
    BY <1>8, <2>1, <2>2, MinIn
  <2>4. k \in 0..Last /\ Says(h)[up[k]] # 0
    BY <2>3 DEF Set
  <2>5. Says(h)[up[k]] = objs[up[k]].source[h]
    BY <1>3, <2>4
  <2>6. FlattenedChainSource(o)[h] = objs[up[k]].source[h]
    BY <1>5, <1>6, <1>8, <2>2
  <2>7. First(up, Says(h)) = Says(h)[up[k]]
    BY <1>8, <2>2 DEF First
  <2> QED BY <1>0, <2>5, <2>6, <2>7
<1> QED BY <1>7, <1>8

LEMMA DetachedInterval ==
    ASSUME Typed, NEW o \in Refs,
           NEW set, set = {i \in DOMAIN Line(o) : Line(o)[i] \in live /\ objs[Line(o)[i]].interval # 0}
    PROVE  (IF set = {} THEN 0 ELSE Interval(o)) = First(Line(o), Paces)
<1>0. PICK up : up = Line(o)
  OBVIOUS
<1>1. up \in [0..Last -> Known] /\ DOMAIN up = 0..Last
  BY <1>0, LineWorks DEF Last, Known
<1>2. \A i \in 0..Last : Paces[up[i]] = IF up[i] \in live THEN objs[up[i]].interval ELSE 0
  BY <1>1 DEF Paces
<1>3. set = Set(up, Paces)
  BY <1>0, <1>1, <1>2 DEF Set
<1>4. ReadsLine(o)
  BY LinesAreRead DEF Reading
<1>5. CASE Set(up, Paces) = {}
  BY <1>0, <1>3, <1>5 DEF First
<1>6. CASE Set(up, Paces) # {}
  <2>1. First(up, Paces) # 0
    BY <1>6, NearestSet DEF Set
  <2> QED BY <1>0, <1>3, <1>4, <1>6, <2>1 DEF ReadsLine
<1> QED BY <1>5, <1>6

(* Detaching an object takes it off its line, with what that said.            *)
LEMMA DetachCuts ==
    ASSUME Typed, NEW o \in live, Detach(o), AllEnabled(o)
    PROVE  /\ Arch' = Cut(Arch, o)
           /\ \A h \in HookNames : Keeps(Says(h), Says(h)', o)
           /\ Keeps(Paces, Paces', o) /\ Keeps(Tagged, Tagged', o)
           /\ live' = live
<1>0. PICK up : up = Line(o)
  OBVIOUS
<1>1. o \in Refs /\ o \in Known /\ None \notin live /\ None \in Known /\ live \subseteq Known
  BY ConstantsAssumption DEF Typed, Known
<1>2. ReadsLine(o)
  BY <1>1, LinesAreRead DEF Reading
<1>3. live' = live /\ objs' = [objs EXCEPT ![o] = Detached(o)]
  BY DEF Detach, Edit, Changes
<1>4. objs'[o] = Detached(o) /\ \A x \in live : x # o => objs'[x] = objs[x]
  BY <1>1, <1>3 DEF Typed
<1> DEFINE set == {i \in DOMAIN Line(o) : Line(o)[i] \in live /\ objs[Line(o)[i]].interval # 0}
           n == IF set = {} THEN 0 ELSE Interval(o)
<1>5. /\ Detached(o).arch = None
      /\ Detached(o).global = IsGlobal(o)
      /\ Detached(o).interval = n
      /\ Detached(o).source = FlattenedChainSource(o)
      /\ Detached(o).enabled = (objs[o].enabled \/ Authored(o) # {})
  <2>1. objs[o] \in Object
    BY <1>1 DEF Typed
  <2> QED BY <2>1 DEF Detached, Object
<1>6. n = First(Line(o), Paces)
  <2> HIDE DEF set
  <2>1. set = {i \in DOMAIN Line(o) : Line(o)[i] \in live /\ objs[Line(o)[i]].interval # 0}
    BY DEF set
  <2> QED BY <1>1, <2>1, DetachedInterval
<1> HIDE DEF n
<1>7. objs[o].enabled
  <2>1. 0 \in 0..Last /\ up[0] = o /\ DOMAIN up = 0..Last
    BY <1>0, <1>2, Depth DEF ReadsLine, Goes, Last
  <2> QED BY <1>0, <2>1 DEF AllEnabled
<1>8. Arch' = Cut(Arch, o)
  <2>1. Arch' = [x \in Known |-> IF x \in live THEN objs'[x].arch ELSE None]
    BY <1>3 DEF Arch, ArchetypeOf
  <2>2. Arch = [x \in Known |-> IF x \in live THEN objs[x].arch ELSE None]
    BY DEF Arch, ArchetypeOf
  <2> QED BY <1>1, <1>4, <1>5, <2>1, <2>2 DEF Cut
<1>9. ASSUME NEW h \in HookNames PROVE Keeps(Says(h), Says(h)', o)
  <2>1. Says(h)' = [x \in Known |-> IF x \in live /\ objs'[x].enabled THEN objs'[x].source[h] ELSE 0]
    BY <1>3 DEF Says
  <2>2. Says(h)'[o] = FlattenedChainSource(o)[h]
    BY <1>1, <1>4, <1>5, <1>7, <2>1, ZenonT(60)
  <2>3. Says(h)'[o] = First(Line(o), Says(h))
    BY <2>2, DetachedSources
  <2>4. \A x \in Known : x # o => Says(h)'[x] = Says(h)[x]
    BY <1>4, <2>1 DEF Says
  <2>5. Says(h)[None] = 0 /\ Says(h)'[None] = 0
    BY <1>1, <2>1 DEF Says
  <2> QED BY <2>3, <2>4, <2>5 DEF Keeps
<1>10. Keeps(Paces, Paces', o)
  <2>1. Paces' = [x \in Known |-> IF x \in live THEN objs'[x].interval ELSE 0]
    BY <1>3 DEF Paces
  <2>2. Paces'[o] = First(Line(o), Paces)
    BY <1>1, <1>4, <1>5, <1>6, <2>1
  <2>3. \A x \in Known : x # o => Paces'[x] = Paces[x]
    BY <1>4, <2>1 DEF Paces
  <2>4. Paces[None] = 0 /\ Paces'[None] = 0
    BY <1>1, <2>1 DEF Paces
  <2> QED BY <2>2, <2>3, <2>4 DEF Keeps
<1>11. Keeps(Tagged, Tagged', o)
  <2>1. Tagged' = [x \in Known |-> IF x \in live /\ objs'[x].global THEN 1 ELSE 0]
    BY <1>3 DEF Tagged
  <2>2. First(Line(o), Tagged) \in {0, 1}
    <3>1. \A i \in 0..Last : up[i] \in Known
      BY <1>0, <1>2 DEF ReadsLine, Goes
    <3>2. \A i \in 0..Last : Tagged[up[i]] \in {0, 1}
      BY <3>1 DEF Tagged
    <3> QED BY <1>0, <3>2, NearestSet
  <2>3. Tagged'[o] = IF IsGlobal(o) THEN 1 ELSE 0
    BY <1>1, <1>4, <1>5, <2>1
  <2>4. Tagged'[o] = First(Line(o), Tagged)
    BY <1>2, <2>2, <2>3 DEF ReadsLine
  <2>5. \A x \in Known : x # o => Tagged'[x] = Tagged[x]
    BY <1>4, <2>1 DEF Tagged
  <2>6. Tagged[None] = 0 /\ Tagged'[None] = 0
    BY <1>1, <2>1 DEF Tagged
  <2> QED BY <2>4, <2>5, <2>6 DEF Keeps
<1> QED BY <1>3, <1>8, <1>9, <1>10, <1>11

LEMMA DetachedSaysTheSame ==
    ASSUME Typed, Reading, Reading', NEW o \in live, Detach(o), AllEnabled(o),
           NEW q \in live, q = o \/ SeenWhole(q), NEW v, NEW w, Keeps(v, w, o)
    PROVE  First(Line(q)', w) = First(Line(q), v)
<1>1. o \in Refs /\ o \in Known /\ q \in Refs /\ q \in Known
  BY DEF Typed, Known
<1>2. Stops(Known, Arch) /\ Arch' = Cut(Arch, o)
  BY DetachCuts DEF Reading
<1>3. /\ Goes(Known, Arch, q, Last, Line(q)) /\ Goes(Known, Arch, o, Last, Line(o))
      /\ Goes(Known, Cut(Arch, o), q, Last, Line(q)')
  BY <1>1, <1>2 DEF Reading, ReadsLine
<1>4. CASE q = o
  BY <1>1, <1>2, <1>3, <1>4, LoneFirst DEF Keeps
<1>5. CASE SeenWhole(q)
  <2>1. Arch[Line(q)[Last]] = None
    <3>1. Last \in 0..Last
      BY Depth DEF Last
    <3>2. Line(q)[Last] \in Known
      BY <1>3, <3>1 DEF Goes
    <3> QED BY <1>5, <3>2 DEF SeenWhole, Arch, Last
  <2>2. PICK up, cut, own : up = Line(q) /\ cut = Line(q)' /\ own = Line(o)
    OBVIOUS
  <2>3. /\ Goes(Known, Arch, q, Last, up) /\ Goes(Known, Arch, o, Last, own)
        /\ Goes(Known, Cut(Arch, o), q, Last, cut) /\ Arch[up[Last]] = None
    BY <1>3, <2>1, <2>2
  <2>4. v[None] = 0 /\ w[None] = 0 /\ w[o] = First(own, v) /\ \A x \in Known : x # o => w[x] = v[x]
    BY <2>2 DEF Keeps
  <2>5. PICK next : next = Arch
    OBVIOUS
  <2>6. First(cut, w) = First(up, v)
    BY <1>1, <1>2, <2>3, <2>4, <2>5, CutSaysTheSame
  <2> QED BY <2>2, <2>6
<1> QED BY <1>4, <1>5

(* Detaching an object takes nothing from it, nor from what delegates to it,  *)
(* for lines of every length that the walk sees whole (detach_object,         *)
(* flattened_chain_source).                                                   *)
THEOREM NothingDetachedLosesAnswers == Spec => DetachKeepsAnswers
<1>1. Typed => Reading
  BY LinesAreRead
<1>2. Inv => Typed
  BY DEF Inv
<1>3. Typed /\ Reading /\ Reading' /\ [Next]_vars =>
        [\A o \in live : Detach(o) /\ AllEnabled(o) =>
            \A q \in live : q = o \/ SeenWhole(q) =>
                /\ \A h \in HookNames : Answer(q, h)' = Answer(q, h)
                /\ Ticks(q)' = Ticks(q) /\ Serves(q)' = Serves(q)]_vars
  <2> SUFFICES ASSUME Typed, Reading, Reading', NEW o \in live, Detach(o), AllEnabled(o),
                      NEW q \in live, q = o \/ SeenWhole(q)
               PROVE  /\ \A h \in HookNames : Answer(q, h)' = Answer(q, h)
                      /\ Ticks(q)' = Ticks(q) /\ Serves(q)' = Serves(q)
    OBVIOUS
  <2>1. q \in Refs /\ ReadsLine(q) /\ ReadsLine(q)'
    BY DEF Typed, Reading
  <2>2. /\ \A h \in HookNames : First(Line(q)', Says(h)') = First(Line(q), Says(h))
        /\ First(Line(q)', Paces') = First(Line(q), Paces)
        /\ First(Line(q)', Tagged') = First(Line(q), Tagged)
    BY DetachCuts, DetachedSaysTheSame
  <2>3. ASSUME NEW h \in HookNames
        PROVE  Answer(q, h)' = Answer(q, h) /\ ObjectResponds(q, h)' = ObjectResponds(q, h)
    <3>1. Answer(q, h)' = First(Line(q)', Says(h)') /\ (ObjectResponds(q, h)' <=> First(Line(q)', Says(h)') # 0)
      BY <2>1 DEF ReadsLine
    <3>2. Answer(q, h) = First(Line(q), Says(h)) /\ (ObjectResponds(q, h) <=> First(Line(q), Says(h)) # 0)
      BY <2>1 DEF ReadsLine
    <3>3. ObjectResponds(q, h) \in BOOLEAN /\ ObjectResponds(q, h)' \in BOOLEAN
      BY DEF ObjectResponds
    <3> QED BY <2>2, <3>1, <3>2, <3>3
  <2>4. Interval(q)' = Interval(q)
    BY <2>1, <2>2 DEF ReadsLine
  <2>5. IsGlobal(q)' = IsGlobal(q)
    <3>1. IsGlobal(q) \in BOOLEAN /\ IsGlobal(q)' \in BOOLEAN
      BY DEF IsGlobal
    <3> QED BY <2>1, <2>2, <3>1 DEF ReadsLine
  <2>6. ResolveHookNames(q)' = ResolveHookNames(q)
    BY <2>3 DEF ResolveHookNames
  <2>7. ObjectResponds(q, "on_tick")' = ObjectResponds(q, "on_tick")
    BY <2>3 DEF HookNames
  <2> QED BY <2>3, <2>4, <2>5, <2>6, <2>7 DEF Ticks, Serves
<1> QED BY <1>1, <1>2, <1>3, Invariance, PTL DEF Spec, DetachKeepsAnswers
-----------------------------------------------------------------------------
(* The call stack *)

LEMMA FramesFinite ==
    ASSUME NEW s \in Seq(Frame), NEW p
    PROVE  IsFiniteSet(Frames(s, p)) /\ Count(s, p) \in Nat
<1>1. Len(s) \in Nat
  OBVIOUS
<1>2. IsFiniteSet(1..Len(s))
  BY <1>1, FS_Interval
<1>3. Frames(s, p) \subseteq 1..Len(s)
  BY DEF Frames
<1> QED BY <1>2, <1>3, FS_Subset, FS_CardinalityType DEF Count

LEMMA CountEmpty == ASSUME NEW p PROVE Count(<<>>, p) = 0
<1>1. Frames(<<>>, p) = {}
  BY DEF Frames
<1> QED BY <1>1, FS_EmptySet DEF Count

LEMMA CountAppend ==
    ASSUME NEW s \in Seq(Frame), NEW f \in Frame, NEW p
    PROVE  Count(Append(s, f), p) = Count(s, p) + (IF f.phase = p THEN 1 ELSE 0)
<1> DEFINE t == Append(s, f)
<1>1. /\ Len(t) = Len(s) + 1 /\ Len(s) \in Nat
      /\ t[Len(s) + 1] = f
      /\ \A i \in 1..Len(s) : t[i] = s[i]
  OBVIOUS
<1> HIDE DEF t
<1>2. CASE f.phase = p
  <2>1. Frames(t, p) = Frames(s, p) \cup {Len(s) + 1}
    BY <1>1, <1>2 DEF Frames
  <2>2. Len(s) + 1 \notin Frames(s, p)
    BY <1>1 DEF Frames
  <2>3. Cardinality(Frames(s, p) \cup {Len(s) + 1}) = Cardinality(Frames(s, p)) + 1
    BY <2>2, FramesFinite, FS_AddElement
  <2> QED BY <1>2, <2>1, <2>3 DEF Count, t
<1>3. CASE f.phase # p
  <2>1. Frames(t, p) = Frames(s, p)
    BY <1>1, <1>3 DEF Frames
  <2>2. Count(s, p) \in Nat
    BY FramesFinite
  <2> QED BY <1>3, <2>1, <2>2 DEF Count, t
<1> QED BY <1>2, <1>3

LEMMA FrontProperties ==
    ASSUME NEW t \in Seq(Frame), t # <<>>
    PROVE  LET u == SubSeq(t, 1, Len(t) - 1) IN
           /\ u \in Seq(Frame) /\ Len(u) = Len(t) - 1 /\ Len(t) \in Nat \ {0}
           /\ \A i \in 1..(Len(t) - 1) : u[i] = t[i]
<1> DEFINE n == Len(t) - 1
           u == SubSeq(t, 1, n)
<1>1. Len(t) \in Nat \ {0} /\ n \in Nat
  BY EmptySeq
<1>2. \A i \in 1..n : t[i] \in Frame
  BY <1>1, ElementOfSeq
<1> HIDE DEF n
<1>3. /\ u \in Seq(Frame)
      /\ Len(u) = IF 1 <= n THEN n - 1 + 1 ELSE 0
      /\ \A i \in 1..(n - 1 + 1) : u[i] = t[1 + i - 1]
  BY <1>1, <1>2, SubSeqProperties
<1> HIDE DEF u
<1>4. Len(u) = n
  BY <1>1, <1>3
<1>5. ASSUME NEW i \in 1..n PROVE u[i] = t[i]
  <2>1. i \in 1..(n - 1 + 1) /\ 1 + i - 1 = i
    BY <1>1
  <2> QED BY <1>3, <2>1
<1> QED BY <1>1, <1>3, <1>4, <1>5 DEF n, u

Under(s) == SubSeq(s, 1, Len(s) - 1)
Tip(s) == s[Len(s)]

(* A stack is the frames under its tip, and the tip. *)
LEMMA TipUnder ==
    ASSUME NEW s \in Seq(Frame), s # <<>>
    PROVE  /\ Under(s) \in Seq(Frame) /\ Tip(s) \in Frame
           /\ s = Append(Under(s), Tip(s))
<1>1. Len(s) \in Nat \ {0}
  BY EmptySeq
<1>2. \A i \in 1..Len(s) : s[i] \in Frame
  BY ElementOfSeq
<1>3. /\ Under(s) \in Seq(Frame) /\ Len(Under(s)) = Len(s) - 1
      /\ \A i \in 1..(Len(s) - 1) : Under(s)[i] = s[i]
  BY FrontProperties DEF Under
<1>4. Tip(s) \in Frame
  BY <1>1, <1>2 DEF Tip
<1> DEFINE t == Append(Under(s), Tip(s))
<1>5. /\ t \in Seq(Frame) /\ Len(t) = Len(Under(s)) + 1
      /\ \A i \in 1..Len(Under(s)) : t[i] = Under(s)[i]
      /\ t[Len(Under(s)) + 1] = Tip(s)
  BY <1>3, <1>4, AppendProperties
<1> HIDE DEF t
<1>6. Len(t) = Len(s) /\ \A i \in 1..Len(t) : t[i] = s[i]
  BY <1>1, <1>3, <1>5 DEF Tip
<1>7. t = s
  BY <1>5, <1>6, SeqEqual
<1> QED BY <1>3, <1>4, <1>7 DEF t

LEMMA DisjointUnion ==
    ASSUME NEW S, NEW T, IsFiniteSet(S), IsFiniteSet(T), S \cap T = {}
    PROVE  IsFiniteSet(S \cup T) /\ Cardinality(S \cup T) = Cardinality(S) + Cardinality(T)
<1>1. /\ IsFiniteSet(S \cup T)
      /\ Cardinality(S \cup T) = Cardinality(S) + Cardinality(T) - Cardinality(S \cap T)
  BY FS_Union
<1>2. Cardinality(S \cap T) = 0
  BY FS_EmptySet
<1>3. Cardinality(S) \in Nat /\ Cardinality(T) \in Nat
  BY FS_CardinalityType
<1> QED BY <1>1, <1>2, <1>3

(* A list of n places has n places. *)
LEMMA PlacesCounted == ASSUME NEW n \in Nat PROVE Cardinality(1..n) = n
<1>1. Cardinality(1..n) = IF 1 > n THEN 0 ELSE n - 1 + 1
  <2>1. 1 \in Int /\ n \in Int
    OBVIOUS
  <2> QED BY <2>1, FS_Interval
<1> QED BY <1>1, SMTT(20)

(* Every frame is in one of the four phases. *)
LEMMA CountAll ==
    ASSUME NEW s \in Seq(Frame)
    PROVE  Len(s) = Count(s, "hooks") + Count(s, "triggers") + Count(s, "moves") + Count(s, "forced")
<1> DEFINE A == Frames(s, "hooks") \cup Frames(s, "triggers")
           B == Frames(s, "moves") \cup Frames(s, "forced")
<1>1. /\ IsFiniteSet(Frames(s, "hooks")) /\ IsFiniteSet(Frames(s, "triggers"))
      /\ IsFiniteSet(Frames(s, "moves")) /\ IsFiniteSet(Frames(s, "forced"))
  BY FramesFinite
<1>2. /\ Frames(s, "hooks") \cap Frames(s, "triggers") = {}
      /\ Frames(s, "moves") \cap Frames(s, "forced") = {}
      /\ A \cap B = {}
  BY DEF Frames
<1>3. A \cup B = 1..Len(s)
  <2>1. ASSUME NEW i \in 1..Len(s) PROVE s[i].phase \in Phases
    <3>1. s[i] \in Frame
      BY ElementOfSeq
    <3> QED BY <3>1 DEF Frame
  <2> QED BY <2>1 DEF Frames, Phases
<1>4. IsFiniteSet(A) /\ Cardinality(A) = Count(s, "hooks") + Count(s, "triggers")
  BY <1>1, <1>2, DisjointUnion DEF Count
<1>5. IsFiniteSet(B) /\ Cardinality(B) = Count(s, "moves") + Count(s, "forced")
  BY <1>1, <1>2, DisjointUnion DEF Count
<1>6. Cardinality(A \cup B) = Cardinality(A) + Cardinality(B)
  <2> HIDE DEF A, B
  <2> QED BY <1>2, <1>4, <1>5, DisjointUnion
<1>7. Cardinality(1..Len(s)) = Len(s)
  <2>1. Len(s) \in Nat
    OBVIOUS
  <2> QED BY <2>1, PlacesCounted
<1> HIDE DEF A, B
<1>8. /\ Count(s, "hooks") \in Nat /\ Count(s, "triggers") \in Nat
      /\ Count(s, "moves") \in Nat /\ Count(s, "forced") \in Nat
  BY FramesFinite
<1>9. Cardinality(1..Len(s)) = Cardinality(A) + Cardinality(B)
  BY <1>3, <1>6
<1> QED BY <1>4, <1>5, <1>7, <1>8, <1>9

-----------------------------------------------------------------------------
(* A command runs under nothing, under the command that forced it, or under a *)
(* delivery that is at its forced commands.                                   *)
Linked(s) ==
    s # <<>> => /\ s[1].phase = "hooks"
                /\ \A i \in 2..Len(s) :
                      s[i].phase = "hooks" => i = 2 \/ s[i - 1].phase = "forced"

(* The deliveries under the tip that are firing triggers are within the       *)
(* limit; the tip may be one more if it has no trigger.  Every delivery under *)
(* the tip that is at its forced commands has one running.                    *)
Shape(s) ==
    s # <<>> =>
      /\ Count(Under(s), "triggers") <= MaxTriggerDepth
      /\ Tip(s).phase = "triggers" /\ Tip(s).left["triggers"] > 0
            => Count(s, "triggers") <= MaxTriggerDepth
      /\ Count(Under(s), "forced") + 1 <= Count(s, "hooks")

LEMMA UnderAppend ==
    ASSUME NEW b \in Seq(Frame), NEW f \in Frame
    PROVE  /\ Append(b, f) \in Seq(Frame) /\ Append(b, f) # <<>>
           /\ Under(Append(b, f)) = b /\ Tip(Append(b, f)) = f
<1> DEFINE t == Append(b, f)
<1>1. /\ t \in Seq(Frame) /\ t # <<>> /\ Len(t) = Len(b) + 1
      /\ \A i \in 1..Len(b) : t[i] = b[i]
      /\ t[Len(b) + 1] = f
  BY AppendProperties
<1>2. Len(b) \in Nat
  BY LenProperties
<1> HIDE DEF t
<1>3. /\ Under(t) \in Seq(Frame) /\ Len(Under(t)) = Len(b)
      /\ \A i \in 1..Len(b) : Under(t)[i] = t[i]
  <2>1. Len(t) - 1 = Len(b)
    BY <1>1, <1>2
  <2>2. /\ Under(t) \in Seq(Frame) /\ Len(Under(t)) = Len(t) - 1
        /\ \A i \in 1..(Len(t) - 1) : Under(t)[i] = t[i]
    BY <1>1, FrontProperties DEF Under
  <2> QED BY <2>1, <2>2
<1>4. Under(t) = b
  BY <1>1, <1>3, SeqEqual
<1>5. Tip(t) = f
  BY <1>1, <1>2 DEF Tip
<1> QED BY <1>1, <1>4, <1>5 DEF t

LEMMA LinkedAppend ==
    ASSUME NEW b \in Seq(Frame), NEW f \in Frame
    PROVE  Linked(Append(b, f)) <=>
              /\ Linked(b)
              /\ b = <<>> => f.phase = "hooks"
              /\ Len(b) > 1 /\ f.phase = "hooks" => Tip(b).phase = "forced"
<1> DEFINE t == Append(b, f)
<1>1. /\ t # <<>> /\ Len(t) = Len(b) + 1
      /\ \A i \in 1..Len(b) : t[i] = b[i]
      /\ t[Len(b) + 1] = f
  BY AppendProperties
<1>2. Len(b) \in Nat /\ (b = <<>> <=> Len(b) = 0)
  BY EmptySeq, LenProperties
<1> HIDE DEF t
<1>3. ASSUME Linked(t)
      PROVE  Linked(b) /\ (b = <<>> => f.phase = "hooks")
             /\ (Len(b) > 1 /\ f.phase = "hooks" => Tip(b).phase = "forced")
  BY <1>1, <1>2, <1>3 DEF Linked, Tip
<1>4. ASSUME Linked(b), b = <<>> => f.phase = "hooks",
             Len(b) > 1 /\ f.phase = "hooks" => Tip(b).phase = "forced"
      PROVE  Linked(t)
  <2>1. t[1].phase = "hooks"
    BY <1>1, <1>2, <1>4 DEF Linked
  <2>2. ASSUME NEW i \in 2..Len(t), t[i].phase = "hooks"
        PROVE  i = 2 \/ t[i - 1].phase = "forced"
    <3>1. CASE i \in 2..Len(b)
      BY <1>1, <1>2, <1>4, <2>2, <3>1 DEF Linked
    <3>2. CASE i = Len(b) + 1
      BY <1>1, <1>2, <1>4, <2>2, <3>2 DEF Tip
    <3> QED BY <1>1, <1>2, <3>1, <3>2
  <2> QED BY <2>1, <2>2 DEF Linked
<1> QED BY <1>3, <1>4 DEF t

LEMMA ShapeAppend ==
    ASSUME NEW b \in Seq(Frame), NEW f \in Frame
    PROVE  Shape(Append(b, f)) <=>
              /\ Count(b, "triggers") <= MaxTriggerDepth
              /\ f.phase = "triggers" /\ f.left["triggers"] > 0
                    => Count(b, "triggers") + 1 <= MaxTriggerDepth
              /\ Count(b, "forced") + 1
                    <= Count(b, "hooks") + (IF f.phase = "hooks" THEN 1 ELSE 0)
<1>1. /\ Count(Append(b, f), "triggers") = Count(b, "triggers") + (IF f.phase = "triggers" THEN 1 ELSE 0)
      /\ Count(Append(b, f), "hooks") = Count(b, "hooks") + (IF f.phase = "hooks" THEN 1 ELSE 0)
  BY CountAppend
<1>2. Count(b, "triggers") \in Nat /\ Count(b, "forced") \in Nat /\ Count(b, "hooks") \in Nat
  BY FramesFinite
<1> QED BY <1>1, <1>2, UnderAppend DEF Shape

LEMMA LessFrame ==
    ASSUME NEW f \in Frame, f.left[f.phase] > 0
    PROVE  LET g == [f EXCEPT !.left[f.phase] = @ - 1] IN
           /\ g \in Frame /\ g.phase = f.phase
           /\ g.left["triggers"] > 0 => f.left["triggers"] > 0
<1>1. f.phase \in Phases /\ f.left \in [Phases -> 0..Many] /\ Many \in Nat
  BY DispatchAssumption DEF Frame
<1> DEFINE h == [f.left EXCEPT ![f.phase] = @ - 1]
<1>2. h \in [Phases -> 0..Many]
  BY <1>1
<1>3. h["triggers"] > 0 => f.left["triggers"] > 0
  BY <1>1 DEF Phases
<1> QED BY <1>1, <1>2, <1>3 DEF Frame

-----------------------------------------------------------------------------
DispatchInv ==
    /\ TypeOK
    /\ CountersMatchStack
    /\ forceDepth <= MaxForceDepth
    /\ Linked(stack)
    /\ Shape(stack)

LEMMA TypedFrames ==
    ASSUME NEW t \in 0..Many, NEW m \in 0..Many, NEW f \in 0..Many
    PROVE  /\ Command(t) \in Frame /\ Command(t).phase = "hooks"
           /\ Delivery(t, m, f) \in Frame /\ Delivery(t, m, f).phase = "triggers"
           /\ Delivery(t, m, f).left["triggers"] = t
           /\ Command(0) \in Frame /\ Command(0).phase = "hooks"
<1>1. Many \in Nat /\ 0 \in 0..Many
  BY DispatchAssumption
<1>2. [p \in Phases |-> IF p = "hooks" THEN t ELSE 0] \in [Phases -> 0..Many]
  BY <1>1
<1>3. [p \in Phases |-> IF p = "hooks" THEN 0 ELSE 0] \in [Phases -> 0..Many]
  BY <1>1
<1> DEFINE d == [p \in Phases |->
                   CASE p = "hooks" -> 0 [] p = "triggers" -> t [] p = "moves" -> m [] p = "forced" -> f]
<1>4. d \in [Phases -> 0..Many] /\ d["triggers"] = t
  BY <1>1 DEF Phases
<1> QED BY <1>2, <1>3, <1>4 DEF Command, Delivery, Frame, Phases

(* The tip of a busy stack does one thing less; all else is as it was. *)
LEMMA DoneKeeps ==
    ASSUME DispatchInv, stack # <<>>, Top.left[Top.phase] > 0
    PROVE  /\ Done \in Seq(Frame) /\ Done # <<>>
           /\ Len(Done) = Len(stack) /\ Tip(Done).phase = Top.phase
           /\ Linked(Done) /\ Shape(Done)
           /\ \A p : Count(Done, p) = Count(stack, p)
<1> DEFINE b == Under(stack)
           f == Tip(stack)
           g == [f EXCEPT !.left[f.phase] = @ - 1]
<1>1. b \in Seq(Frame) /\ f \in Frame /\ stack = Append(b, f)
  BY TipUnder DEF DispatchInv, TypeOK
<1>2. Below = b /\ Top = f
  BY DEF Below, Top, Under, Tip
<1>3. g \in Frame /\ g.phase = f.phase /\ (g.left["triggers"] > 0 => f.left["triggers"] > 0)
  BY <1>1, <1>2, LessFrame
<1>4. Done = Append(b, g)
  BY <1>2 DEF Done, Less
<1> HIDE DEF b, f, g
<1>5. Linked(Append(b, f)) /\ Shape(Append(b, f))
  BY <1>1 DEF DispatchInv
<1>6. Linked(Append(b, g))
  BY <1>1, <1>3, <1>5, LinkedAppend
<1>7. Shape(Append(b, g))
  BY <1>1, <1>3, <1>5, ShapeAppend
<1>8. ASSUME NEW p PROVE Count(Done, p) = Count(stack, p)
  BY <1>1, <1>3, <1>4, CountAppend
<1>9. /\ Append(b, g) \in Seq(Frame) /\ Append(b, g) # <<>> /\ Tip(Append(b, g)) = g
  BY <1>1, <1>3, UnderAppend
<1>10. Len(Append(b, g)) = Len(Append(b, f))
  BY <1>1, <1>3, AppendProperties
<1> QED BY <1>1, <1>2, <1>3, <1>4, <1>6, <1>7, <1>8, <1>9, <1>10

(* Under a tip that is about to fire a hook there is room for one level more. *)
LEMMA BusyUnderLimit ==
    ASSUME DispatchInv, stack # <<>>, Top.left[Top.phase] > 0, Top.phase # "forced"
    PROVE  /\ Count(stack, "triggers") <= MaxTriggerDepth
           /\ Count(stack, "forced") + 1 <= Count(stack, "hooks")
<1> DEFINE b == Under(stack)
           f == Tip(stack)
<1>1. b \in Seq(Frame) /\ f \in Frame /\ stack = Append(b, f)
  BY TipUnder DEF DispatchInv, TypeOK
<1>2. Top = f
  BY DEF Top, Tip
<1>3. /\ Count(stack, "triggers") = Count(b, "triggers") + (IF f.phase = "triggers" THEN 1 ELSE 0)
      /\ Count(stack, "forced") = Count(b, "forced") + (IF f.phase = "forced" THEN 1 ELSE 0)
  BY <1>1, CountAppend, ZenonT(60)
<1>4. Count(b, "triggers") \in Nat /\ Count(b, "forced") \in Nat
  BY <1>1, FramesFinite
<1>5. /\ Count(b, "triggers") <= MaxTriggerDepth
      /\ f.phase = "triggers" /\ f.left["triggers"] > 0 => Count(stack, "triggers") <= MaxTriggerDepth
      /\ Count(b, "forced") + 1 <= Count(stack, "hooks")
  BY DEF DispatchInv, Shape
<1> HIDE DEF b, f
<1> QED BY <1>2, <1>3, <1>4, <1>5

(* A hook that fires nothing, or that leaves a batch. *)
LEMMA FireStep ==
    ASSUME DispatchInv, stack # <<>>, Top.left[Top.phase] > 0, Top.phase # "forced", Fire
    PROVE  DispatchInv'
<1>1. /\ Done \in Seq(Frame) /\ Done # <<>>
      /\ Tip(Done).phase = Top.phase
      /\ Linked(Done) /\ Shape(Done)
      /\ \A p : Count(Done, p) = Count(stack, p)
  BY DoneKeeps
<1>2. /\ stack \in Seq(Frame) /\ triggerDepth \in Nat /\ forceDepth \in Nat /\ moved \in 0..MovesPerEvent
      /\ CountersMatchStack /\ forceDepth <= MaxForceDepth
  BY DEF DispatchInv, TypeOK
<1>3. MovesPerEvent \in Nat /\ MaxTriggerDepth \in Nat /\ Many \in Nat
  BY DispatchAssumption
<1>4. ASSUME stack' = Done, triggerDepth' = triggerDepth, forceDepth' = forceDepth,
             moved' \in 0..MovesPerEvent
      PROVE  DispatchInv'
  BY <1>1, <1>2, <1>4 DEF DispatchInv, TypeOK, CountersMatchStack
<1>5. CASE FireNothing
  BY <1>2, <1>4, <1>5 DEF FireNothing
<1>6. ASSUME NEW t \in 0..Many, NEW m \in 0..Many, NEW f \in 0..Many,
             moved + m <= MovesPerEvent, Deliver(t, m, f)
      PROVE  DispatchInv'
  <2>1. moved' \in 0..MovesPerEvent /\ forceDepth' = forceDepth
    BY <1>2, <1>3, <1>6 DEF Deliver
  <2>2. CASE TooDeep(t)
    BY <1>4, <1>6, <2>1, <2>2 DEF Deliver
  <2>3. CASE ~TooDeep(t)
    <3> DEFINE d == Delivery(t, m, f)
    <3>1. stack' = Append(Done, d) /\ triggerDepth' = triggerDepth + 1
      BY <1>6, <2>3 DEF Deliver
    <3>2. d \in Frame /\ d.phase = "triggers" /\ d.left["triggers"] = t
      BY TypedFrames
    <3> HIDE DEF d
    <3>3. stack' \in Seq(Frame) /\ stack' # <<>>
      BY <1>1, <3>1, <3>2, UnderAppend
    <3>4. /\ Count(stack', "triggers") = Count(stack, "triggers") + 1
          /\ Count(stack', "hooks") = Count(stack, "hooks") + 0
      BY <1>1, <3>1, <3>2, CountAppend
    <3>5. Count(stack, "hooks") \in Nat /\ Count(stack, "triggers") \in Nat /\ Count(stack, "forced") \in Nat
      BY <1>2, FramesFinite
    <3>6. CountersMatchStack'
      BY <1>2, <2>1, <3>1, <3>3, <3>4, <3>5, SMTT(60) DEF CountersMatchStack
    <3>7. Linked(Append(Done, d))
      BY <1>1, <3>2, LinkedAppend
    <3>8. Count(stack, "triggers") <= MaxTriggerDepth
      BY <1>2, <1>3, BusyUnderLimit
    <3>9. t > 0 => Count(stack, "triggers") + 1 <= MaxTriggerDepth
      BY <1>2, <1>3, <2>3, <3>5 DEF TooDeep, CountersMatchStack
    <3>10. Count(stack, "forced") + 1 <= Count(stack, "hooks")
      BY BusyUnderLimit
    <3>11. Shape(Append(Done, d))
      BY <1>1, <3>2, <3>5, <3>8, <3>9, <3>10, ShapeAppend
    <3> QED BY <1>2, <2>1, <3>1, <3>3, <3>6, <3>7, <3>11 DEF DispatchInv, TypeOK
  <2> QED BY <2>2, <2>3
<1> QED BY <1>5, <1>6 DEF Fire

(* A call returns: the frames under it are as they were when it was made. *)
LEMMA PopKeeps ==
    ASSUME DispatchInv, stack # <<>>, Below # <<>>, Top.phase \in {"hooks", "forced"}
    PROVE  /\ Below \in Seq(Frame) /\ Linked(Below) /\ Shape(Below)
           /\ Count(Below, "hooks") \in Nat \ {0}
<1> DEFINE b == Under(stack)
           f == Tip(stack)
           c == Under(b)
           g == Tip(b)
<1>1. b \in Seq(Frame) /\ f \in Frame /\ stack = Append(b, f)
  BY TipUnder DEF DispatchInv, TypeOK
<1>2. Below = b /\ Top = f /\ b # <<>>
  BY DEF Below, Top, Under, Tip
<1> HIDE DEF b, f
<1>3. c \in Seq(Frame) /\ g \in Frame /\ b = Append(c, g)
  BY <1>1, <1>2, TipUnder
<1>4. /\ Linked(Append(b, f)) /\ Shape(Append(b, f))
  BY <1>1 DEF DispatchInv
<1>5. /\ Linked(b)
      /\ Len(b) > 1 /\ f.phase = "hooks" => g.phase = "forced"
  BY <1>1, <1>4, LinkedAppend DEF g
<1> HIDE DEF c, g
<1>6. c = <<>> => g.phase = "hooks"
  BY <1>3, <1>5, LinkedAppend
<1>7. /\ Count(b, "triggers") <= MaxTriggerDepth
      /\ Count(b, "forced") + 1 <= Count(b, "hooks") + (IF f.phase = "hooks" THEN 1 ELSE 0)
  BY <1>1, <1>4, ShapeAppend
<1>8. /\ Count(b, "triggers") = Count(c, "triggers") + (IF g.phase = "triggers" THEN 1 ELSE 0)
      /\ Count(b, "hooks") = Count(c, "hooks") + (IF g.phase = "hooks" THEN 1 ELSE 0)
      /\ Count(b, "forced") = Count(c, "forced") + (IF g.phase = "forced" THEN 1 ELSE 0)
  BY <1>3, CountAppend
<1>9. /\ Count(c, "triggers") \in Nat /\ Count(c, "forced") \in Nat /\ Count(c, "hooks") \in Nat
      /\ Count(b, "hooks") \in Nat /\ MaxTriggerDepth \in Nat
  BY <1>1, <1>3, FramesFinite, DispatchAssumption
<1>10. Count(c, "forced") + 1 <= Count(b, "hooks")
  <2>1. CASE f.phase = "forced"
    BY <1>7, <1>8, <1>9, <2>1
  <2>2. CASE f.phase = "hooks" /\ c = <<>>
    <3>1. Count(c, "forced") = 0 /\ Count(c, "hooks") = 0
      BY <2>2, CountEmpty
    <3> QED BY <1>6, <1>8, <2>2, <3>1
  <2>3. CASE f.phase = "hooks" /\ c # <<>>
    <3>1. Len(b) > 1
      <4>1. Len(b) = Len(c) + 1
        BY <1>3, AppendProperties
      <4>2. Len(c) \in Nat /\ Len(c) # 0
        BY <1>3, <2>3, EmptySeq, LenProperties
      <4> QED BY <4>1, <4>2
    <3>2. g.phase = "forced"
      BY <1>5, <2>3, <3>1
    <3> QED BY <1>7, <1>8, <1>9, <2>3, <3>2
  <2> QED BY <1>2, <2>1, <2>2, <2>3
<1>11. Shape(Append(c, g))
  BY <1>3, <1>7, <1>8, <1>9, <1>10, ShapeAppend
<1> QED BY <1>1, <1>2, <1>3, <1>5, <1>9, <1>10, <1>11

(* A delivery goes on to its next phase. *)
LEMMA NextPhase ==
    ASSUME DispatchInv, stack # <<>>, NEW p \in {"moves", "forced"},
           Top.phase \in {"triggers", "moves"}, stack' = Append(Below, [Top EXCEPT !.phase = p])
    PROVE  /\ stack' \in Seq(Frame) /\ stack' # <<>> /\ Linked(stack') /\ Shape(stack')
           /\ Count(stack', "hooks") = Count(stack, "hooks")
           /\ Count(stack', "triggers")
                 = Count(stack, "triggers") - (IF Top.phase = "triggers" THEN 1 ELSE 0)
<1> DEFINE b == Under(stack)
           f == Tip(stack)
           g == [f EXCEPT !.phase = p]
<1>1. b \in Seq(Frame) /\ f \in Frame /\ stack = Append(b, f)
  BY TipUnder DEF DispatchInv, TypeOK
<1>2. Below = b /\ Top = f
  BY DEF Below, Top, Under, Tip
<1>3. g \in Frame /\ g.phase = p
  BY <1>1 DEF Frame, Phases
<1>4. stack' = Append(b, g)
  BY <1>2
<1> HIDE DEF b, f, g
<1>5. Linked(Append(b, f)) /\ Shape(Append(b, f))
  BY <1>1 DEF DispatchInv
<1>6. Linked(Append(b, g))
  BY <1>1, <1>2, <1>3, <1>5, LinkedAppend
<1>7. Shape(Append(b, g))
  BY <1>1, <1>2, <1>3, <1>5, ShapeAppend
<1>8. Append(b, g) \in Seq(Frame) /\ Append(b, g) # <<>>
  BY <1>1, <1>3, UnderAppend
<1>9. /\ Count(Append(b, g), "hooks") = Count(b, "hooks")
      /\ Count(Append(b, f), "hooks") = Count(b, "hooks")
      /\ Count(Append(b, g), "triggers") = Count(b, "triggers")
      /\ Count(Append(b, f), "triggers") = Count(b, "triggers") + (IF f.phase = "triggers" THEN 1 ELSE 0)
  <2>1. Count(b, "hooks") \in Nat /\ Count(b, "triggers") \in Nat
    BY <1>1, FramesFinite
  <2>2. /\ Count(Append(b, g), "hooks") = Count(b, "hooks") + (IF g.phase = "hooks" THEN 1 ELSE 0)
        /\ Count(Append(b, f), "hooks") = Count(b, "hooks") + (IF f.phase = "hooks" THEN 1 ELSE 0)
        /\ Count(Append(b, g), "triggers") = Count(b, "triggers") + (IF g.phase = "triggers" THEN 1 ELSE 0)
        /\ Count(Append(b, f), "triggers") = Count(b, "triggers") + (IF f.phase = "triggers" THEN 1 ELSE 0)
    BY <1>1, <1>3, CountAppend
  <2> QED BY <1>2, <1>3, <2>1, <2>2
<1>10. Count(b, "triggers") \in Nat
  BY <1>1, FramesFinite
<1> QED BY <1>1, <1>2, <1>4, <1>6, <1>7, <1>8, <1>9, <1>10

(* The counts the invariant speaks of are numbers. *)
LEMMA InvFacts ==
    ASSUME DispatchInv
    PROVE  /\ stack \in Seq(Frame) /\ triggerDepth \in Nat /\ forceDepth \in Nat
           /\ moved \in 0..MovesPerEvent
           /\ forceDepth <= MaxForceDepth
           /\ triggerDepth = Count(stack, "triggers")
           /\ forceDepth = Count(stack, "hooks") - (IF stack = <<>> THEN 0 ELSE 1)
           /\ \A p \in Phases : Count(stack, p) \in Nat
           /\ MaxTriggerDepth \in Nat /\ MaxForceDepth \in Nat /\ MovesPerEvent \in Nat
  BY FramesFinite, DispatchAssumption DEF DispatchInv, TypeOK, CountersMatchStack

LEMMA CommandEndStep == ASSUME DispatchInv, CommandEnd PROVE DispatchInv'
<1>1. stack # <<>> /\ Top.phase = "hooks" /\ stack' = Below
      /\ forceDepth' = (IF Below = <<>> THEN forceDepth ELSE forceDepth - 1)
      /\ triggerDepth' = triggerDepth /\ moved' = moved
  BY DEF CommandEnd, Through
<1>2. /\ Below \in Seq(Frame) /\ Top \in Frame /\ stack = Append(Below, Top)
  BY <1>1, TipUnder DEF Below, Top, Under, Tip, DispatchInv, TypeOK
<1>3. /\ Count(stack, "hooks") = Count(Below, "hooks") + 1
      /\ Count(stack, "triggers") = Count(Below, "triggers") + 0
  BY <1>1, <1>2, CountAppend
<1>4. Count(Below, "hooks") \in Nat /\ Count(Below, "triggers") \in Nat
  BY <1>2, FramesFinite
<1>5. CASE Below = <<>>
  <2>1. Count(Below, "hooks") = 0 /\ Count(Below, "triggers") = 0
    BY <1>5, CountEmpty
  <2>2. stack' = <<>> /\ Linked(stack') /\ Shape(stack')
    BY <1>1, <1>5 DEF Linked, Shape
  <2>3. forceDepth = 0 /\ triggerDepth = 0
    BY <1>1, <1>3, <2>1, InvFacts
  <2>4. CountersMatchStack'
    BY <1>1, <1>5, <2>1, <2>2, <2>3 DEF CountersMatchStack
  <2>5. TypeOK' /\ forceDepth' <= MaxForceDepth
    BY <1>1, <1>2, <1>5, InvFacts DEF TypeOK
  <2> QED BY <2>2, <2>4, <2>5 DEF DispatchInv
<1>6. CASE Below # <<>>
  <2>1. Linked(Below) /\ Shape(Below) /\ Count(Below, "hooks") \in Nat \ {0}
    BY <1>1, <1>6, PopKeeps
  <2>2. /\ forceDepth = Count(Below, "hooks") /\ triggerDepth = Count(Below, "triggers")
    BY <1>1, <1>3, <1>4, InvFacts
  <2>3. CountersMatchStack'
    BY <1>1, <1>6, <2>2 DEF CountersMatchStack
  <2>4. TypeOK' /\ forceDepth' <= MaxForceDepth
    BY <1>1, <1>2, <1>6, <2>1, <2>2, InvFacts DEF TypeOK
  <2> QED BY <1>1, <2>1, <2>3, <2>4 DEF DispatchInv
<1> QED BY <1>5, <1>6

LEMMA DeliveryEndStep == ASSUME DispatchInv, DeliveryReturn PROVE DispatchInv'
<1>1. stack # <<>> /\ Top.phase = "forced" /\ stack' = Below
      /\ forceDepth' = forceDepth /\ triggerDepth' = triggerDepth /\ moved' = moved
  BY DEF DeliveryReturn, Through
<1>2. /\ Below \in Seq(Frame) /\ Top \in Frame /\ stack = Append(Below, Top)
  BY <1>1, TipUnder DEF Below, Top, Under, Tip, DispatchInv, TypeOK
<1>3. Below # <<>>
  BY <1>1, <1>2, LinkedAppend DEF DispatchInv
<1>4. /\ Count(stack, "hooks") = Count(Below, "hooks") + 0
      /\ Count(stack, "triggers") = Count(Below, "triggers") + 0
  BY <1>1, <1>2, CountAppend
<1>5. Count(Below, "hooks") \in Nat /\ Count(Below, "triggers") \in Nat
  BY <1>2, FramesFinite
<1>6. Linked(Below) /\ Shape(Below)
  BY <1>1, <1>3, PopKeeps
<1> QED BY <1>1, <1>2, <1>3, <1>4, <1>5, <1>6, InvFacts DEF DispatchInv, TypeOK, CountersMatchStack

LEMMA ForceCommandStep == ASSUME DispatchInv, ForceCommand PROVE DispatchInv'
<1>1. /\ stack # <<>> /\ Top.phase = "forced" /\ Top.left[Top.phase] > 0
      /\ forceDepth < MaxForceDepth /\ forceDepth' = forceDepth + 1
      /\ triggerDepth' = triggerDepth /\ moved' = moved
  BY DEF ForceCommand, Busy, MayForce
<1>2. PICK n \in 0..Many : stack' = Append(Done, Command(n))
  BY DEF ForceCommand
<1> DEFINE d == Command(n)
<1>3. d \in Frame /\ d.phase = "hooks"
  BY TypedFrames
<1> HIDE DEF d
<1>4. /\ Done \in Seq(Frame) /\ Done # <<>> /\ Tip(Done).phase = "forced"
      /\ Linked(Done) /\ \A p : Count(Done, p) = Count(stack, p)
  BY <1>1, DoneKeeps
<1>5. stack' \in Seq(Frame) /\ stack' # <<>> /\ stack' = Append(Done, d)
  BY <1>2, <1>3, <1>4, UnderAppend DEF d
<1>6. /\ Count(stack', "hooks") = Count(stack, "hooks") + 1
      /\ Count(stack', "triggers") = Count(stack, "triggers") + 0
  BY <1>3, <1>4, <1>5, CountAppend
<1>7. Linked(stack')
  BY <1>3, <1>4, <1>5, LinkedAppend
<1>8. /\ Count(stack, "triggers") <= MaxTriggerDepth
      /\ Count(stack, "forced") <= Count(stack, "hooks")
  <2>1. Below \in Seq(Frame) /\ Top \in Frame /\ stack = Append(Below, Top)
    BY <1>1, TipUnder DEF Below, Top, Under, Tip, DispatchInv, TypeOK
  <2>2. /\ Count(stack, "triggers") = Count(Below, "triggers") + 0
        /\ Count(stack, "forced") = Count(Below, "forced") + 1
    BY <1>1, <2>1, CountAppend
  <2>3. /\ Count(Below, "triggers") <= MaxTriggerDepth
        /\ Count(Below, "forced") + 1 <= Count(stack, "hooks")
    BY <1>1 DEF DispatchInv, Shape, Below, Under
  <2>4. Count(Below, "triggers") \in Nat
    BY <2>1, FramesFinite
  <2> QED BY <2>2, <2>3, <2>4
<1>9. Shape(stack')
  <2>1. Count(stack, "forced") \in Nat /\ Count(stack, "hooks") \in Nat
    BY InvFacts, FramesFinite
  <2> QED BY <1>3, <1>4, <1>5, <1>8, <2>1, ShapeAppend
<1>10. Count(stack, "hooks") \in Nat /\ Count(stack, "triggers") \in Nat
  BY InvFacts DEF Phases
<1>11. CountersMatchStack'
  BY <1>1, <1>5, <1>6, <1>10, InvFacts, SMTT(60) DEF CountersMatchStack
<1>12. TypeOK' /\ forceDepth' <= MaxForceDepth
  BY <1>1, <1>5, InvFacts DEF TypeOK
<1> QED BY <1>5, <1>7, <1>9, <1>11, <1>12 DEF DispatchInv

LEMMA PhaseStep == ASSUME DispatchInv, TriggersDone \/ MovesDone PROVE DispatchInv'
<1>1. CASE TriggersDone
  <2>1. /\ stack # <<>> /\ Top.phase = "triggers"
        /\ stack' = Append(Below, [Top EXCEPT !.phase = "moves"])
        /\ triggerDepth' = triggerDepth - 1 /\ forceDepth' = forceDepth /\ moved' = moved
    BY <1>1 DEF TriggersDone, Through
  <2>2. /\ stack' \in Seq(Frame) /\ stack' # <<>> /\ Linked(stack') /\ Shape(stack')
        /\ Count(stack', "hooks") = Count(stack, "hooks")
        /\ Count(stack', "triggers") = Count(stack, "triggers") - 1
    BY <2>1, NextPhase
  <2>3. Count(stack', "triggers") \in Nat
    BY <2>2, FramesFinite
  <2> QED BY <2>1, <2>2, <2>3, InvFacts DEF DispatchInv, TypeOK, CountersMatchStack
<1>2. CASE MovesDone
  <2>1. /\ stack # <<>> /\ Top.phase = "moves"
        /\ stack' = Append(Below, [Top EXCEPT !.phase = "forced"])
        /\ triggerDepth' = triggerDepth /\ forceDepth' = forceDepth /\ moved' = moved
    BY <1>2 DEF MovesDone, Through
  <2>2. /\ stack' \in Seq(Frame) /\ stack' # <<>> /\ Linked(stack') /\ Shape(stack')
        /\ Count(stack', "hooks") = Count(stack, "hooks")
        /\ Count(stack', "triggers") = Count(stack, "triggers") - 0
    BY <2>1, NextPhase
  <2>3. Count(stack, "triggers") \in Nat
    BY InvFacts, FramesFinite
  <2> QED BY <2>1, <2>2, <2>3, InvFacts DEF DispatchInv, TypeOK, CountersMatchStack
<1> QED BY <1>1, <1>2

(* An event begins on an empty stack. *)
LEMMA EventStep == ASSUME DispatchInv, Event \/ ForceEvent PROVE DispatchInv'
<1>1. /\ stack = <<>> /\ triggerDepth = 0 /\ forceDepth = 0
      /\ triggerDepth' = 0 /\ moved' = 0
      /\ MaxTriggerDepth \in Nat /\ MaxForceDepth \in Nat /\ MovesPerEvent \in Nat
  <2>1. stack = <<>>
    BY DEF Event, ForceEvent
  <2> QED BY <2>1, CountEmpty, InvFacts DEF Event, ForceEvent
<1>2. PICK n \in 0..Many :
         \/ stack' = <<Command(n)>> /\ forceDepth' = 0
         \/ stack' = <<Command(0), Command(n)>> /\ forceDepth' = 1 /\ 0 < MaxForceDepth
  BY <1>1, DispatchAssumption DEF Event, ForceEvent, MayForce
<1> DEFINE c == Command(0)
           d == Command(n)
           e == <<>>
<1>3. c \in Frame /\ c.phase = "hooks" /\ d \in Frame /\ d.phase = "hooks"
  BY TypedFrames
<1> HIDE DEF c, d
<1>4. e \in Seq(Frame) /\ \A p : Count(e, p) = 0
  BY CountEmpty
<1>5. ASSUME NEW g \in Frame, g.phase = "hooks"
      PROVE  /\ Append(e, g) = <<g>> /\ <<g>> \in Seq(Frame) /\ <<g>> # <<>>
             /\ Linked(<<g>>) /\ Shape(<<g>>)
             /\ Count(<<g>>, "hooks") = 1 /\ Count(<<g>>, "triggers") = 0 /\ Count(<<g>>, "forced") = 0
  <2>1. Append(e, g) = <<g>>
    BY <1>5
  <2>2. Linked(e)
    BY DEF Linked
  <2> HIDE DEF e
  <2>3. Linked(Append(e, g))
    <3>1. ~(Len(e) > 1)
      BY DEF e
    <3> QED BY <1>4, <1>5, <2>2, <3>1, LinkedAppend
  <2>4. Shape(Append(e, g))
    BY <1>1, <1>4, <1>5, ShapeAppend
  <2>5. /\ Count(Append(e, g), "hooks") = 1 /\ Count(Append(e, g), "triggers") = 0
        /\ Count(Append(e, g), "forced") = 0
    BY <1>4, <1>5, CountAppend
  <2>6. Append(e, g) \in Seq(Frame) /\ Append(e, g) # <<>>
    BY <1>4, <1>5, UnderAppend
  <2> QED BY <2>1, <2>3, <2>4, <2>5, <2>6
<1>6. CASE stack' = <<d>> /\ forceDepth' = 0
  BY <1>1, <1>3, <1>5, <1>6 DEF DispatchInv, TypeOK, CountersMatchStack
<1>7. CASE stack' = <<c, d>> /\ forceDepth' = 1 /\ 0 < MaxForceDepth
  <2> DEFINE u == <<c>>
  <2>1. /\ u \in Seq(Frame) /\ u # <<>> /\ Linked(u)
        /\ Count(u, "hooks") = 1 /\ Count(u, "triggers") = 0 /\ Count(u, "forced") = 0
    BY <1>3, <1>5
  <2>2. stack' = Append(u, d) /\ ~(Len(u) > 1)
    BY <1>7
  <2> HIDE DEF u
  <2>3. Linked(stack')
    BY <1>3, <2>1, <2>2, LinkedAppend
  <2>4. Shape(stack')
    BY <1>1, <1>3, <2>1, <2>2, ShapeAppend
  <2>5. /\ Count(stack', "hooks") = 2 /\ Count(stack', "triggers") = 0
        /\ stack' \in Seq(Frame) /\ stack' # <<>>
    BY <1>3, <2>1, <2>2, CountAppend, UnderAppend
  <2> QED BY <1>1, <1>7, <2>3, <2>4, <2>5 DEF DispatchInv, TypeOK, CountersMatchStack
<1> QED BY <1>2, <1>6, <1>7 DEF c, d

LEMMA NothingForcedStep == ASSUME DispatchInv, ForceNothing PROVE DispatchInv'
<1>1. /\ stack # <<>> /\ Top.left[Top.phase] > 0 /\ stack' = Done
      /\ triggerDepth' = triggerDepth /\ forceDepth' = forceDepth /\ moved' = moved
  BY DEF ForceNothing, Busy
<1>2. /\ Done \in Seq(Frame) /\ Done # <<>> /\ Linked(Done) /\ Shape(Done)
      /\ \A p : Count(Done, p) = Count(stack, p)
  BY <1>1, DoneKeeps
<1> QED BY <1>1, <1>2, InvFacts DEF DispatchInv, TypeOK, CountersMatchStack

-----------------------------------------------------------------------------
(* The inductive invariant holds in every reachable state, for hooks that     *)
(* cause any number of hooks (deliver_effects, dispatch_as_actor).            *)
THEOREM DispatchInvariance == DispatchSpec => []DispatchInv
<1>1. DispatchInit => DispatchInv
  <2> SUFFICES ASSUME DispatchInit PROVE DispatchInv
    OBVIOUS
  <2>1. stack = <<>> /\ triggerDepth = 0 /\ forceDepth = 0 /\ moved = 0
    BY DEF DispatchInit
  <2>2. Linked(stack) /\ Shape(stack)
    BY <2>1 DEF Linked, Shape
  <2>3. CountersMatchStack
    BY <2>1, CountEmpty DEF CountersMatchStack
  <2>4. TypeOK /\ forceDepth <= MaxForceDepth
    BY <2>1, DispatchAssumption DEF TypeOK
  <2> QED BY <2>2, <2>3, <2>4 DEF DispatchInv
<1>2. DispatchInv /\ [DispatchNext]_dispatchVars => DispatchInv'
  <2> SUFFICES ASSUME DispatchInv, [DispatchNext]_dispatchVars PROVE DispatchInv'
    OBVIOUS
  <2>1. CASE Event \/ ForceEvent
    BY <2>1, EventStep
  <2>2. CASE CommandHook \/ TriggerHook \/ MoveHook
    <3>1. stack # <<>> /\ Top.left[Top.phase] > 0 /\ Top.phase # "forced" /\ Fire
      BY <2>2 DEF CommandHook, TriggerHook, MoveHook, Busy
    <3> QED BY <3>1, FireStep
  <2>3. CASE TriggersDone \/ MovesDone
    BY <2>3, PhaseStep
  <2>4. CASE CommandEnd
    BY <2>4, CommandEndStep
  <2>5. CASE DeliveryReturn
    BY <2>5, DeliveryEndStep
  <2>6. CASE ForceNothing
    BY <2>6, NothingForcedStep
  <2>7. CASE ForceCommand
    BY <2>7, ForceCommandStep
  <2>8. CASE UNCHANGED dispatchVars
    BY <2>8 DEF dispatchVars, DispatchInv, TypeOK, CountersMatchStack
  <2> QED BY <2>1, <2>2, <2>3, <2>4, <2>5, <2>6, <2>7, <2>8 DEF DispatchNext, Return
<1> QED BY <1>1, <1>2, PTL DEF DispatchSpec

(* No return leaks a level: whatever hooks cause, the counters are the number *)
(* of deliveries firing triggers and of commands forced (trigger_depth,       *)
(* force_depth).                                                              *)
THEOREM NoLevelLeaks == DispatchSpec => []CountersMatchStack
<1>1. DispatchInv => CountersMatchStack
  BY DEF DispatchInv
<1> QED BY <1>1, DispatchInvariance, PTL

(* Triggers and forced commands in any mixture pile up to a fixed height,     *)
(* whatever MAX_TRIGGER_DEPTH and MAX_FORCE_DEPTH are.                        *)
THEOREM LimitsHold == DispatchSpec => []OnlyMovesPile
<1>1. DispatchInv => OnlyMovesPile
  <2> SUFFICES ASSUME DispatchInv PROVE OnlyMovesPile
    OBVIOUS
  <2>1. /\ Count(stack, "hooks") \in Nat /\ Count(stack, "triggers") \in Nat
        /\ Count(stack, "moves") \in Nat /\ Count(stack, "forced") \in Nat
    BY InvFacts DEF Phases
  <2>2. Len(stack) = Count(stack, "hooks") + Count(stack, "triggers") + Count(stack, "moves") + Count(stack, "forced")
    BY InvFacts, CountAll
  <2>3. CASE stack = <<>>
    <3>1. Len(stack) = 0
      BY <2>3
    <3> QED BY <2>1, <3>1, InvFacts DEF OnlyMovesPile
  <2>4. CASE stack # <<>>
    <3> DEFINE b == Under(stack)
               f == Tip(stack)
    <3>1. b \in Seq(Frame) /\ f \in Frame /\ stack = Append(b, f)
      BY <2>4, TipUnder, InvFacts
    <3>2. /\ Count(b, "triggers") <= MaxTriggerDepth
          /\ Count(b, "forced") + 1 <= Count(stack, "hooks")
      BY <2>4 DEF DispatchInv, Shape
    <3> HIDE DEF b, f
    <3>3. /\ Count(stack, "triggers") = Count(b, "triggers") + (IF f.phase = "triggers" THEN 1 ELSE 0)
          /\ Count(stack, "forced") = Count(b, "forced") + (IF f.phase = "forced" THEN 1 ELSE 0)
      BY <3>1, CountAppend
    <3>4. Count(b, "triggers") \in Nat /\ Count(b, "forced") \in Nat
      BY <3>1, FramesFinite
    <3>5. Count(stack, "hooks") <= MaxForceDepth + 1
      BY <2>1, <2>4, InvFacts
    <3>6. MaxTriggerDepth \in Nat /\ MaxForceDepth \in Nat
      BY DispatchAssumption
    <3> QED BY <2>1, <2>2, <3>2, <3>3, <3>4, <3>5, <3>6, SMTT(60) DEF OnlyMovesPile
  <2> QED BY <2>3, <2>4
<1> QED BY <1>1, DispatchInvariance, PTL
=============================================================================
