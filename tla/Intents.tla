-------------------------------- MODULE Intents --------------------------------
(* What a script reads and what it asks for.                                  *)
(*                                                                            *)
(* A script never touches the world: it reads a snapshot, looks through to    *)
(* some of its own pending writes (softcode/api.rs), and records intents,     *)
(* which apply_to (softcode/mod.rs) turns into a changed copy, all or none.   *)
(* Softcode has the scripts that run, MapTemplate and Dungeon the two         *)
(* functions that make whole regions.  The intents here belong to nobody, as  *)
(* those of @eval and of unowned objects do; ObjectGraph has the authority    *)
(* and the quota.                                                             *)
EXTENDS Integers, Sequences, FiniteSets, FiniteSetsExt, Functions, Modules

CONSTANTS
    AttrKeys,           \* attributes; the value of one is <<>> or a pair
    MaxContainerDepth,  \* MAX_CONTAINER_DEPTH
    ArchetypeDepth      \* bound: the longest chain of archetypes

Unset == <<>>           \* an attribute that is not there
Nobody == 0             \* no reference
NoWord == ""            \* no title, no name, no key
-----------------------------------------------------------------------------
(* The world.                                                                 *)

Exists(w, r) == r \in DOMAIN w

(* objects_in: everything located there but exits. *)
ObjectsIn(w, l) == {r \in DOMAIN w : w[r].loc = l /\ w[r].kind # "exit"}
ExitsFrom(w, l) == {r \in DOMAIN w : w[r].loc = l /\ w[r].kind = "exit"}

ArchetypeOf(w, r) == IF Exists(w, r) THEN w[r].arch ELSE Nobody
LocationOf(w, r) == IF Exists(w, r) THEN w[r].loc ELSE Nobody

(* An object and what it delegates to, up to the first that is not there *)
Line(w, r) ==
    LET up[i \in 0..ArchetypeDepth] == IF i = 0 THEN r ELSE ArchetypeOf(w, up[i - 1]) IN up

(* The nearest of an object and its archetypes that passes a test, or Nobody *)
Nearest(w, r, Test(_)) ==
    LET up == Line(w, r)
        hits == {i \in DOMAIN up : Exists(w, up[i]) /\ Test(up[i])}
    IN  IF hits = {} THEN Nobody ELSE up[Min(hits)]

ResolvedAttr(w, r, k) ==
    LET HasOwn(q) == w[q].attrs[k] # Unset
        from == Nearest(w, r, HasOwn)
    IN  IF from = Nobody THEN Unset ELSE w[from].attrs[k]

ResolvedTitle(w, r) ==
    LET HasOwn(q) == w[q].title # NoWord
        from == Nearest(w, r, HasOwn)
    IN  IF from = Nobody THEN NoWord ELSE w[from].title

ResolvedDescription(w, r) ==
    LET HasOwn(q) == w[q].desc # NoWord
        from == Nearest(w, r, HasOwn)
    IN  IF from = Nobody THEN NoWord ELSE w[from].desc

(* Tags add up along the chain. *)
HasTag(w, r, tag) ==
    LET HasOwn(q) == tag \in w[q].tags IN Nearest(w, r, HasOwn) # Nobody

DisplayName(w, r) == LET t == ResolvedTitle(w, r) IN IF t = NoWord THEN w[r].key ELSE t
Answers(w, r, name) == name \in {w[r].key, DisplayName(w, r)}

(* would_cycle_archetype: what is not there yet counts too. *)
WouldCycle(w, t, a) == a # Nobody /\ t \in Range(Line(w, a))
-----------------------------------------------------------------------------
(* Reading (api.rs).  `b` is the batch recorded so far.                       *)

(* IntentBatch::pending_attr: the last write of this attribute, 0 if none. *)
LastWrite_First(b, t, k) ==
    LET hits == {i \in DOMAIN b : b[i].op = "attr" /\ b[i].t = t /\ b[i].k = k}
    IN  IF hits = {} THEN 0 ELSE Min(hits)
LastWrite(b, t, k) ==
    LET hits == {i \in DOMAIN b : b[i].op = "attr" /\ b[i].t = t /\ b[i].k = k}
    IN  IF hits = {} THEN 0 ELSE Max(hits)

(* resolve_attr: get_attr, the attrs proxy and the fields of a handle.  What  *)
(* is about to be unset shows what the archetypes have.                       *)
GetAttr(b, w, r, k) ==
    LET i == LastWrite(b, r, k) IN
    IF i # 0 /\ b[i].v # Unset THEN b[i].v
    ELSE IF i # 0 THEN IF Exists(w, r) THEN ResolvedAttr(w, w[r].arch, k) ELSE Unset
    ELSE ResolvedAttr(w, r, k)

(* has_attr and pick look at the pending write alone, if there is one. *)
HasAttr(b, w, r, k) ==
    LET i == LastWrite(b, r, k) IN
    IF i # 0 THEN b[i].v # Unset ELSE ResolvedAttr(w, r, k) # Unset
Pick(b, w, r, k, slot) ==
    LET i == LastWrite(b, r, k)
        root == IF i # 0 THEN b[i].v ELSE ResolvedAttr(w, r, k)
    IN  IF root = Unset THEN Unset ELSE <<root[slot]>>

(* pending_title, pending_description *)
LastText(b, op, t) ==
    LET hits == {i \in DOMAIN b : b[i].op = op /\ b[i].t = t}
    IN  IF hits = {} THEN 0 ELSE Max(hits)
TitleOf(b, w, r) ==
    LET i == LastText(b, "title", r) IN IF i # 0 THEN b[i].k ELSE ResolvedTitle(w, r)
DescriptionOf(b, w, r) ==
    LET i == LastText(b, "desc", r) IN IF i # 0 THEN b[i].k ELSE ResolvedDescription(w, r)

(* What iterating over a handle shows: nothing pending. *)
Fields(w, r) ==
    [title |-> ResolvedTitle(w, r), description |-> ResolvedDescription(w, r),
     attrs |-> [k \in AttrKeys |-> ResolvedAttr(w, r, k)]]

GetLocation(w, r) == {w[q].loc : q \in {r} \cap DOMAIN w} \cap DOMAIN w
GetRoomContents(w, r) == ObjectsIn(w, r)
GetContents(w, r) == {o \in ObjectsIn(w, r) : w[o].kind = "item"}
PlayersInRoom(w, r) ==
    {o \in ObjectsIn(w, r) : w[o].kind = "player" /\ "offline" \notin w[o].tags}
FindByTag(w, tag) == {o \in DOMAIN w : HasTag(w, o, tag)}
FindByAttr(w, k, v) == {o \in DOMAIN w : v # Unset /\ ResolvedAttr(w, o, k) = v}
AllByKind(w, kind) == {o \in DOMAIN w : w[o].kind = kind}
FindInRoom(w, r, name) == {o \in ObjectsIn(w, r) : Answers(w, o, name)}
FindInInventory(w, r, name) == {o \in ObjectsIn(w, r) : Answers(w, o, name)}

(* find_player: someone online before anyone offline. *)
FindPlayer(w, name) ==
    LET named == {o \in AllByKind(w, "player") : Answers(w, o, name)}
        online == {o \in named : "offline" \notin w[o].tags}
    IN  IF online # {} THEN online ELSE named
FindExit(w, r, name) == {o \in ExitsFrom(w, r) : w[o].key = name}
SameRoom(w, a, b) == Exists(w, a) /\ Exists(w, b) /\ w[a].loc # Nobody /\ w[a].loc = w[b].loc
IsCarrying(w, a, tag) == \E o \in ObjectsIn(w, a) : HasTag(w, o, tag)
IsContainer(w, r) == Exists(w, r) /\ HasTag(w, r, "container")
IsKind(w, r, kind) == Exists(w, r) /\ w[r].kind = kind

(* get_nearby: by the position an object has itself, wherever it is unset 0,0. *)
Nearby(w, r, at, radius) ==
    LET Pos(o) == IF w[o].attrs["pos"] = Unset THEN <<0, 0>> ELSE w[o].attrs["pos"]
        Far(o) == (Pos(o)[1] - at[1]) * (Pos(o)[1] - at[1]) + (Pos(o)[2] - at[2]) * (Pos(o)[2] - at[2])
    IN  {o \in DOMAIN w : w[o].loc = r /\ Far(o) <= radius * radius}

(* What the fields of a table or a handle name: the bare references, which    *)
(* nothing checks.                                                            *)
BareRefs(w, r) ==
    (UNION {{w[q].loc, w[q].owner, w[q].arch, w[q].target} : q \in {r} \cap DOMAIN w}) \ {Nobody}

(* The references a script has been given by the functions that make things *)
Handed(b) == {b[i].t : i \in {j \in DOMAIN b : b[j].op \in {"spawn", "exit", "clone"}}}

-----------------------------------------------------------------------------
(* Applying (mod.rs, apply_to).  Every intent has the same fields: the object *)
(* it is about, a word, a value and two more references.                      *)

I(op, t, k, v, r, a) == [op |-> op, t |-> t, k |-> k, v |-> v, r |-> r, a |-> a]

(* GameObject::new *)
Blank(kind, key, loc) ==
    [kind |-> kind, key |-> key, loc |-> loc, arch |-> Nobody, target |-> Nobody,
     owner |-> Nobody, title |-> NoWord, desc |-> NoWord,
     attrs |-> [k \in AttrKeys |-> Unset], tags |-> {}, libs |-> [n \in LibNames |-> 0]]

(* The walk from a destination up through what contains it: it may not meet   *)
(* the thing moved, nor go on for more than MaxContainerDepth steps.          *)
MayEnter(w, t, d) ==
    LET up[i \in 0..(MaxContainerDepth + 1)] ==
            IF i = 0 THEN d ELSE LocationOf(w, up[i - 1])
    IN  /\ Exists(w, d) /\ Exists(w, t) /\ t # d
        /\ \A i \in DOMAIN up : i = 0 \/ up[i] # t
        /\ up[MaxContainerDepth + 1] = Nobody

ThereOrNobody(w, r) == r = Nobody \/ Exists(w, r)
Amount(w, t, k) == w[t].attrs[k][1]

(* What apply_to asks before each kind of intent *)
Accepts(w, x) ==
    CASE x.op \in {"attr", "tag", "untag", "title", "desc", "lib", "detach", "effect"} ->
             Exists(w, x.t)
      [] x.op = "nearby" -> TRUE
      [] x.op = "command" -> IsKind(w, x.t, "player") \/ IsKind(w, x.t, "npc")
      [] x.op = "owner" -> Exists(w, x.t) /\ Exists(w, x.r)
      [] x.op = "move" -> MayEnter(w, x.t, x.r)
      [] x.op = "update" -> IsKind(w, x.t, "exit") /\ ThereOrNobody(w, x.r)
      [] x.op = "spawn" -> /\ ~Exists(w, x.t) /\ ThereOrNobody(w, x.r)
                          /\ ThereOrNobody(w, x.a) /\ ~WouldCycle(w, x.t, x.a)
      [] x.op = "exit" -> ~Exists(w, x.t) /\ Exists(w, x.r) /\ Exists(w, x.a)
      [] x.op = "clone" -> /\ ~Exists(w, x.t) /\ Exists(w, x.r)
                          /\ w[x.r].kind # "player" /\ "locked" \notin w[x.r].tags
                          /\ ThereOrNobody(w, IF x.a = Nobody THEN w[x.r].loc ELSE x.a)
      [] x.op = "destroy" -> /\ Exists(w, x.t) /\ w[x.t].kind # "player"
                            /\ \A o \in DOMAIN w : w[o].arch # x.t
      [] x.op = "arch" -> Exists(w, x.t) /\ ThereOrNobody(w, x.r) /\ ~WouldCycle(w, x.t, x.r)
      [] x.op = "transfer" -> /\ Exists(w, x.t) /\ Exists(w, x.r)
                             /\ w[x.t].attrs[x.k] # Unset
                             /\ Amount(w, x.t, x.k) >= x.v[1]

(* detach_object: what the archetypes gave becomes its own. *)
Detached(w, t) ==
    [w[t] EXCEPT !.arch = Nobody, !.title = ResolvedTitle(w, t),
                 !.desc = ResolvedDescription(w, t),
                 !.attrs = [k \in AttrKeys |-> ResolvedAttr(w, t, k)],
                 !.tags = {g \in UNION {w[o].tags : o \in DOMAIN w} : HasTag(w, t, g)}]

(* Both balances are read before either is written. *)
Transferred_GivesOnly(w, x) ==
    [w EXCEPT ![x.r].attrs[x.k] =
        <<(IF w[x.r].attrs[x.k] = Unset THEN 0 ELSE Amount(w, x.r, x.k)) + x.v[1], 0>>]
Transferred(w, x) ==
    LET had == Amount(w, x.t, x.k)
        has == IF w[x.r].attrs[x.k] = Unset THEN 0 ELSE Amount(w, x.r, x.k)
    IN  [w EXCEPT ![x.t].attrs[x.k] = <<had - x.v[1], 0>>, ![x.r].attrs[x.k] = <<has + x.v[1], 0>>]

Make(w, r, thing) == [q \in DOMAIN w \cup {r} |-> IF q = r THEN thing ELSE w[q]]

(* What an accepted intent makes of the world *)
Changed(w, x) ==
    CASE x.op = "attr" -> [w EXCEPT ![x.t].attrs[x.k] = x.v]
      [] x.op = "tag" -> [w EXCEPT ![x.t].tags = @ \cup {x.k}]
      [] x.op = "untag" -> [w EXCEPT ![x.t].tags = @ \ {x.k}]
      [] x.op = "title" -> [w EXCEPT ![x.t].title = x.k]
      [] x.op = "desc" -> [w EXCEPT ![x.t].desc = x.k]
      [] x.op = "lib" -> [w EXCEPT ![x.t].libs[x.k] = x.v[1]]
      [] x.op = "owner" -> [w EXCEPT ![x.t].owner = x.r]
      [] x.op = "move" -> [w EXCEPT ![x.t].loc = x.r]
      [] x.op = "update" -> [w EXCEPT ![x.t].key = IF x.k = NoWord THEN @ ELSE x.k,
                                      ![x.t].target = IF x.r = Nobody THEN @ ELSE x.r]
      [] x.op = "spawn" -> Make(w, x.t, [Blank(x.k, x.k, x.r) EXCEPT !.arch = x.a])
      [] x.op = "exit" -> Make(w, x.t, [Blank("exit", x.k, x.r) EXCEPT !.target = x.a])
      [] x.op = "clone" -> Make(w, x.t, [w[x.r] EXCEPT !.loc = IF x.a = Nobody THEN @ ELSE x.a,
                                                     !.owner = Nobody,
                                                     !.tags = @ \ {"offline", "managed"}])
      [] x.op = "destroy" -> Restrict(w, DOMAIN w \ {x.t})
      [] x.op = "detach" -> IF w[x.t].arch = Nobody THEN w ELSE [w EXCEPT ![x.t] = Detached(w, x.t)]
      [] x.op = "arch" -> [w EXCEPT ![x.t].arch = x.r]
      [] x.op = "transfer" -> Transferred(w, x)
      [] OTHER -> w

(* apply_batch and dry_run: one intent after the other on a copy *)
Then(st, x) ==
    IF st.ok /\ Accepts(st.w, x) THEN [ok |-> TRUE, w |-> Changed(st.w, x)]
    ELSE [ok |-> FALSE, w |-> st.w]
Apply(w, b) ==
    LET upTo[i \in 0..Len(b)] ==
            IF i = 0 THEN [ok |-> TRUE, w |-> w] ELSE Then(upTo[i - 1], b[i])
    IN  upTo[Len(b)]
=============================================================================
