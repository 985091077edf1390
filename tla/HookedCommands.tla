--------------------------- MODULE HookedCommands ---------------------------
(***************************************************************************)
(* The built-in commands that move or destroy objects (src/src/engine/     *)
(* mod.rs), composed with the intents of ObjectGraph.  A command looks for *)
(* its objects, checks what it has to check, runs the hooks that may veto  *)
(* it, and then acts on what it found before; a hook may emit any intent   *)
(* and force any command, so between the look and the act the world may be *)
(* any other.  Exits and permissions are fixed, and every hook runs as the *)
(* system.                                                                 *)
(***************************************************************************)
EXTENDS ObjectGraph, Sequences

CONSTANTS
    Rooms,      \* objects of kind room
    Items,      \* objects of kind item
    Containers, \* the items tagged item:container
    Archetypes, \* bound: what scripts delegate to
    Doomed,     \* bound: what scripts destroy
    Reached,    \* bound: where scripts move things
    Followers,  \* what is tagged troupe:<p> for each player p
    Exits,      \* pairs: where an exit is, and where it leads, which is asked
                \* to be a live object when it is made, and no more
    Capacity,   \* container_capacity of every container
    MaxCalls    \* bound: commands in progress, forced ones included

ASSUME KindsAssumption ==
    /\ Rooms \cup Items \subseteq Refs \ Players /\ Rooms \cap Items = {}
    /\ Containers \subseteq Items /\ Archetypes \subseteq Items
    /\ Followers \in [Players -> SUBSET (Refs \ (Players \cup Rooms))]
    /\ Doomed \cup Reached \subseteq Refs
    /\ Exits \subseteq Refs \X Refs
    /\ Movable \cap Rooms = {}
    /\ Capacity \in Nat /\ MaxCalls \in Nat

VARIABLES
    calls,  \* the commands in progress, the innermost last
    down    \* the engine has panicked

cvars == <<objects, by, looped, calls, down>>

(* A command before its act: `what` is to go to `dest`; `box` is the          *)
(* container it comes from or goes to; meddled: the world has changed since   *)
(* the command looked.  After its act a command only runs hooks.              *)
Verbs == {"get", "put", "drop", "go", "use", "destroy"}
Call == [acted : {FALSE}, verb : Verbs, actor : Players, what : Refs,
         dest : Refs \cup {None}, box : Refs \cup {None}, meddled : BOOLEAN]
Acted == [acted |-> TRUE]

CONSTANT Start  \* where everything is in the beginning, rooms in nothing
ASSUME StartAssumption ==
    /\ Start \in [Refs -> Refs \cup {None}]
    /\ \A r \in Rooms : Start[r] = None

CInit ==
    /\ objects = [r \in Refs |-> [loc |-> Start[r], arch |-> None, owner |-> None, own |-> None]]
    /\ by = None
    /\ looped = {}
    /\ calls = <<>>
    /\ down = FALSE

-----------------------------------------------------------------------------
Inside(r) == {o \in Live : objects[o].loc = r}
Top == calls[Len(calls)]
Under == SubSeq(calls, 1, Len(calls) - 1)
Meddled(s) == [i \in 1..Len(s) |-> IF s[i].acted THEN s[i] ELSE [s[i] EXCEPT !.meddled = TRUE]]

(* World::relocate: no test, but the object has to be there. *)
Relocated(objs, moved, d) ==
    [r \in Refs |-> IF r \in moved /\ objs[r] # Gone THEN [objs[r] EXCEPT !.loc = d] ELSE objs[r]]

(* Input, or a hook of the innermost command that forces another. *)
Begin(verb, p, what, dest, box) ==
    /\ Len(calls) < MaxCalls
    /\ calls' = Append(calls, [verb |-> verb, actor |-> p, what |-> what, dest |-> dest,
                               box |-> box, acted |-> FALSE, meddled |-> FALSE])

(* Mutant: gone objects are found too. *)
Within_Stale(p) == {i \in Items : i \notin Live \/ objects[i].loc \in {p, objects[p].loc}}
(* find_item_in_inventory_or_room *)
Within(p) == {i \in Items \cap Live : objects[i].loc \in {p, objects[p].loc}}

Get(p, i) ==
    /\ i \in Items \cap Inside(objects[p].loc)
    /\ Begin("get", p, i, p, None)
    /\ UNCHANGED objects

GetFrom(p, i, c) ==
    /\ c \in Within(p)
    /\ i \in Items \cap Inside(c)
    /\ Begin("get", p, i, p, c)
    /\ UNCHANGED objects

(* Mutant: room for one more than the capacity. *)
Full_OneMore(c) == Cardinality(Inside(c) \cap Items) > Capacity
Full(c) == Cardinality(Inside(c) \cap Items) >= Capacity

(* Mutant: an object may be put inside itself. *)
PutAllowed_Itself(i, c) == c \in Containers /\ ~Full(c)
PutAllowed(i, c) == c \in Containers /\ i # c /\ ~Full(c)

Put(p, i, c) ==
    /\ {i, c} \subseteq Within(p)
    /\ PutAllowed(i, c)
    /\ Begin("put", p, i, c, c)
    /\ UNCHANGED objects

Drop(p, i) ==
    /\ i \in Items \cap Inside(p)
    /\ Begin("drop", p, i, objects[p].loc, None)
    /\ UNCHANGED objects

Go(p, to) ==
    /\ <<objects[p].loc, to>> \in Exits
    /\ Begin("go", p, p, to, None)
    /\ UNCHANGED objects

(* Nothing but hooks comes of it. *)
Use(p) ==
    /\ Inside(p) \cup Inside(objects[p].loc) # {}
    /\ Begin("use", p, p, None, None)
    /\ UNCHANGED objects

Flattened(t) == [r \in Refs |-> IF r \in Instances(t) THEN Detached(r) ELSE objects[r]]

(* Mutant: nobody looks into the room. *)
Occupied_Never(t) == FALSE
Occupied(t) == t \in Rooms /\ Inside(t) # {}

(* @destroy, which is never forced: the instances of a cascade are flattened  *)
(* before anything else is asked, and stay so when the room turns out to be   *)
(* occupied.                                                                  *)
DestroyCommand(p, t, cascade) ==
    /\ calls = <<>>
    /\ t \in Things
    /\ Instances(t) # {} => cascade
    /\ objects' = Flattened(t)
    /\ IF Occupied(t) THEN UNCHANGED calls ELSE Begin("destroy", p, t, None, None)

Command ==
    /\ \E p \in Players :
         /\ objects[p].loc # None
         /\ \/ \E i \in Items : Get(p, i) \/ Drop(p, i) \/ \E c \in Items : GetFrom(p, i, c)
            \/ \E i \in Items, c \in Items : Put(p, i, c)
            \/ \E to \in Refs : Go(p, to)
            \/ Use(p)
            \/ \E t \in Things, cascade \in BOOLEAN : DestroyCommand(p, t, cascade)
    /\ ~down
    /\ UNCHANGED <<by, looped, down>>

-----------------------------------------------------------------------------
(* A hook of the innermost command emits an intent.  Scripts leave rooms      *)
(* where they are; what they destroy, delegate to or move to is bounded.      *)
HookIntent ==
    /\ ~down /\ calls # <<>>
    /\ \/ \E t \in Live \cap Movable, d \in Live \cap Reached : Move(t, d)
       \/ \E t \in Things \cap Doomed : Destroy(None, t, FALSE)
       \/ \E t \in Items \cap Live, ar \in Archetypes \cup {None} : SetArchetype(None, t, ar)
    /\ calls' = Meddled(calls)
    /\ UNCHANGED <<by, down>>

(* can_get, can_put, can_drop, can_traverse, can_enter, can_use veto, or fail *)
(* where a failure counts as a veto.                                          *)
Veto ==
    /\ ~down /\ calls # <<>>
    /\ ~Top.acted /\ Top.verb # "destroy"
    /\ calls' = Under
    /\ UNCHANGED <<objects, by, looped, down>>

(* The names of what is taken and of where it comes from or goes to are       *)
(* looked up, without asking whether it is still there.                       *)
Unwraps == IF Top.verb \in {"get", "put", "drop"} THEN {Top.what, Top.box} \ {None} ELSE {}

Carried == {Top.what} \cup (IF Top.verb = "go" THEN Followers[Top.actor] ELSE {})

AfterAct ==
    CASE Top.verb \in {"get", "put", "drop"} -> Relocated(objects, {Top.what}, Top.dest)
      [] Top.verb = "go" -> Relocated(objects, Carried, Top.dest)
      [] Top.verb = "use" -> objects
      [] Top.verb = "destroy" -> [objects EXCEPT ![Top.what] = Gone]

(* The act. Every command in progress under it sees the world change.         *)
Act ==
    /\ ~down /\ calls # <<>> /\ ~Top.acted
    /\ Top.verb = "go" => Top.dest \in Live
    /\ IF Unwraps \subseteq Live
       THEN /\ objects' = AfterAct
            /\ calls' = IF objects' = objects
                        THEN Append(Under, Acted)
                        ELSE Append(Meddled(Under), Acted)
            /\ UNCHANGED down
       ELSE /\ down' = TRUE
            /\ UNCHANGED <<objects, calls>>
    /\ UNCHANGED <<by, looped>>

(* "That destination doesn't exist": the one thing that is looked at again. *)
NowhereToGo ==
    /\ ~down /\ calls # <<>> /\ ~Top.acted
    /\ Top.verb = "go" /\ Top.dest \notin Live
    /\ calls' = Under
    /\ UNCHANGED <<objects, by, looped, down>>

(* The hooks that come after the act are through. *)
Return ==
    /\ ~down /\ calls # <<>>
    /\ Top.acted
    /\ calls' = Under
    /\ UNCHANGED <<objects, by, looped, down>>

CNext == Command \/ HookIntent \/ Veto \/ Act \/ NowhereToGo \/ Return

CSpec == CInit /\ [][CNext]_cvars

-----------------------------------------------------------------------------
CTypeOK ==
    /\ TypeOK
    /\ calls \in Seq(Call \cup {Acted})
    /\ down \in BOOLEAN

(* The innermost command acts, on a world that is as it was when it looked or *)
(* on another.                                                                *)
Acts == calls # <<>> /\ ~Top.acted /\ Len(calls') = Len(calls) /\ calls'[Len(calls)].acted
ActsBlind == Acts /\ Top.meddled

(* What `r` is in, directly or not, when the objects are `objs`. *)
Around(objs, r) ==
    LET In(S) == {objs[o].loc : o \in {o \in Refs \cap S : objs[o] # Gone}}
        upTo[i \in 1..Cardinality(Refs)] == IF i = 1 THEN In({r}) ELSE In({r} \cup upTo[i - 1])
    IN upTo[Cardinality(Refs)]

(* The exit leads to something the walker takes along, or into it. *)
LeadsInward ==
    Top.verb = "go" /\ (Top.dest \in Carried \/ Beneath(Top.dest, Carried))

(* None of the commands asks whether a move closes a circle, as scripts are   *)
(* asked: what they look for makes it impossible, unless a hook moves         *)
(* something between the look and the act, or the exit leads into what goes   *)
(* through it, or there was a circle before (cmd_put, cmd_get, cmd_drop,      *)
(* cmd_go).                                                                   *)
CircleTakesMeddling ==
    [][(\E r \in Live' : objects'[r].loc # objects[r].loc /\ r \in Around(objects', r))
         => ActsBlind \/ (Acts /\ LeadsInward) \/ ~ContainmentAcyclic]_objects

(* Nor do they look twice at the capacity (cmd_put): a container is filled    *)
(* beyond it by a script, never by a put that found it as it left it.         *)
PutFits ==
    [][Acts /\ Top.verb = "put" /\ ~Top.meddled =>
         Cardinality({o \in Items \cap Live' : objects'[o].loc = Top.dest}) <= Capacity]_cvars

(* The engine unwraps what it looked up before the hooks: it panics if they   *)
(* destroyed it, and only then.                                               *)
PanicTakesMeddling == [][down' /\ ~down => Top.meddled]_cvars

(* "Cannot destroy a room with objects in it": whoever is in the room when it *)
(* goes was put there by a hook (cmd_destroy).                                *)
RazingTakesMeddling ==
    [][\A r \in Rooms \cap Live : r \notin Live' /\ Acts /\ ~Top.meddled => Inside(r) = {}]_cvars

(* "Never delete and orphan": an archetype goes only when nothing delegates   *)
(* to it any more (cmd_destroy), unless on_destroy makes an instance.         *)
OrphanTakesMeddling ==
    [][~NoOrphan' => ~NoOrphan \/ ActsBlind]_objects

(* @destroy keeps both of its promises, about occupants and instances.        *)
DestroyTakesMeddling == RazingTakesMeddling /\ OrphanTakesMeddling
=============================================================================
