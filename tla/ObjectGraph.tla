---------------------------- MODULE ObjectGraph ----------------------------
(***************************************************************************)
(* The graph of objects that softcode edits: who contains whom, who        *)
(* delegates to whom, who owns whom (src/src/softcode/mod.rs, apply_to).   *)
(* One action per intent that changes the graph.                           *)
(*                                                                         *)
(* apply_batch applies a list of intents to a copy of the world and keeps  *)
(* the copy only if all of them succeed, so the worlds it can leave are    *)
(* those that single intents lead to: a failing intent is a step that is   *)
(* not taken, and a batch a run of steps under one authority.              *)
(***************************************************************************)
EXTENDS Naturals, FiniteSets

CONSTANTS
    Refs,              \* dbrefs
    Players,           \* the player objects among them; some of them build
    Movable,           \* bound: what scripts move
    Traits,            \* what an object may define itself or inherit: an attr, a hook
    OwnerQuota,        \* OWNER_OBJECT_QUOTA
    MaxContainerDepth, \* MAX_CONTAINER_DEPTH
    MaxArchetypeDepth, \* MAX_ARCHETYPE_DEPTH
    None,              \* no location, archetype, owner, trait; the system's authority
    Gone               \* no object

ASSUME ConstantsAssumption ==
    /\ IsFiniteSet(Refs) /\ Players \subseteq Refs /\ Movable \subseteq Refs
    /\ None \notin Refs \cup Traits
    /\ OwnerQuota \in Nat /\ MaxContainerDepth \in Nat
    /\ MaxArchetypeDepth \in Nat \ {0}

Object == [loc : Refs \cup {None}, arch : Refs \cup {None},
           owner : Players \cup {None}, own : Traits \cup {None}]
ASSUME GoneAssumption == Gone \notin Object

VARIABLES
    objects,    \* World::objects
    by,         \* history: the authority of the last batch
    looped      \* history: objects made inside what their dbref still held,
                \* and not moved since

vars == <<objects, by, looped>>

Live == {r \in Refs : objects[r] # Gone}
Things == Live \ Players
Authorities == Players \cup {None}

Init ==
    /\ objects = [r \in Refs |->
         IF r \in Players THEN [loc |-> None, arch |-> None, owner |-> None, own |-> None]
                          ELSE Gone]
    /\ by = None
    /\ looped = {}

-----------------------------------------------------------------------------
(* may_modify: the system may modify anything, a builder what he owns. *)
MayModify(a, t) == a = None \/ (t \in Live /\ objects[t].owner = a)

OwnedBy(p) == {r \in Live : objects[r].owner = p}

(* Mutant: one more than the quota. *)
AtQuota_OneMore(a) == a # None /\ Cardinality(OwnedBy(a)) > OwnerQuota
AtQuota(a) == a # None /\ Cardinality(OwnedBy(a)) >= OwnerQuota

(* Where the walk up the locations stands after i steps from d. *)
LocationOf(r) == IF r \in Live THEN objects[r].loc ELSE None
ContainerWalk(d) ==
    LET walk[i \in 0..(MaxContainerDepth + 1)] ==
          IF i = 0 THEN d ELSE LocationOf(walk[i - 1])
    IN walk

(* Where the walk up the archetypes stands after i steps from r: neither the  *)
(* resolvers nor the cycle guard visit more than MaxArchetypeDepth objects.   *)
ArchetypeOf(r) == IF r \in Live THEN objects[r].arch ELSE None
ArchetypeWalk(r) ==
    LET walk[i \in 0..(MaxArchetypeDepth - 1)] ==
          IF i = 0 THEN r ELSE ArchetypeOf(walk[i - 1])
    IN walk

WouldCycle(t, c) == \E i \in 0..(MaxArchetypeDepth - 1) : ArchetypeWalk(c)[i] = t

(* resolved_attr and its siblings: the nearest definition, the object's own   *)
(* before those of its ancestors.                                             *)
Defines(r) == r \in Live /\ objects[r].own # None
Resolved(r) ==
    LET walk == ArchetypeWalk(r)
        nearest == {i \in DOMAIN walk :
                      Defines(walk[i]) /\ \A j \in 0..(i - 1) : ~Defines(walk[j])}
    IN IF nearest = {} THEN None ELSE objects[walk[CHOOSE i \in nearest : TRUE]].own

Instances(t) == {r \in Live : objects[r].arch = t}

(* Mutant: only what the archetype itself defines is copied. *)
Detached_OwnOnly(r) ==
    [objects[r] EXCEPT !.arch = None,
        !.own = IF @ = None /\ ArchetypeOf(r) \in Live THEN objects[ArchetypeOf(r)].own ELSE @]

(* detach_object: what the object inherits becomes its own. *)
Detached(r) == [objects[r] EXCEPT !.arch = None, !.own = Resolved(r)]

-----------------------------------------------------------------------------
(* The intents.  `a` is the authority the batch runs under.                   *)

(* SetAttr, UnsetAttr, SetScript, SetTitle, SetDescription *)
SetTrait(a, t, v) ==
    /\ MayModify(a, t)
    /\ t \in Live
    /\ objects' = [objects EXCEPT ![t].own = v]
    /\ UNCHANGED looped

(* Mutant: the walk only compares what contains the destination's container.  *)
MoveAllowed_Shallow(t, d) ==
    LET walk == ContainerWalk(d) IN
    /\ d \in Live /\ t \in Live /\ t # d
    /\ walk[1] # t
    /\ walk[MaxContainerDepth + 1] = None

(* A walk that has not reached the top after MaxContainerDepth containers is  *)
(* refused, and so is one that meets the target.                              *)
MoveAllowed(t, d) ==
    LET walk == ContainerWalk(d) IN
    /\ d \in Live /\ t \in Live /\ t # d
    /\ \A i \in 1..(MaxContainerDepth + 1) : walk[i] # t
    /\ walk[MaxContainerDepth + 1] = None

(* Move asks for no ownership. *)
Move(t, d) ==
    /\ MoveAllowed(t, d)
    /\ objects' = [objects EXCEPT ![t].loc = d]
    /\ looped' = looped \ {t}

(* Upwards from l the locations come to no end before they name one of R. *)
Beneath(l, R) ==
    \E S \in SUBSET Live : l \in S /\ \A x \in S : objects[x].loc \in S \cup R

(* add_object.  The three intents that create only ask that r is not live: it *)
(* may be the dbref of a destroyed object in which things are still located,  *)
(* named again by the script or, if the first one was named ahead of the      *)
(* counter, reached by the counter.                                           *)
Create(r, l, ar, o, v) ==
    /\ r \in Refs \ Live
    /\ objects' = [objects EXCEPT ![r] = [loc |-> l, arch |-> ar, owner |-> o, own |-> v]]
    /\ looped' = IF Beneath(l, {r}) THEN looped \cup {r} ELSE looped \ {r}

(* The owner is whatever the script says, or nobody. *)
Spawn(a, r, l, o, ar) ==
    /\ ~AtQuota(a)
    /\ l \in Live \cup {None} /\ ar \in Live \cup {None}
    /\ ar # None => ~WouldCycle(r, ar)
    /\ Create(r, l, ar, o, None)

(* CloneObject: at the location given or else the source's, which may be gone *)
(* and then refuses the clone; the owner is the one given or else the         *)
(* authority.                                                                 *)
Clone(a, r, s, l, o) ==
    LET at == IF l = None THEN objects[s].loc ELSE l IN
    /\ ~AtQuota(a)
    /\ s \in Things
    /\ at \in Live \cup {None}
    /\ Create(r, at, objects[s].arch, IF o = None THEN a ELSE o, objects[s].own)

(* The exit has no owner.  Where it leads is not kept: it has to be live, as  *)
(* the source is.                                                             *)
CreateExit(a, r, s) ==
    /\ ~AtQuota(a)
    /\ MayModify(a, s)
    /\ s \in Live
    /\ Create(r, s, None, None, None)

(* Every instance is detached before the archetype goes; what the object      *)
(* contains stays where it was.                                               *)
AfterDestroy(t) ==
    [r \in Refs |-> IF r = t THEN Gone
                    ELSE IF r \in Instances(t) THEN Detached(r) ELSE objects[r]]

(* Scripts ask for no cascade, the authoring interfaces may. *)
Destroy(a, t, cascade) ==
    /\ MayModify(a, t)
    /\ t \in Things
    /\ Instances(t) = {} \/ cascade
    /\ objects' = AfterDestroy(t)
    /\ UNCHANGED looped

Detach(a, t) ==
    /\ MayModify(a, t)
    /\ t \in Live
    /\ objects' = [objects EXCEPT ![t] = Detached(t)]
    /\ UNCHANGED looped

SetArchetype(a, t, ar) ==
    /\ MayModify(a, t)
    /\ t \in Live
    /\ ar \in Live \cup {None}
    /\ ar # None => ~WouldCycle(t, ar)
    /\ objects' = [objects EXCEPT ![t].arch = ar]
    /\ UNCHANGED looped

(* Mutant: nobody asks who owns the object so far. *)
SetOwner_Taken(a, t, o) ==
    /\ t \in Live
    /\ o \in Live
    /\ objects' = [objects EXCEPT ![t].owner = o]
    /\ UNCHANGED looped

SetOwner(a, t, o) ==
    /\ MayModify(a, t)
    /\ t \in Live
    /\ o \in Live
    /\ objects' = [objects EXCEPT ![t].owner = o]
    /\ UNCHANGED looped

(* What a batch under the authority `a` may do next.  Only things are asked   *)
(* to delegate, and only to things; only players own; a clone is made where   *)
(* its source is, or with a player.                                           *)
BatchStep(a) ==
    \/ \E t \in Things, v \in Traits \cup {None} : SetTrait(a, t, v)
    \/ \E t \in Live \cap Movable, d \in Live : Move(t, d)
    \/ \E r \in Refs \ Live, l \in Live \cup {None}, o \in Authorities, ar \in Things \cup {None} :
          Spawn(a, r, l, o, ar)
    \/ \E r \in Refs \ Live, s \in Things, l \in Authorities, o \in Authorities :
          Clone(a, r, s, l, o)
    \/ \E r \in Refs \ Live, s \in Things : CreateExit(a, r, s)
    \/ \E t \in Things, cascade \in BOOLEAN : Destroy(a, t, cascade)
    \/ \E t \in Things : Detach(a, t)
    \/ \E t \in Things, ar \in Things \cup {None} : SetArchetype(a, t, ar)
    \/ \E t \in Things, o \in Players : SetOwner(a, t, o)

Next == \E a \in Authorities : BatchStep(a) /\ by' = a

Spec == Init /\ [][Next]_vars

-----------------------------------------------------------------------------
TypeOK ==
    /\ objects \in [Refs -> Object \cup {Gone}]
    /\ by \in Authorities
    /\ looped \subseteq Refs

(* No object is inside itself, however many moves it took: from any object    *)
(* the locations lead to the top or to something that is gone, but where they *)
(* lead through an object that was made, under the dbref of a destroyed one,  *)
(* inside what that one had left behind, and that is still there.  Stated as: *)
(* no set of other objects keeps all its members inside its members           *)
(* (Intent::Move, Intent::Spawn).                                             *)
ContainmentAcyclic ==
    \A S \in SUBSET (Live \ looped) : S # {} => \E r \in S : objects[r].loc \notin S

(* No object is its own archetype's instance, up to the depth that the walks  *)
(* cover (world/mod.rs, would_cycle_archetype).                               *)
ArchetypesAcyclic ==
    \A S \in SUBSET Live : S # {} /\ Cardinality(S) <= MaxArchetypeDepth =>
        \E r \in S : objects[r].arch \notin S

(* Neither by where things are nor by what they delegate to is there a        *)
(* circle, though each change is checked by one bounded walk at its time; the *)
(* one way to a circle of containment is a dbref used again (`looped`).       *)
NoCircles == ContainmentAcyclic /\ ArchetypesAcyclic

(* "An orphaned archetype_ref is a three-sessions-later bug": every archetype *)
(* that is delegated to exists (Intent::Destroy, Intent::SetArchetype).       *)
NoOrphan == \A r \in Live : objects[r].arch \in Live \cup {None}

(* Destroying an object changes nothing of what any other object does, those  *)
(* that delegate to it included: "never delete and orphan ... so none of them *)
(* lose behavior" (Intent::Destroy with cascade, detach_object).  It takes    *)
(* chains that the walks see whole: what is flattened may come within reach   *)
(* of a walk that ended before it.                                            *)
SeenWhole(r) == ArchetypeOf(ArchetypeWalk(r)[MaxArchetypeDepth - 1]) = None
CascadeKeepsBehaviour ==
    [][Live' \subseteq Live /\ Live' # Live =>
         \A r \in Live' : SeenWhole(r) => Resolved(r)' = Resolved(r)]_vars

(* A builder's batch leaves alone what he does not own: it does not destroy   *)
(* it, take it, redefine it or change what it delegates to, except that an    *)
(* instance of an archetype he destroys keeps by itself what it inherited     *)
(* (may_modify).                                                              *)
OthersUntouched ==
    [][by' # None =>
         \A r \in Live : objects[r].owner # by' =>
            /\ r \in Live'
            /\ objects'[r].owner = objects[r].owner
            /\ \/ objects'[r].own = objects[r].own /\ objects'[r].arch = objects[r].arch
               \/ objects[r].arch \notin Live' /\ objects'[r] = Detached(r)]_vars

(* OWNER_OBJECT_QUOTA: a builder's own batch never takes him beyond his       *)
(* quota, whatever others gave him or made in his name (at_object_quota).     *)
OwnQuota ==
    [][by' # None /\ ~(OwnedBy(by)' \subseteq OwnedBy(by')) =>
         Cardinality(OwnedBy(by)') <= OwnerQuota]_vars
=============================================================================
