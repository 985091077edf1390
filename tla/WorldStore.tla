----------------------------- MODULE WorldStore -----------------------------
(***************************************************************************)
(* The in-memory world (src/src/world/mod.rs) and its checkpoint in SQLite *)
(* (src/src/db.rs).  One action per method of World that changes state,    *)
(* one per outcome of a save, and the restart that reloads the checkpoint. *)
(* The engine task is the only writer, so methods do not interleave inside *)
(* one another; a crash may fall between any two of them.                  *)
(***************************************************************************)
EXTENDS Naturals, FiniteSets

CONSTANTS
    MaxRef,     \* bound on the dbrefs handed out
    Data,       \* what a row holds beside its location
    Legacy,     \* rows of the legacy `scripts` table, migrated at every load
    LegacyData, \* the data of an object migrated from a legacy row
    SavesMayFail, \* whether save_world_delta may return an error
    Absent,     \* no object, no row
    Nowhere     \* location_ref = None

ASSUME ConstantsAssumption ==
    /\ MaxRef \in Nat \ {0}
    /\ IsFiniteSet(Legacy)
    /\ LegacyData \notin Data
    /\ SavesMayFail \in BOOLEAN

Refs == 1..MaxRef
ASSUME SentinelsAssumption == Nowhere \notin Refs

Location == Refs \cup {Nowhere}
Object == [loc : Location, data : Data \cup {LegacyData}]
ASSUME AbsentAssumption == Absent \notin Object

VARIABLES
    objects,    \* World::objects
    nextId,     \* World::next_id
    dirty,      \* World::dirty: "upsert" (true), "delete" (false), "clean" (no entry)
    children,   \* World::children, location -> refs listed there
    rows,       \* table `objects` (and `tags`)
    savedNextId,\* meta row `next_id`
    lost,       \* history: refs whose last drained change did not reach `rows`
    bypassed,   \* history: refs whose index entry no method has kept in step
    chosen      \* history: refs a script picked itself, by spawn's `ref` option

vars == <<objects, nextId, dirty, children, rows, savedNextId, lost, bypassed, chosen>>
memory == <<objects, nextId, dirty, children>>
disk == <<rows, savedNextId>>

Live == {r \in Refs : objects[r] # Absent}
LocOf(r) == IF objects[r] = Absent THEN Nowhere ELSE objects[r].loc
Known == {r \in Refs : r <= nextId \/ r \in chosen}
Pending == {r \in Refs : dirty[r] # "clean"}

(* index_remove followed by index_insert, for one ref *)
Reindex(r, old, new) ==
    [l \in Refs |-> (children[l] \ (IF l = old THEN {r} ELSE {}))
                      \cup (IF l = new THEN {r} ELSE {})]

(* rebuild_children_index: the buckets the objects of `objs` call for *)
IndexOf(objs) ==
    [l \in Refs |-> {r \in Refs : objs[r] # Absent /\ objs[r].loc = l}]

-----------------------------------------------------------------------------
Init ==
    /\ objects = [r \in Refs |-> Absent]
    /\ nextId = 0
    /\ dirty = [r \in Refs |-> "clean"]
    /\ children = [l \in Refs |-> {}]
    /\ rows = [r \in Refs |-> Absent]
    /\ savedNextId = 0
    /\ lost = {}
    /\ bypassed = {}
    /\ chosen = {}

(* add_object inserts: it neither asks whether r is taken nor clears the      *)
(* bucket of the object it replaces.                                          *)
AddAt(r, l, d) ==
    /\ objects' = [objects EXCEPT ![r] = [loc |-> l, data |-> d]]
    /\ dirty' = [dirty EXCEPT ![r] = "upsert"]
    /\ children' = Reindex(r, Nowhere, l)
    /\ bypassed' = IF LocOf(r) \in {Nowhere, l} THEN bypassed ELSE bypassed \cup {r}
    /\ UNCHANGED <<disk, lost>>

(* next_dbref and add_object.  MaxRef bounds the counter. *)
AddObject(l, d) ==
    /\ nextId < MaxRef
    /\ nextId' = nextId + 1
    /\ AddAt(nextId + 1, l, d)
    /\ UNCHANGED chosen

(* Intent::Spawn under a ref the script names: refused when the ref is live,  *)
(* otherwise added as it stands.  The counter hears nothing of it.            *)
SpawnAs(r, l, d) ==
    /\ r \notin Live
    /\ AddAt(r, l, d)
    /\ chosen' = chosen \cup {r}
    /\ UNCHANGED nextId

(* remove_object.  The removal is recorded whether or not the ref resolves;   *)
(* the objects located in r are left where they are.                          *)
RemoveObject(r) ==
    /\ dirty' = [dirty EXCEPT ![r] = "delete"]
    /\ objects' = [objects EXCEPT ![r] = Absent]
    /\ children' = Reindex(r, LocOf(r), Nowhere)
    /\ UNCHANGED <<nextId, disk, lost, bypassed, chosen>>

(* get_mut and the field assignment its caller makes *)
GetMut(r, d) ==
    /\ r \in Live
    /\ objects' = [objects EXCEPT ![r].data = d]
    /\ dirty' = [dirty EXCEPT ![r] = "upsert"]
    /\ UNCHANGED <<nextId, children, disk, lost, bypassed, chosen>>

(* Mutant: relocate does not record the move. *)
RelocateDirty_Forgotten(r) == dirty

RelocateIndex(r, l) == Reindex(r, LocOf(r), l)
RelocateDirty(r) == [dirty EXCEPT ![r] = "upsert"]
RelocateObjects(r, l) ==
    IF r \in Live THEN [objects EXCEPT ![r].loc = l] ELSE objects

(* relocate.  A hook that ran earlier in the same command may have removed r: *)
(* the change is then recorded, and indexed, for an object that is gone.      *)
Relocate(r, l) ==
    /\ LocOf(r) # l
    /\ dirty' = RelocateDirty(r)
    /\ children' = RelocateIndex(r, l)
    /\ objects' = RelocateObjects(r, l)
    /\ bypassed' = IF r \in Live THEN bypassed ELSE bypassed \cup {r}
    /\ UNCHANGED <<nextId, disk, lost, chosen>>

(* load_game_dir on an object it already knows: `location_ref` is assigned    *)
(* through get_mut, and the index is not told.                                *)
LoaderAssign(r, l) ==
    /\ r \in Live
    /\ objects' = [objects EXCEPT ![r].loc = l]
    /\ dirty' = [dirty EXCEPT ![r] = "upsert"]
    /\ bypassed' = IF l = LocOf(r) THEN bypassed ELSE bypassed \cup {r}
    /\ UNCHANGED <<nextId, children, disk, lost, chosen>>

(* Mutant: the rebuild is forgotten. *)
ImportAssign_NoRebuild(r, l) ==
    /\ r \in Live
    /\ objects' = [objects EXCEPT ![r].loc = l]
    /\ dirty' = [dirty EXCEPT ![r] = "upsert"]
    /\ bypassed' = {}
    /\ UNCHANGED <<nextId, children, disk, lost, chosen>>

(* import_bundle on an object it already knows: the same assignment, followed *)
(* by rebuild_children_index when every area applied.                         *)
ImportAssign(r, l) ==
    /\ r \in Live
    /\ objects' = [objects EXCEPT ![r].loc = l]
    /\ dirty' = [dirty EXCEPT ![r] = "upsert"]
    /\ children' = IndexOf(objects')
    /\ bypassed' = {}
    /\ UNCHANGED <<nextId, disk, lost, chosen>>

(* Mutant: the counter is not written. *)
SavedCounter_Stale == savedNextId

(* What the transaction leaves in the row of r, and in the meta row. *)
SavedRow(r) ==
    CASE dirty[r] = "delete" -> Absent
      [] dirty[r] = "upsert" /\ r \in Live -> objects[r]
      [] OTHER -> rows[r]
SavedCounter == nextId

(* do_save when save_world_delta commits.  With an empty change set nothing,  *)
(* not even next_id, is written; an upsert whose object is gone is skipped.   *)
SaveWorld ==
    /\ Pending # {}
    /\ rows' = [r \in Refs |-> SavedRow(r)]
    /\ savedNextId' = SavedCounter
    /\ dirty' = [r \in Refs |-> "clean"]
    /\ lost' = (lost \ Pending) \cup {r \in Refs \ Live : dirty[r] = "upsert"}
    /\ UNCHANGED <<objects, nextId, children, bypassed, chosen>>

(* do_save when the transaction fails: the change set was drained before it,  *)
(* the error is logged and nothing is put back.                               *)
SaveWorldFails ==
    /\ SavesMayFail
    /\ Pending # {}
    /\ dirty' = [r \in Refs |-> "clean"]
    /\ lost' = lost \cup Pending
    /\ UNCHANGED <<objects, nextId, children, disk, bypassed, chosen>>

MigratedObject == [loc |-> Nowhere, data |-> LegacyData]

(* A crash, or the end of the process after its last save, and the next boot: *)
(* load_world adds every row with add_object, then migrates the legacy rows   *)
(* into objects under the next dbrefs, over a loaded object if a script chose *)
(* that ref.  A database without objects is not loaded at all.                *)
Restart ==
    LET hasWorldData == \E r \in Refs : rows[r] # Absent
        loadedId == IF hasWorldData THEN savedNextId ELSE 0
        loadedLast == loadedId + (IF hasWorldData THEN Cardinality(Legacy) ELSE 0)
        migrated == (loadedId + 1)..loadedLast
    IN
    /\ loadedLast <= MaxRef
    /\ nextId' = loadedLast
    /\ objects' = [r \in Refs |-> IF r \in migrated THEN MigratedObject ELSE rows[r]]
    /\ dirty' = [r \in Refs |-> IF objects'[r] = Absent THEN "clean" ELSE "upsert"]
    /\ children' = IndexOf(rows)
    /\ lost' = {}
    /\ bypassed' = {r \in migrated : rows[r] # Absent /\ rows[r].loc # Nowhere}
    /\ UNCHANGED <<disk, chosen>>

(* No caller moves an object into itself. *)
Next ==
    \/ \E l \in Live \cup {Nowhere}, d \in Data : AddObject(l, d)
    \/ \E r \in Refs, l \in Live \cup {Nowhere}, d \in Data : SpawnAs(r, l, d)
    \/ \E r \in Refs : RemoveObject(r)
    \/ \E r \in Refs, d \in Data : GetMut(r, d)
    \/ \E r \in Known : \E l \in Known \ {r} : Relocate(r, l)
    \/ \E r \in Live : \E l \in Live \ {r} : LoaderAssign(r, l)
    \/ \E r \in Live : \E l \in Live \ {r} : ImportAssign(r, l)
    \/ SaveWorld
    \/ SaveWorldFails
    \/ Restart

Spec == Init /\ [][Next]_vars

-----------------------------------------------------------------------------
TypeOK ==
    /\ objects \in [Refs -> Object \cup {Absent}]
    /\ nextId \in 0..MaxRef
    /\ dirty \in [Refs -> {"clean", "upsert", "delete"}]
    /\ children \in [Refs -> SUBSET Refs]
    /\ rows \in [Refs -> Object \cup {Absent}]
    /\ savedNextId \in 0..MaxRef
    /\ lost \subseteq Refs
    /\ bypassed \subseteq Refs
    /\ chosen \subseteq Refs

(* The reverse index and the objects tell the same story: r is listed under l *)
(* exactly when it is there.  Every "what is in this room" query reads the    *)
(* index, every "where am I" reads the object (world/mod.rs, children).  Left *)
(* out are the refs in `bypassed`: moved after their removal, reassigned by   *)
(* the loader, or taken over while live (add_object on a ref a script chose), *)
(* until a rebuild or a restart.                                              *)
IndexAgrees ==
    \A r \in Refs \ bypassed, l \in Refs :
        r \in children[l] <=> (r \in Live /\ objects[r].loc = l)

(* What is not pending is on disk: an object the next incremental save will   *)
(* not touch already has, row for row, its current state (db.rs,              *)
(* save_world_delta), unless its last change was lost by a failed save or by  *)
(* relocating it after its removal.                                           *)
CleanIsSaved ==
    \A r \in Refs \ lost : dirty[r] = "clean" => rows[r] = objects[r]

(* A save never deletes the row of an object that exists (world/mod.rs,       *)
(* remove_object and add_object share one entry per ref).                     *)
NoLiveRowDeleted == \A r \in Live : dirty[r] # "delete"

(* What lies ahead of the counter is there because a script chose the ref,    *)
(* and nothing else ever is, in memory or on disk, also after a crash rolled  *)
(* the counter back: no creation lands on an object, and no row of a dead     *)
(* object waits to be taken for a new one, but for chosen refs (db.rs,        *)
(* next_id is written in the transaction that writes the rows).               *)
NextRefFree ==
    \A r \in Refs \ chosen :
        /\ r > nextId => r \notin Live /\ rows[r] = Absent
        /\ r > savedNextId => rows[r] = Absent

-----------------------------------------------------------------------------
(* The incremental save implements the plain checkpoint of the design notes   *)
(* (docs/adr/0003): except for `lost`, a save leaves on disk the whole world, *)
(* and a restart brings back what was saved, but that a legacy script may     *)
(* take the place of an object under a chosen ref.                            *)
Checkpoint == INSTANCE CheckpointStore
                WITH live <- objects, saved <- rows, skipped <- lost,
                     claimed <- chosen, Additions <- {MigratedObject}
ImplementsCheckpoint == Checkpoint!Spec
=============================================================================
