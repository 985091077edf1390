---------------------------- MODULE Objects_proofs ----------------------------
(***************************************************************************)
(* The objects, where they are kept and who may change them.               *)
(*                                                                         *)
(* WorldStore: its invariants, and that it implements CheckpointStore, for *)
(* every bound on the dbrefs, every set of data and every number of legacy *)
(* rows.  The safety invariants need one another: CleanIsSaved survives a  *)
(* save because NoLiveRowDeleted holds, and a restart brings every row     *)
(* back because NextRefFree keeps the legacy scripts off all refs but the  *)
(* chosen ones.                                                            *)
(*                                                                         *)
(* Authority: rights are never lost, an administrator remains, and what is *)
(* locked or global stays as it is, for any number of accounts, objects,   *)
(* tokens, editors and changes.                                            *)
(***************************************************************************)
EXTENDS WorldStore, Authority, FiniteSetTheorems, TLAPS


(* The inductive invariant. *)
Inv ==
    /\ TypeOK
    /\ IndexAgrees
    /\ CleanIsSaved
    /\ NoLiveRowDeleted
    /\ NextRefFree

(* An object record is never the marker of a missing one. *)
LEMMA ObjectIsNotAbsent == \A o \in Object : o # Absent
  BY AbsentAssumption

(* A removed entry of an index bucket, an inserted one and all the others. *)
LEMMA ReindexMembership ==
  ASSUME NEW r \in Refs, NEW old, NEW new, NEW l \in Refs, NEW x \in Refs
  PROVE  x \in Reindex(r, old, new)[l] <=>
           IF x = r THEN l = new \/ (l # old /\ x \in children[l]) ELSE x \in children[l]
  BY DEF Reindex

LEMMA ReindexType ==
  ASSUME TypeOK, NEW r \in Refs, NEW old, NEW new
  PROVE  Reindex(r, old, new) \in [Refs -> SUBSET Refs]
  BY DEF Reindex, TypeOK

LEMMA LegacyCount == Cardinality(Legacy) \in Nat
  BY ConstantsAssumption, FS_CardinalityType

-----------------------------------------------------------------------------
LEMMA InitInv == Init => Inv
  BY ConstantsAssumption
  DEF Init, Inv, TypeOK, IndexAgrees, CleanIsSaved, NoLiveRowDeleted, NextRefFree,
      Live, Refs, Location

(* An object added under r, whatever r named before. *)
LEMMA AddAtInv ==
  ASSUME Inv, NEW r \in Refs, NEW l \in Live \cup {Nowhere}, NEW d \in Data,
         AddAt(r, l, d), nextId' \in 0..MaxRef, nextId <= nextId',
         chosen \subseteq chosen', chosen' \subseteq Refs,
         r <= nextId' \/ r \in chosen',
         r <= savedNextId \/ rows[r] = Absent \/ r \in chosen'
  PROVE  Inv'
  <1> DEFINE o == [loc |-> l, data |-> d]
  <1>1. o \in Object /\ o # Absent /\ o.loc = l
    BY ObjectIsNotAbsent DEF Object, Location, Live
  <1>2. /\ objects' = [objects EXCEPT ![r] = o]
        /\ dirty' = [dirty EXCEPT ![r] = "upsert"]
        /\ children' = Reindex(r, Nowhere, l)
        /\ bypassed' = IF LocOf(r) \in {Nowhere, l} THEN bypassed ELSE bypassed \cup {r}
        /\ UNCHANGED <<rows, savedNextId, lost>>
    BY DEF AddAt, disk
  <1> HIDE DEF o
  <1>3. TypeOK'
    BY <1>1, <1>2, ReindexType DEF Inv, TypeOK
  <1>4. IndexAgrees'
    <2> SUFFICES ASSUME NEW x \in Refs \ bypassed', NEW k \in Refs
                 PROVE  x \in children'[k] <=> (objects'[x] # Absent /\ objects'[x].loc = k)
      BY DEF IndexAgrees, Live
    <2>1. k # Nowhere /\ x \notin bypassed
      BY <1>2, SentinelsAssumption
    <2>2. x \in children[k] <=> objects[x] # Absent /\ objects[x].loc = k
      BY <2>1 DEF Inv, IndexAgrees, Live
    <2>3. CASE x = r
      <3>1. LocOf(r) \in {Nowhere, l}
        BY <2>3, <1>2
      <3>2. x \in children'[k] <=> k = l
        BY <2>1, <2>2, <2>3, <3>1, <1>2, ReindexMembership DEF LocOf
      <3>3. objects'[x] = o
        BY <2>3, <1>2 DEF Inv, TypeOK
      <3> QED BY <3>2, <3>3, <1>1
    <2>4. CASE x # r
      <3>1. objects'[x] = objects[x]
        BY <2>4, <1>2 DEF Inv, TypeOK
      <3>2. x \in children'[k] <=> x \in children[k]
        BY <2>4, <1>2, ReindexMembership
      <3> QED BY <2>2, <3>1, <3>2
    <2> QED BY <2>3, <2>4
  <1>5. CleanIsSaved' /\ NoLiveRowDeleted'
    BY <1>1, <1>2 DEF Inv, TypeOK, CleanIsSaved, NoLiveRowDeleted, Live
  <1>6. NextRefFree'
    <2> SUFFICES ASSUME NEW x \in Refs \ chosen'
                 PROVE  /\ x > nextId' => objects'[x] = Absent /\ rows[x] = Absent
                        /\ x > savedNextId => rows[x] = Absent
      BY <1>2 DEF NextRefFree, Live
    <2>1. /\ x > nextId => objects[x] = Absent /\ rows[x] = Absent
          /\ x > savedNextId => rows[x] = Absent
      BY DEF Inv, NextRefFree, Live
    <2>2. x > nextId' => x > nextId /\ x # r
      BY ConstantsAssumption DEF Inv, TypeOK, Refs
    <2> QED BY <2>1, <2>2, <1>2 DEF Inv, TypeOK
  <1> QED BY <1>3, <1>4, <1>5, <1>6 DEF Inv

LEMMA AddObjectInv ==
  ASSUME Inv, NEW l \in Live \cup {Nowhere}, NEW d \in Data, AddObject(l, d)
  PROVE  Inv'
  <1>1. /\ nextId + 1 \in Refs
        /\ nextId' = nextId + 1 /\ nextId' \in 0..MaxRef /\ nextId <= nextId'
        /\ chosen' = chosen /\ AddAt(nextId + 1, l, d)
    BY ConstantsAssumption DEF AddObject, Inv, TypeOK, Refs
  <1>2. rows[nextId + 1] = Absent \/ nextId + 1 \in chosen
    BY <1>1 DEF Inv, NextRefFree, TypeOK
  <1> QED BY <1>1, <1>2, AddAtInv DEF Inv, TypeOK

LEMMA SpawnAsInv ==
  ASSUME Inv, NEW r \in Refs, NEW l \in Live \cup {Nowhere}, NEW d \in Data, SpawnAs(r, l, d)
  PROVE  Inv'
  <1>1. /\ nextId' = nextId /\ nextId' \in 0..MaxRef /\ nextId <= nextId'
        /\ chosen' = chosen \cup {r} /\ AddAt(r, l, d) /\ chosen' \subseteq Refs
    BY DEF SpawnAs, Inv, TypeOK
  <1> QED BY <1>1, AddAtInv

LEMMA RemoveObjectInv ==
  ASSUME Inv, NEW r \in Refs, RemoveObject(r)
  PROVE  Inv'
  <1>1. /\ objects' = [objects EXCEPT ![r] = Absent]
        /\ dirty' = [dirty EXCEPT ![r] = "delete"]
        /\ children' = Reindex(r, LocOf(r), Nowhere)
        /\ UNCHANGED <<nextId, rows, savedNextId, lost, bypassed, chosen>>
    BY DEF RemoveObject, disk
  <1>2. TypeOK'
    BY <1>1, ReindexType DEF Inv, TypeOK
  <1>3. IndexAgrees'
    <2> SUFFICES ASSUME NEW x \in Refs \ bypassed, NEW k \in Refs
                 PROVE  x \in children'[k] <=> (objects'[x] # Absent /\ objects'[x].loc = k)
      BY <1>1 DEF IndexAgrees, Live
    <2>1. k # Nowhere
      BY SentinelsAssumption
    <2>2. CASE x = r
      BY <2>1, <2>2, <1>1, ReindexMembership DEF Inv, TypeOK, IndexAgrees, Live, LocOf
    <2>3. CASE x # r
      BY <2>3, <1>1, ReindexMembership DEF Inv, TypeOK, IndexAgrees, Live
    <2> QED BY <2>2, <2>3
  <1>4. CleanIsSaved' /\ NoLiveRowDeleted' /\ NextRefFree'
    BY <1>1 DEF Inv, TypeOK, CleanIsSaved, NoLiveRowDeleted, NextRefFree, Live
  <1> QED BY <1>2, <1>3, <1>4 DEF Inv

LEMMA GetMutInv ==
  ASSUME Inv, NEW r \in Refs, NEW d \in Data, GetMut(r, d)
  PROVE  Inv'
  <1> DEFINE o == [objects[r] EXCEPT !.data = d]
  <1>1. /\ r \in Live
        /\ objects' = [objects EXCEPT ![r] = o]
        /\ dirty' = [dirty EXCEPT ![r] = "upsert"]
        /\ UNCHANGED <<nextId, children, rows, savedNextId, lost, bypassed, chosen>>
    BY DEF GetMut, disk
  <1>2. o \in Object /\ o # Absent /\ o.loc = objects[r].loc
    BY <1>1, ObjectIsNotAbsent DEF Inv, TypeOK, Object, Live
  <1>3. TypeOK'
    BY <1>1, <1>2 DEF Inv, TypeOK
  <1>4. IndexAgrees'
    BY <1>1, <1>2 DEF Inv, TypeOK, IndexAgrees, Live
  <1>5. CleanIsSaved' /\ NoLiveRowDeleted' /\ NextRefFree'
    BY <1>1, <1>2 DEF Inv, TypeOK, CleanIsSaved, NoLiveRowDeleted, NextRefFree, Live
  <1> QED BY <1>3, <1>4, <1>5 DEF Inv

LEMMA RelocateInv ==
  ASSUME Inv, NEW r \in Known, NEW l \in Known \ {r}, Relocate(r, l)
  PROVE  Inv'
  <1>1. /\ dirty' = [dirty EXCEPT ![r] = "upsert"]
        /\ children' = Reindex(r, LocOf(r), l)
        /\ objects' = IF r \in Live THEN [objects EXCEPT ![r].loc = l] ELSE objects
        /\ bypassed' = IF r \in Live THEN bypassed ELSE bypassed \cup {r}
        /\ UNCHANGED <<nextId, rows, savedNextId, lost, chosen>>
    BY DEF Relocate, disk, RelocateDirty, RelocateIndex, RelocateObjects
  <1>2. LocOf(r) # l /\ l \in Refs /\ r \in Refs
    BY DEF Relocate, Known
  <1>3. r \in Live => /\ [objects[r] EXCEPT !.loc = l] \in Object
                      /\ [objects[r] EXCEPT !.loc = l].loc = l
                      /\ objects' = [objects EXCEPT ![r] = [objects[r] EXCEPT !.loc = l]]
    BY <1>1, <1>2 DEF Inv, TypeOK, Object, Location, Live
  <1>4. TypeOK'
    BY <1>1, <1>2, <1>3, ReindexType DEF Inv, TypeOK
  <1>5. IndexAgrees'
    <2> SUFFICES ASSUME NEW x \in Refs \ bypassed', NEW k \in Refs
                 PROVE  x \in children'[k] <=> (objects'[x] # Absent /\ objects'[x].loc = k)
      BY DEF IndexAgrees, Live
    <2>1. CASE x = r
      <3>1. r \in Live
        BY <2>1, <1>1
      <3>2. objects'[r] # Absent /\ objects'[r].loc = l
        BY <3>1, <1>2, <1>3, ObjectIsNotAbsent DEF Inv, TypeOK
      <3>3. x \in children[k] <=> LocOf(r) = k
        BY <2>1, <3>1, <1>1 DEF Inv, IndexAgrees, LocOf, Live
      <3> QED BY <2>1, <3>1, <3>2, <3>3, <1>1, <1>2, ReindexMembership
    <2>2. CASE x # r
      BY <2>2, <1>1, <1>2, <1>3, ReindexMembership DEF Inv, TypeOK, IndexAgrees, Live
    <2> QED BY <2>1, <2>2
  <1>6. CleanIsSaved' /\ NoLiveRowDeleted' /\ NextRefFree'
    BY <1>1, <1>3, ObjectIsNotAbsent
    DEF Inv, TypeOK, CleanIsSaved, NoLiveRowDeleted, NextRefFree, Live
  <1> QED BY <1>4, <1>5, <1>6 DEF Inv

(* The assignment that the file loader and the import make, whatever becomes  *)
(* of the index.                                                              *)
LEMMA AssignLocation ==
  ASSUME Inv, NEW r \in Live, NEW l \in Live,
         objects' = [objects EXCEPT ![r].loc = l],
         dirty' = [dirty EXCEPT ![r] = "upsert"],
         UNCHANGED <<nextId, rows, savedNextId, lost, chosen>>
  PROVE  /\ objects' \in [Refs -> Object \cup {Absent}]
         /\ dirty' \in [Refs -> {"clean", "upsert", "delete"}]
         /\ \A x \in Refs \ {r} : objects'[x] = objects[x]
         /\ objects'[r] # Absent /\ objects'[r].loc = l
         /\ CleanIsSaved' /\ NoLiveRowDeleted' /\ NextRefFree'
  <1> DEFINE o == [objects[r] EXCEPT !.loc = l]
  <1>1. r \in Refs /\ l \in Refs /\ objects' = [objects EXCEPT ![r] = o]
    BY DEF Live
  <1>2. o \in Object /\ o # Absent /\ o.loc = l
    BY <1>1, ObjectIsNotAbsent DEF Inv, TypeOK, Object, Location, Live
  <1> QED
    BY <1>1, <1>2 DEF Inv, TypeOK, CleanIsSaved, NoLiveRowDeleted, NextRefFree, Live

LEMMA LoaderAssignInv ==
  ASSUME Inv, NEW r \in Live, NEW l \in Live \ {r}, LoaderAssign(r, l)
  PROVE  Inv'
  <1>1. /\ objects' = [objects EXCEPT ![r].loc = l]
        /\ dirty' = [dirty EXCEPT ![r] = "upsert"]
        /\ bypassed' = IF l = LocOf(r) THEN bypassed ELSE bypassed \cup {r}
        /\ UNCHANGED <<nextId, children, rows, savedNextId, lost, chosen>>
    BY DEF LoaderAssign, disk
  <1>2. /\ objects' \in [Refs -> Object \cup {Absent}]
        /\ dirty' \in [Refs -> {"clean", "upsert", "delete"}]
        /\ \A x \in Refs \ {r} : objects'[x] = objects[x]
        /\ objects'[r] # Absent /\ objects'[r].loc = l
        /\ CleanIsSaved' /\ NoLiveRowDeleted' /\ NextRefFree'
    BY <1>1, AssignLocation
  <1>3. TypeOK'
    BY <1>1, <1>2 DEF Inv, TypeOK, Live
  <1>4. IndexAgrees'
    BY <1>1, <1>2 DEF Inv, TypeOK, IndexAgrees, Live, LocOf
  <1> QED BY <1>2, <1>3, <1>4 DEF Inv

LEMMA ImportAssignInv ==
  ASSUME Inv, NEW r \in Live, NEW l \in Live \ {r}, ImportAssign(r, l)
  PROVE  Inv'
  <1>1. /\ objects' = [objects EXCEPT ![r].loc = l]
        /\ dirty' = [dirty EXCEPT ![r] = "upsert"]
        /\ children' = IndexOf(objects')
        /\ bypassed' = {}
        /\ UNCHANGED <<nextId, rows, savedNextId, lost, chosen>>
    BY DEF ImportAssign, disk
  <1>2. /\ objects' \in [Refs -> Object \cup {Absent}]
        /\ dirty' \in [Refs -> {"clean", "upsert", "delete"}]
        /\ CleanIsSaved' /\ NoLiveRowDeleted' /\ NextRefFree'
    BY <1>1, AssignLocation
  <1>3. TypeOK' /\ IndexAgrees'
    BY <1>1, <1>2 DEF Inv, TypeOK, IndexAgrees, IndexOf, Live
  <1> QED BY <1>2, <1>3 DEF Inv

LEMMA SaveWorldInv ==
  ASSUME Inv, SaveWorld
  PROVE  Inv'
  <1>1. /\ rows' = [r \in Refs |-> SavedRow(r)]
        /\ savedNextId' = nextId
        /\ dirty' = [r \in Refs |-> "clean"]
        /\ lost' = (lost \ Pending) \cup {r \in Refs \ Live : dirty[r] = "upsert"}
        /\ UNCHANGED <<objects, nextId, children, bypassed, chosen>>
    BY DEF SaveWorld, SavedCounter
  <1>2. \A r \in Refs : \/ dirty[r] = "delete" /\ rows'[r] = Absent
                        \/ dirty[r] = "upsert" /\ r \in Live /\ rows'[r] = objects[r]
                        \/ dirty[r] = "upsert" /\ r \notin Live /\ rows'[r] = rows[r]
                        \/ dirty[r] = "clean" /\ rows'[r] = rows[r]
    BY <1>1 DEF Inv, TypeOK, SavedRow
  <1>3. TypeOK'
    BY <1>1, <1>2 DEF Inv, TypeOK, Live
  <1>4. CleanIsSaved'
    BY <1>1, <1>2 DEF Inv, CleanIsSaved, NoLiveRowDeleted, Live, Pending
  <1>5. NextRefFree'
    BY <1>1, <1>2 DEF Inv, NextRefFree, Live
  <1>6. IndexAgrees' /\ NoLiveRowDeleted'
    BY <1>1 DEF Inv, IndexAgrees, NoLiveRowDeleted, Live
  <1> QED BY <1>3, <1>4, <1>5, <1>6 DEF Inv

LEMMA SaveWorldFailsInv ==
  ASSUME Inv, SaveWorldFails
  PROVE  Inv'
  BY DEF SaveWorldFails, disk, Inv, TypeOK, IndexAgrees, CleanIsSaved,
         NoLiveRowDeleted, NextRefFree, Live, Pending

LEMMA RestartInv ==
  ASSUME Inv, Restart
  PROVE  Inv'
  <1> DEFINE hasWorldData == \E r \in Refs : rows[r] # Absent
             loadedId == IF hasWorldData THEN savedNextId ELSE 0
             loadedLast == loadedId + (IF hasWorldData THEN Cardinality(Legacy) ELSE 0)
             migrated == (loadedId + 1)..loadedLast
  <1>1. /\ loadedLast <= MaxRef
        /\ nextId' = loadedLast
        /\ objects' = [r \in Refs |-> IF r \in migrated THEN MigratedObject ELSE rows[r]]
        /\ dirty' = [r \in Refs |-> IF objects'[r] = Absent THEN "clean" ELSE "upsert"]
        /\ children' = IndexOf(rows)
        /\ lost' = {}
        /\ bypassed' = {r \in migrated : rows[r] # Absent /\ rows[r].loc # Nowhere}
        /\ UNCHANGED <<rows, savedNextId, chosen>>
    BY DEF Restart, disk
  <1>2. loadedId \in Nat /\ loadedLast \in Nat /\ loadedId <= loadedLast
    BY LegacyCount DEF Inv, TypeOK
  <1>3. MigratedObject \in Object /\ MigratedObject # Absent /\ MigratedObject.loc = Nowhere
    BY ObjectIsNotAbsent DEF Object, Location, MigratedObject
  <1>4. migrated \subseteq Refs
    BY <1>1, <1>2, ConstantsAssumption DEF Refs
  <1>5. TypeOK'
    BY <1>1, <1>2, <1>3, <1>4 DEF Inv, TypeOK, IndexOf
  <1>6. IndexAgrees'
    <2> SUFFICES ASSUME NEW r \in Refs \ bypassed', NEW l \in Refs
                 PROVE  r \in children'[l] <=> (objects'[r] # Absent /\ objects'[r].loc = l)
      BY DEF IndexAgrees, Live
    <2>1. r \in children'[l] <=> rows[r] # Absent /\ rows[r].loc = l
      BY <1>1 DEF IndexOf
    <2>2. l # Nowhere
      BY SentinelsAssumption
    <2>3. CASE r \in migrated
      BY <2>1, <2>2, <2>3, <1>1, <1>3
    <2>4. CASE r \notin migrated
      BY <2>1, <2>4, <1>1
    <2> QED BY <2>3, <2>4
  <1>7. CleanIsSaved' /\ NoLiveRowDeleted'
    BY <1>1, <1>3 DEF CleanIsSaved, NoLiveRowDeleted, Live
  <1>8. NextRefFree'
    <2> SUFFICES ASSUME NEW r \in Refs \ chosen
                 PROVE  /\ r > nextId' => objects'[r] = Absent /\ rows[r] = Absent
                        /\ r > savedNextId => rows[r] = Absent
      BY <1>1 DEF NextRefFree, Live
    <2>1. r > savedNextId => rows[r] = Absent
      BY DEF Inv, NextRefFree
    <2>2. ASSUME r > nextId' PROVE r \notin migrated
      BY <2>2, <1>1, <1>2 DEF Refs
    <2>3. ASSUME r > nextId' PROVE rows[r] = Absent
      BY <2>3, <2>1, <1>1, <1>2 DEF Refs, Inv, TypeOK
    <2> QED BY <2>1, <2>2, <2>3, <1>1
  <1> QED BY <1>5, <1>6, <1>7, <1>8 DEF Inv

-----------------------------------------------------------------------------
LEMMA NextInv == Inv /\ [Next]_vars => Inv'
  <1> SUFFICES ASSUME Inv, [Next]_vars PROVE Inv'
    OBVIOUS
  <1>1. CASE UNCHANGED vars
    BY <1>1 DEF vars, Inv, TypeOK, IndexAgrees, CleanIsSaved, NoLiveRowDeleted,
                NextRefFree, Live
  <1>2. CASE Next
    BY <1>2, AddObjectInv, SpawnAsInv, RemoveObjectInv, GetMutInv, RelocateInv, LoaderAssignInv,
       ImportAssignInv, SaveWorldInv, SaveWorldFailsInv, RestartInv DEF Next
  <1> QED BY <1>1, <1>2

(* The inductive invariant holds in every reachable state. *)
THEOREM Invariance == Spec => []Inv
  BY InitInv, NextInv, PTL DEF Spec

(* Every variable keeps its type. *)
THEOREM TypeCorrect == Spec => []TypeOK
  BY Invariance, PTL DEF Inv

(* The children index (world/mod.rs) agrees with the locations of the objects *)
(* outside the refs whose location was written around it and those of objects *)
(* that replaced a live one under a ref a script had chosen.                  *)
THEOREM IndexCorrect == Spec => []IndexAgrees
  BY Invariance, PTL DEF Inv

(* What the change set does not name is already on disk (db.rs,               *)
(* save_world_delta), and no save deletes an object that exists.              *)
THEOREM IncrementalSaveCorrect == Spec => [](CleanIsSaved /\ NoLiveRowDeleted)
  BY Invariance, PTL DEF Inv

(* A fresh dbref (world/mod.rs, next_dbref) collides with nothing, in memory  *)
(* or on disk, also after a crash, but with what a script put there under a   *)
(* ref of its own choice (softcode/mod.rs, Intent::Spawn).                    *)
THEOREM FreshRefs == Spec => []NextRefFree
  BY Invariance, PTL DEF Inv

-----------------------------------------------------------------------------
(* Each step of the store is a step of the plain checkpoint or none. *)
LEMMA StepRefines ==
  ASSUME Inv, Inv', [Next]_vars
  PROVE  [Checkpoint!Next]_<<objects, rows, lost, chosen>>
  <1>1. CASE UNCHANGED vars
    BY <1>1 DEF vars
  <1>2. ASSUME UNCHANGED <<rows, lost, chosen>> PROVE Checkpoint!Next
    BY <1>2 DEF Checkpoint!Next, Checkpoint!Change
  <1>3. CASE SaveWorld
    <2>1. lost' \in SUBSET Refs /\ UNCHANGED <<objects, chosen>>
      BY <1>3 DEF Inv, TypeOK, SaveWorld
    <2>2. \A r \in lost' \ lost : objects[r] = Absent
      BY <1>3 DEF SaveWorld, Live
    <2>3. \A r \in Refs : rows'[r] = IF r \in lost' THEN rows[r] ELSE objects[r]
      BY <1>3 DEF SaveWorld, SavedRow, Inv, TypeOK, CleanIsSaved, NoLiveRowDeleted,
                  Live, Pending
    <2>4. rows' = Checkpoint!Copied(lost')
      BY <2>3 DEF Inv, TypeOK, Checkpoint!Copied
    <2> QED BY <2>1, <2>2, <2>4 DEF Checkpoint!Next, Checkpoint!TakeCheckpoint
  <1>4. CASE SaveWorldFails
    <2>1. /\ lost' \in SUBSET Refs /\ lost \subseteq lost'
          /\ UNCHANGED <<objects, rows, chosen>>
      BY <1>4 DEF Inv, TypeOK, SaveWorldFails, disk
    <2>2. \A r \in Refs : rows[r] = IF r \in lost' THEN rows[r] ELSE objects[r]
      BY <1>4 DEF SaveWorldFails, Inv, CleanIsSaved, Pending
    <2>3. rows = Checkpoint!Copied(lost')
      BY <2>2 DEF Inv, TypeOK, Checkpoint!Copied
    <2> QED BY <2>1, <2>3 DEF Checkpoint!Next, Checkpoint!CheckpointFails
  <1>5. CASE Restart
    <2>1. lost' = {} /\ UNCHANGED <<rows, chosen>>
      BY <1>5 DEF Restart, disk
    <2>2. \A r \in Refs : \/ objects'[r] = rows[r]
                          \/ /\ objects'[r] \in {MigratedObject}
                             /\ rows[r] = Absent \/ r \in chosen
      <3> SUFFICES ASSUME NEW r \in Refs, objects'[r] # rows[r]
                   PROVE  objects'[r] = MigratedObject /\ (rows[r] = Absent \/ r \in chosen)
        OBVIOUS
      <3>1. /\ objects'[r] = MigratedObject
            /\ rows[r] = Absent \/ r > savedNextId
        BY <1>5, LegacyCount DEF Restart, Inv, TypeOK, Refs
      <3> QED BY <3>1 DEF Inv, NextRefFree
    <2> QED BY <2>1, <2>2 DEF Checkpoint!Next, Checkpoint!Reload
  <1>6. ASSUME NEW l \in Live \cup {Nowhere}, NEW d \in Data, AddObject(l, d)
        PROVE  Checkpoint!Next
    BY <1>2, <1>6 DEF AddObject, AddAt, disk
  <1>7. ASSUME NEW r \in Refs, NEW l \in Live \cup {Nowhere}, NEW d \in Data, SpawnAs(r, l, d)
        PROVE  Checkpoint!Next
    <2>1. /\ UNCHANGED <<rows, lost>> /\ chosen \subseteq chosen'
          /\ \A x \in chosen' \ chosen : objects[x] = Absent
      BY <1>7 DEF SpawnAs, AddAt, disk, Live
    <2> QED BY <2>1 DEF Checkpoint!Next, Checkpoint!Change
  <1>8. ASSUME \/ \E r \in Refs : RemoveObject(r)
               \/ \E r \in Refs, d \in Data : GetMut(r, d)
               \/ \E r \in Known : \E l \in Known \ {r} : Relocate(r, l)
               \/ \E r \in Live : \E l \in Live \ {r} : LoaderAssign(r, l)
               \/ \E r \in Live : \E l \in Live \ {r} : ImportAssign(r, l)
        PROVE  Checkpoint!Next
    BY <1>2, <1>8 DEF RemoveObject, GetMut, Relocate, LoaderAssign, ImportAssign, disk
  <1> QED BY <1>1, <1>3, <1>4, <1>5, <1>6, <1>7, <1>8 DEF Next

(* The incremental save and the reload (db.rs) implement the checkpoint of    *)
(* docs/adr/0003: a save leaves on disk the whole world but for `lost`.       *)
THEOREM Refinement == Spec => ImplementsCheckpoint
  <1>1. Init => Checkpoint!Init
    BY DEF Init, Checkpoint!Init
  <1> QED BY <1>1, StepRefines, Invariance, PTL DEF Spec, ImplementsCheckpoint, Checkpoint!Spec
-----------------------------------------------------------------------------
(* Rights: what the authoring commands, requests and editors leave alone.     *)

LEMMA EditsLeaveRights ==
    ASSUME NEW a \in Accounts, Edits(a) PROVE UNCHANGED rightsVars
<1>1. PICK o \in Existing :
        \/ CmdSet(a, o) \/ CmdLock(a, o) \/ CmdAlias(a, o) \/ CmdProgramLine(a, o) \/ CmdRmprogram(a, o)
        \/ CmdDescribe(a, o) \/ CmdName(a, o) \/ CmdUnlock(a, o) \/ CmdScriptInterval(a, o) \/ CmdDialogueClear(a, o)
        \/ \E t \in Tags : CmdTag(a, o, t) \/ CmdUntag(a, o, t)
        \/ \E p \in Objects \cup {"none"} : CmdArchetype(a, o, p)
        \/ \E c, full \in BOOLEAN : CmdDestroy(a, o, c, full)
        \/ \E b \in Accounts : CmdChown(a, o, b)
        \/ CmdProgram(a, o) \/ CmdDialogueEdit(a, o) \/ CmdReload(a, o)
  BY DEF Edits
<1> USE DEF Command
<1>2. CASE CmdSet(a, o) \/ CmdLock(a, o) \/ CmdAlias(a, o) \/ CmdProgramLine(a, o) \/ CmdRmprogram(a, o)
  BY <1>2 DEF CmdSet, CmdLock, CmdAlias, CmdProgramLine, CmdRmprogram
<1>3. CASE CmdDescribe(a, o) \/ CmdName(a, o) \/ CmdUnlock(a, o) \/ CmdScriptInterval(a, o) \/ CmdDialogueClear(a, o)
  BY <1>3 DEF CmdDescribe, CmdName, CmdUnlock, CmdScriptInterval, CmdDialogueClear
<1>4. CASE \E t \in Tags : CmdTag(a, o, t) \/ CmdUntag(a, o, t)
  BY <1>4 DEF CmdTag, CmdUntag
<1>5. CASE \E p \in Objects \cup {"none"} : CmdArchetype(a, o, p)
  BY <1>5 DEF CmdArchetype
<1>6. CASE \E c, full \in BOOLEAN : CmdDestroy(a, o, c, full)
  BY <1>6 DEF CmdDestroy
<1>7. CASE \E b \in Accounts : CmdChown(a, o, b)
  BY <1>7 DEF CmdChown
<1>8. CASE CmdProgram(a, o) \/ CmdDialogueEdit(a, o)
  BY <1>8 DEF CmdProgram, CmdDialogueEdit, Opens
<1>9. CASE CmdReload(a, o)
  BY <1>9 DEF CmdReload
<1> QED BY <1>1, <1>2, <1>3, <1>4, <1>5, <1>6, <1>7, <1>8, <1>9

LEMMA MakesLeaveRights ==
    ASSUME NEW a \in Accounts, Makes(a) PROVE UNCHANGED rightsVars
BY DEF Makes, CmdDig, CmdOpen, CmdCreate, CreateRoom, CreateObject, CreateExit, CmdClone, CloneObject,
       Command, Request

LEMMA RequestsLeaveRights ==
    ASSUME NEW a \in Accounts, Requests(a) PROVE UNCHANGED rightsVars
BY DEF Requests, WriteBatch, SetLocation, InkSave, DetachObject, AddTag, RemoveTag, SetArchetype,
       DeleteObject, Request

LEMMA EditorsLeaveRights ==
    ASSUME NEW a \in Accounts, Editors(a) PROVE UNCHANGED rightsVars
BY DEF Editors, CmdEval, Opens, ProgramEditorDone, InkEditorDone, EditorDone, EvalEditorDone, EditorAbort

Restarts == \E saving \in BOOLEAN, seed \in Seeds \cup {"nobody"} : ServerRestart(saving, seed)

LEMMA RightsMoves ==
    ASSUME AuthorityNext
    PROVE  \/ UNCHANGED rightsVars
           \/ \E a \in Accounts : Accounting(a)
           \/ Elapse \/ SweepTokens \/ DoSave \/ Restarts
<1>1. ASSUME NEW a \in Accounts, ReloadWorld(a) PROVE UNCHANGED rightsVars
  BY <1>1 DEF ReloadWorld, Command
<1>2. ASSUME NEW o \in Existing, Script(o) PROVE UNCHANGED rightsVars
  BY <1>2 DEF Script
<1> QED BY <1>1, <1>2, EditsLeaveRights, MakesLeaveRights, RequestsLeaveRights, EditorsLeaveRights DEF AuthorityNext, Restarts

-----------------------------------------------------------------------------
(* Both copies of the scopes have an administrator if they have an account:   *)
(* whoever revokes is one and cannot be the one who loses that.               *)
Administered(s) ==
    /\ s \in [Accounts -> (SUBSET Scopes) \cup {Unregistered}]
    /\ (\E a \in Accounts : s[a] # Unregistered) => \E a \in Accounts : "admin" \in s[a]
RightsInv == Administered(scopes) /\ Administered(savedScopes) /\ RightsDurable

LEMMA SeededIsAdministered ==
    ASSUME NEW seed \in Seeds \cup {"nobody"} PROVE Administered(Seeded(seed))
BY AuthorityAssumption DEF Administered, Seeded, Scopes, Unregistered

LEMMA NoAccountsIsAdministered == Administered(NoAccounts)
BY DEF Administered, NoAccounts, Unregistered

LEMMA RightsInit == AuthorityInit => RightsInv
<1> SUFFICES ASSUME AuthorityInit PROVE RightsInv
  OBVIOUS
<1>1. Administered(scopes)
  BY SeededIsAdministered DEF AuthorityInit
<1> QED BY <1>1 DEF AuthorityInit, RightsInv, RightsDurable

(* Whoever changes the scopes saves them.                                     *)
LEMMA SavedScopesKeepRights ==
    ASSUME Administered(scopes'), SaveAccounts, tokens' = savedTokens' PROVE RightsInv'
BY DEF RightsInv, SaveAccounts, RightsDurable, Administered

LEMMA RegisterKeepsRights ==
    ASSUME RightsInv, NEW a \in Accounts, Register(a) PROVE RightsInv'
<1>1. scopes' = [scopes EXCEPT ![a] = FirstScopes] /\ FirstScopes \in SUBSET Scopes /\ ~Exists(a)
  BY DEF Register, FirstScopes
<1>2. scopes' \in [Accounts -> (SUBSET Scopes) \cup {Unregistered}]
  BY <1>1 DEF RightsInv, Administered
<1>3. \E c \in Accounts : "admin" \in scopes'[c]
  <2>1. CASE \E b \in Accounts : Exists(b)
    <3>1. PICK b \in Accounts : "admin" \in scopes[b]
      BY <2>1 DEF RightsInv, Administered, Exists
    <3>2. b # a
      BY <1>1, <3>1 DEF Exists, Unregistered
    <3> QED BY <1>1, <3>1, <3>2 DEF RightsInv, Administered
  <2>2. CASE \A b \in Accounts : ~Exists(b)
    <3>1. scopes'[a] = Scopes
      BY <1>1, <2>2 DEF FirstScopes, RightsInv, Administered
    <3> QED BY <3>1 DEF Scopes
  <2> QED BY <2>1, <2>2
<1>4. Administered(scopes')
  BY <1>2, <1>3 DEF Administered
<1> QED BY <1>4, SavedScopesKeepRights DEF Register, SaveTokens

LEMMA GrantKeepsRights ==
    ASSUME RightsInv, NEW a \in Accounts, NEW b \in Accounts, NEW s \in Scopes, CmdGrant(a, b, s)
    PROVE  RightsInv'
<1>1. scopes' = [scopes EXCEPT ![b] = scopes[b] \cup {s}] /\ scopes[b] # Unregistered
  BY DEF CmdGrant, GrantScope, Exists
<1>2. PICK c \in Accounts : "admin" \in scopes[c]
  BY <1>1 DEF RightsInv, Administered
<1>3. Administered(scopes')
  BY <1>1, <1>2 DEF RightsInv, Administered
<1> QED BY <1>3, SavedScopesKeepRights DEF CmdGrant, Administers, RightsInv, RightsDurable

LEMMA RevokeKeepsRights ==
    ASSUME RightsInv, NEW a \in Accounts, NEW b \in Accounts, NEW s \in Scopes, CmdRevoke(a, b, s)
    PROVE  RightsInv'
<1>1. scopes' = [scopes EXCEPT ![b] = scopes[b] \ {s}] /\ scopes[b] # Unregistered /\ ~(b = a /\ s = "admin")
  BY DEF CmdRevoke, RevokeScope, Exists
<1>2. "admin" \in scopes[a]
  BY DEF CmdRevoke, Administers, HasScope
<1>3. Administered(scopes')
  BY <1>1, <1>2 DEF RightsInv, Administered
<1> QED BY <1>3, SavedScopesKeepRights DEF CmdRevoke, Administers, RightsInv, RightsDurable

LEMMA SameScopesKeepRights ==
    ASSUME RightsInv, UNCHANGED <<scopes, savedScopes, worldSaved>>, tokens' = savedTokens' PROVE RightsInv'
BY DEF RightsInv, Administered, RightsDurable

LEMMA AccountingKeepsRights ==
    ASSUME RightsInv, NEW a \in Accounts, Accounting(a) PROVE RightsInv'
<1>1. CASE Register(a)
  BY <1>1, RegisterKeepsRights
<1>2. CASE EnterWorld(a)
  BY <1>2, SameScopesKeepRights DEF EnterWorld, SaveTokens, Quiet
<1>3. CASE Disconnect(a)
  BY <1>3, SameScopesKeepRights DEF Disconnect, RightsInv, RightsDurable, Quiet
<1>4. CASE CmdTokenCreate(a)
  BY <1>4, SameScopesKeepRights DEF CmdTokenCreate, SaveTokens, Quiet
<1>5. CASE \E t \in Tokens : CmdTokenRevoke(a, t)
  BY <1>5, SameScopesKeepRights DEF CmdTokenRevoke, SaveTokens, Quiet
<1>6. CASE \E b \in Accounts, s \in Scopes : CmdGrant(a, b, s)
  BY <1>6, GrantKeepsRights
<1>7. CASE \E b \in Accounts, s \in Scopes : CmdRevoke(a, b, s)
  BY <1>7, RevokeKeepsRights
<1> QED BY <1>1, <1>2, <1>3, <1>4, <1>5, <1>6, <1>7 DEF Accounting

(* A boot has what was saved, or nobody, or the one the environment names.    *)
LEMMA RestartKeepsRights ==
    ASSUME RightsInv, NEW saving \in BOOLEAN, NEW seed \in Seeds \cup {"nobody"}, ServerRestart(saving, seed)
    PROVE  RightsInv'
<1>1. CASE seed \in Seeds /\ Loaded(worldSaved') = NoAccounts
  <2>1. scopes' = Seeded(seed) /\ SaveAccounts /\ tokens' = savedTokens'
    BY <1>1 DEF ServerRestart, SaveTokens
  <2> QED BY <2>1, SeededIsAdministered, SavedScopesKeepRights
<1>2. CASE ~(seed \in Seeds /\ Loaded(worldSaved') = NoAccounts)
  <2>1. /\ scopes' = Loaded(worldSaved') /\ tokens' = savedTokens
        /\ savedScopes' = savedScopes /\ savedTokens' = savedTokens
    BY <1>2 DEF ServerRestart
  <2>2. CASE worldSaved'
    BY <2>1, <2>2 DEF Loaded, RightsInv, RightsDurable, Administered
  <2>3. CASE ~worldSaved'
    BY <2>1, <2>3, NoAccountsIsAdministered DEF Loaded, RightsInv, RightsDurable, Administered, NoAccounts
  <2> QED BY <2>2, <2>3
<1> QED BY <1>1, <1>2

LEMMA RightsStep == RightsInv /\ [AuthorityNext]_authorityVars => RightsInv'
<1> SUFFICES ASSUME RightsInv, [AuthorityNext]_authorityVars PROVE RightsInv'
  OBVIOUS
<1>1. CASE UNCHANGED rightsVars
  BY <1>1, SameScopesKeepRights DEF rightsVars, RightsInv, RightsDurable
<1>2. CASE UNCHANGED authorityVars
  BY <1>2, <1>1 DEF authorityVars, rightsVars
<1>3. ASSUME NEW a \in Accounts, Accounting(a) PROVE RightsInv'
  BY <1>3, AccountingKeepsRights
<1>4. CASE Elapse
  BY <1>4, SameScopesKeepRights DEF Elapse, RightsInv, RightsDurable, Quiet
<1>5. CASE SweepTokens
  BY <1>5, SameScopesKeepRights DEF SweepTokens, SaveTokens, Quiet
<1>6. CASE DoSave
  BY <1>6, SavedScopesKeepRights DEF DoSave, RightsInv, RightsDurable, Administered
<1>7. CASE Restarts
  BY <1>7, RestartKeepsRights DEF Restarts
<1> QED BY <1>1, <1>2, <1>3, <1>4, <1>5, <1>6, <1>7, RightsMoves

(* Grants, revocations and tokens survive every crash once the world was      *)
(* saved (cmd_grant, cmd_revoke, save_tokens, has_world_data), and whenever   *)
(* there is an account there is an administrator, in memory and in the        *)
(* database (AccountStore::create, cmd_revoke).                               *)
THEOREM RightsSurvive == AuthoritySpec => []RightsHold
<1>1. RightsInv => RightsHold
  BY DEF RightsInv, Administered, RightsDurable, AdminRemains, RightsHold, Exists
<1> QED BY <1>1, RightsInit, RightsStep, PTL DEF AuthoritySpec

-----------------------------------------------------------------------------
(* Types of objects.                                                          *)

ObjsOK == objs \in [Objects -> Record \cup {Unborn, Gone}]
WorldOK == ObjsOK /\ edits \in 0..MaxEdits

LEMMA LiveTyped ==
    ASSUME ObjsOK, NEW o \in Existing PROVE o \in Objects /\ objs[o] \in Record
BY DEF ObjsOK, Existing

LEMMA FlippedTyped ==
    ASSUME ObjsOK, NEW o \in Existing PROVE Flipped(o) \in Record
<1>1. objs[o] \in Record
  BY LiveTyped
<1> QED BY <1>1 DEF Flipped, Record

LEMMA DetachedTyped ==
    ASSUME ObjsOK, NEW i \in Existing PROVE Detached(i) \in Record
<1>1. objs[i] \in Record
  BY LiveTyped
<1>2. \A p \in Lineage(i) : objs[p].tags \in SUBSET Tags
  BY LiveTyped DEF Lineage, Record
<1>3. ResolvedTags(i) \in SUBSET Tags
  BY <1>1, <1>2 DEF ResolvedTags, Record
<1> QED BY <1>1, <1>3 DEF Detached, Record

LEMMA FreshTyped ==
    ASSUME NEW a \in Accounts \cup {"nobody"} PROVE Fresh(a) \in Record
BY DEF Fresh, Record

LEMMA CopyTyped ==
    ASSUME ObjsOK, NEW s \in Existing, NEW a \in Accounts \cup {"nobody"} PROVE Copy(s, a) \in Record
<1>1. objs[s] \in Record
  BY LiveTyped
<1> QED BY <1>1 DEF Copy, Record

LEMMA TagsTyped ==
    ASSUME ObjsOK, NEW o \in Existing, NEW T \in SUBSET Tags PROVE [objs[o] EXCEPT !.tags = T] \in Record
<1>1. objs[o] \in Record
  BY LiveTyped
<1> QED BY <1>1 DEF Record

(* One object becomes another: the change most actions make.                  *)
LEMMA OneChange ==
    ASSUME WorldOK, NEW o \in Objects, NEW r \in Record \cup {Gone}, NEW a, NEW via,
           Becomes([objs EXCEPT ![o] = r], a, via)
    PROVE  WorldOK'
BY AuthorityAssumption DEF WorldOK, ObjsOK, Becomes

LEMMA ManyChanges ==
    ASSUME WorldOK, NEW new \in [Objects -> Record \cup {Unborn, Gone}], NEW a, NEW via, Becomes(new, a, via)
    PROVE  WorldOK'
BY AuthorityAssumption DEF WorldOK, ObjsOK, Becomes

LEMMA EditTyped ==
    ASSUME WorldOK, NEW o \in Existing, NEW a, NEW via, Edit(o, a, via) PROVE WorldOK'
<1>1. Flipped(o) \in Record /\ o \in Objects
  BY FlippedTyped, LiveTyped DEF WorldOK
<1> QED BY <1>1, OneChange DEF Edit

LEMMA TagTyped ==
    ASSUME WorldOK, NEW o \in Existing, NEW T \in SUBSET Tags, NEW a, NEW via,
           \/ Becomes([objs EXCEPT ![o].tags = @ \cup T], a, via)
           \/ Becomes([objs EXCEPT ![o].tags = @ \ T], a, via)
    PROVE  WorldOK'
<1>1. objs[o] \in Record /\ o \in Objects
  BY LiveTyped DEF WorldOK
<1>2. objs[o].tags \in SUBSET Tags
  BY <1>1 DEF Record
<1>3. CASE Becomes([objs EXCEPT ![o].tags = @ \cup T], a, via)
  <2>1. [objs[o] EXCEPT !.tags = objs[o].tags \cup T] \in Record
    BY <1>2, TagsTyped DEF WorldOK
  <2> QED BY <1>1, <1>3, <2>1, OneChange
<1>4. CASE Becomes([objs EXCEPT ![o].tags = @ \ T], a, via)
  <2>1. [objs[o] EXCEPT !.tags = objs[o].tags \ T] \in Record
    BY <1>2, TagsTyped DEF WorldOK
  <2> QED BY <1>1, <1>4, <2>1, OneChange
<1> QED BY <1>3, <1>4

LEMMA ArchTyped ==
    ASSUME WorldOK, NEW o \in Existing, NEW p \in Objects \cup {"none"}, NEW a, NEW via,
           Becomes([objs EXCEPT ![o].arch = p], a, via)
    PROVE  WorldOK'
<1>1. objs[o] \in Record /\ o \in Objects
  BY LiveTyped DEF WorldOK
<1>2. [objs[o] EXCEPT !.arch = p] \in Record
  BY <1>1 DEF Record
<1> QED BY <1>1, <1>2, OneChange

LEMMA DestroyedTyped ==
    ASSUME ObjsOK, NEW o \in Objects, NEW X
    PROVE  /\ Destroyed(o, X) \in [Objects -> Record \cup {Unborn, Gone}]
           /\ [i \in Objects |-> IF i \in Instances(o) THEN Detached(i) ELSE objs[i]]
                  \in [Objects -> Record \cup {Unborn, Gone}]
<1>1. \A i \in Instances(o) : Detached(i) \in Record
  BY DetachedTyped DEF Instances
<1>2. \A i \in Objects : objs[i] \in Record \cup {Unborn, Gone}
  BY DEF ObjsOK
<1> QED BY <1>1, <1>2 DEF Destroyed

LEMMA EditsTyped ==
    ASSUME WorldOK, NEW a \in Accounts, Edits(a) PROVE WorldOK'
<1>1. PICK o \in Existing :
        \/ CmdSet(a, o) \/ CmdLock(a, o) \/ CmdAlias(a, o) \/ CmdProgramLine(a, o) \/ CmdRmprogram(a, o)
        \/ CmdDescribe(a, o) \/ CmdName(a, o) \/ CmdUnlock(a, o) \/ CmdScriptInterval(a, o) \/ CmdDialogueClear(a, o)
        \/ \E t \in Tags : CmdTag(a, o, t) \/ CmdUntag(a, o, t)
        \/ \E p \in Objects \cup {"none"} : CmdArchetype(a, o, p)
        \/ \E c, full \in BOOLEAN : CmdDestroy(a, o, c, full)
        \/ \E b \in Accounts : CmdChown(a, o, b)
        \/ CmdProgram(a, o) \/ CmdDialogueEdit(a, o) \/ CmdReload(a, o)
  BY DEF Edits
<1>o. o \in Objects /\ objs[o] \in Record
  BY LiveTyped DEF WorldOK
<1>2. CASE CmdSet(a, o) \/ CmdLock(a, o) \/ CmdAlias(a, o) \/ CmdProgramLine(a, o) \/ CmdRmprogram(a, o)
  BY <1>2, EditTyped DEF CmdSet, CmdLock, CmdAlias, CmdProgramLine, CmdRmprogram
<1>3. CASE CmdDescribe(a, o) \/ CmdName(a, o) \/ CmdUnlock(a, o) \/ CmdScriptInterval(a, o) \/ CmdDialogueClear(a, o)
  BY <1>3, EditTyped DEF CmdDescribe, CmdName, CmdUnlock, CmdScriptInterval, CmdDialogueClear
<1>4. CASE \E t \in Tags : CmdTag(a, o, t) \/ CmdUntag(a, o, t)
  <2>1. PICK t \in Tags : CmdTag(a, o, t) \/ CmdUntag(a, o, t)
    BY <1>4
  <2>2. {t} \in SUBSET Tags
    OBVIOUS
  <2> QED BY <2>1, <2>2, TagTyped DEF CmdTag, CmdUntag
<1>5. CASE \E p \in Objects \cup {"none"} : CmdArchetype(a, o, p)
  <2>1. PICK p \in Objects \cup {"none"} : CmdArchetype(a, o, p)
    BY <1>5
  <2>2. CASE p = "none"
    BY <1>o, <2>1, <2>2, DetachedTyped, OneChange DEF CmdArchetype, WorldOK
  <2>3. CASE p # "none"
    BY <2>1, <2>3, ArchTyped DEF CmdArchetype
  <2> QED BY <2>2, <2>3
<1>6. CASE \E c, full \in BOOLEAN : CmdDestroy(a, o, c, full)
  BY <1>6, <1>o, DestroyedTyped, ManyChanges DEF CmdDestroy, WorldOK
<1>7. CASE \E b \in Accounts : CmdChown(a, o, b)
  <2>1. PICK b \in Accounts : CmdChown(a, o, b)
    BY <1>7
  <2>2. [objs[o] EXCEPT !.owner = b] \in Record
    BY <1>o DEF Record
  <2> QED BY <1>o, <2>1, <2>2, OneChange DEF CmdChown
<1>8. CASE CmdProgram(a, o) \/ CmdDialogueEdit(a, o)
  BY <1>8 DEF CmdProgram, CmdDialogueEdit, Opens, WorldOK, ObjsOK
<1>9. CASE CmdReload(a, o)
  BY <1>9, EditTyped DEF CmdReload
<1> QED BY <1>1, <1>2, <1>3, <1>4, <1>5, <1>6, <1>7, <1>8, <1>9

LEMMA MakesTyped ==
    ASSUME WorldOK, NEW a \in Accounts, Makes(a) PROVE WorldOK'
<1>1. PICK o \in Objects :
        \/ CmdDig(a, o) \/ CmdOpen(a, o) \/ CmdCreate(a, o)
        \/ CreateRoom(a, o) \/ CreateObject(a, o) \/ CreateExit(a, o)
        \/ \E s \in Existing : \/ CmdClone(a, s, o)
                           \/ \E b \in Accounts \cup {"nobody"} : CloneObject(a, s, o, b)
  BY DEF Makes
<1>2. CASE CmdDig(a, o) \/ CmdOpen(a, o) \/ CmdCreate(a, o)
  BY <1>2, FreshTyped, OneChange DEF CmdDig, CmdOpen, CmdCreate
<1>3. CASE CreateRoom(a, o) \/ CreateObject(a, o) \/ CreateExit(a, o)
  BY <1>3, FreshTyped, OneChange DEF CreateRoom, CreateObject, CreateExit
<1>4. ASSUME NEW s \in Existing, CmdClone(a, s, o) PROVE WorldOK'
  BY <1>4, CopyTyped, OneChange DEF CmdClone, WorldOK
<1>5. ASSUME NEW s \in Existing, NEW b \in Accounts \cup {"nobody"}, CloneObject(a, s, o, b) PROVE WorldOK'
  BY <1>5, CopyTyped, OneChange DEF CloneObject, WorldOK
<1> QED BY <1>1, <1>2, <1>3, <1>4, <1>5

LEMMA RequestsTyped ==
    ASSUME WorldOK, NEW a \in Accounts, Requests(a) PROVE WorldOK'
<1>1. PICK o \in Existing :
        \/ WriteBatch(a, o) \/ SetLocation(a, o) \/ InkSave(a, o) \/ DetachObject(a, o)
        \/ \E t \in Tags : AddTag(a, o, t) \/ RemoveTag(a, o, t)
        \/ \E p \in Objects \cup {"none"} : SetArchetype(a, o, p)
        \/ \E c \in BOOLEAN : DeleteObject(a, o, c)
  BY DEF Requests
<1>o. o \in Objects
  BY DEF Existing
<1>2. CASE WriteBatch(a, o) \/ SetLocation(a, o) \/ InkSave(a, o)
  BY <1>2, EditTyped DEF WriteBatch, SetLocation, InkSave
<1>3. CASE DetachObject(a, o)
  BY <1>3, <1>o, DetachedTyped, OneChange DEF DetachObject, WorldOK
<1>4. CASE \E t \in Tags : AddTag(a, o, t) \/ RemoveTag(a, o, t)
  <2>1. PICK t \in Tags : AddTag(a, o, t) \/ RemoveTag(a, o, t)
    BY <1>4
  <2>2. {t} \in SUBSET Tags
    OBVIOUS
  <2> QED BY <2>1, <2>2, TagTyped DEF AddTag, RemoveTag
<1>5. CASE \E p \in Objects \cup {"none"} : SetArchetype(a, o, p)
  BY <1>5, ArchTyped DEF SetArchetype
<1>6. CASE \E c \in BOOLEAN : DeleteObject(a, o, c)
  BY <1>6, <1>o, DestroyedTyped, ManyChanges DEF DeleteObject, WorldOK
<1> QED BY <1>1, <1>2, <1>3, <1>4, <1>5, <1>6

LEMMA StampTyped ==
    ASSUME NEW os \in [Objects -> Record \cup {Unborn, Gone}],
           \A o \in Existing : os[o] \in Record
    PROVE  StampLocked(os) \in [Objects -> Record \cup {Unborn, Gone}]
<1> DEFINE Stamped(o) == [os[o] EXCEPT !.tags = IF o \in LockedFiles THEN @ \cup {"locked"} ELSE @ \ {"locked"}]
<1>1. ASSUME NEW o \in Managed \cap Existing PROVE Stamped(o) \in Record
  <2>1. os[o] \in Record
    OBVIOUS
  <2>2. os[o].tags \in SUBSET Tags
    BY <2>1 DEF Record
  <2>3. os[o].tags \cup {"locked"} \in SUBSET Tags /\ os[o].tags \ {"locked"} \in SUBSET Tags
    BY <2>2 DEF Tags
  <2> QED BY <2>1, <2>3 DEF Record
<1> QED BY <1>1 DEF StampLocked

LEMMA ReloadTyped ==
    ASSUME WorldOK, NEW a \in Accounts, ReloadWorld(a) PROVE WorldOK'
<1>1. objs \in [Objects -> Record \cup {Unborn, Gone}] /\ \A o \in Existing : objs[o] \in Record
  BY LiveTyped DEF WorldOK, ObjsOK
<1>2. CASE Becomes(StampLocked(objs), a, "files")
  BY <1>1, <1>2, StampTyped, ManyChanges
<1>3. ASSUME NEW o \in Managed \cap Existing, Becomes(StampLocked([objs EXCEPT ![o] = Flipped(o)]), a, "files")
      PROVE  WorldOK'
  <2> DEFINE os == [objs EXCEPT ![o] = Flipped(o)]
  <2>1. Flipped(o) \in Record
    BY FlippedTyped DEF WorldOK
  <2>2. os \in [Objects -> Record \cup {Unborn, Gone}] /\ \A q \in Existing : os[q] \in Record
    BY <1>1, <2>1, LiveTyped DEF WorldOK
  <2> HIDE DEF os
  <2>3. StampLocked(os) \in [Objects -> Record \cup {Unborn, Gone}]
    BY <2>2, StampTyped
  <2> QED BY <1>3, <2>3, ManyChanges DEF os
<1> QED BY <1>2, <1>3 DEF ReloadWorld

LEMMA EditorsTyped ==
    ASSUME WorldOK, NEW a \in Accounts, Editors(a) PROVE WorldOK'
<1>1. ASSUME NEW mode, EditorDone(a, mode) PROVE WorldOK'
  <2>1. CASE editor[a].on \in Existing
    BY <1>1, <2>1, EditTyped DEF EditorDone
  <2>2. CASE editor[a].on \notin Existing
    BY <1>1, <2>2 DEF EditorDone, WorldOK, ObjsOK
  <2> QED BY <2>1, <2>2
<1>2. CASE EvalEditorDone(a)
  BY <1>2, EditTyped DEF EvalEditorDone
<1>3. CASE CmdEval(a) \/ EditorAbort(a)
  BY <1>3 DEF CmdEval, Opens, EditorAbort, WorldOK, ObjsOK
<1> QED BY <1>1, <1>2, <1>3 DEF Editors, ProgramEditorDone, InkEditorDone

LEMMA ScriptTyped ==
    ASSUME WorldOK, NEW o \in Existing, Script(o) PROVE WorldOK'
<1>1. CASE Edit(o, "system", "script")
  BY <1>1, EditTyped
<1>2. ASSUME NEW t \in Tags,
             Becomes([objs EXCEPT ![o].tags = IF t \in @ THEN @ \ {t} ELSE @ \cup {t}], "system", "script")
      PROVE  WorldOK'
  <2>1. {t} \in SUBSET Tags
    OBVIOUS
  <2>2. CASE t \in objs[o].tags
    <3>1. Becomes([objs EXCEPT ![o].tags = @ \ {t}], "system", "script")
      BY <1>2, <2>2
    <3> QED BY <2>1, <3>1, TagTyped
  <2>3. CASE t \notin objs[o].tags
    <3>1. Becomes([objs EXCEPT ![o].tags = @ \cup {t}], "system", "script")
      BY <1>2, <2>3
    <3> QED BY <2>1, <3>1, TagTyped
  <2> QED BY <2>2, <2>3
<1> QED BY <1>1, <1>2 DEF Script

LEMMA AccountingTyped ==
    ASSUME WorldOK, \/ \E a \in Accounts : Accounting(a)
                    \/ Elapse \/ SweepTokens \/ DoSave
    PROVE  WorldOK'
<1>1. UNCHANGED <<objs, edits>>
  BY DEF Accounting, Register, EnterWorld, Disconnect, CmdTokenCreate, CmdTokenRevoke, CmdGrant, CmdRevoke,
         Administers, Elapse, SweepTokens, DoSave, Quiet
<1> QED BY <1>1 DEF WorldOK, ObjsOK

LEMMA RestartTyped ==
    ASSUME WorldOK, Restarts PROVE WorldOK'
<1>1. objs \in [Objects -> Record \cup {Unborn, Gone}] /\ \A o \in Existing : objs[o] \in Record
  BY LiveTyped DEF WorldOK, ObjsOK
<1> QED BY <1>1, StampTyped DEF Restarts, ServerRestart, WorldOK, ObjsOK

LEMMA WorldStep == WorldOK /\ [AuthorityNext]_authorityVars => WorldOK'
<1> SUFFICES ASSUME WorldOK, [AuthorityNext]_authorityVars PROVE WorldOK'
  OBVIOUS
<1>1. CASE UNCHANGED authorityVars
  BY <1>1 DEF authorityVars, WorldOK, ObjsOK
<1>2. ASSUME NEW a \in Accounts,
             Edits(a) \/ Makes(a) \/ Requests(a) \/ Editors(a) \/ Accounting(a) \/ ReloadWorld(a)
      PROVE  WorldOK'
  BY <1>2, EditsTyped, MakesTyped, RequestsTyped, EditorsTyped, AccountingTyped, ReloadTyped
<1>3. ASSUME NEW o \in Existing, Script(o) PROVE WorldOK'
  BY <1>3, ScriptTyped
<1>4. CASE Elapse \/ SweepTokens \/ DoSave \/ Restarts
  BY <1>4, AccountingTyped, RestartTyped
<1> QED BY <1>1, <1>2, <1>3, <1>4 DEF AuthorityNext, Restarts

LEMMA WorldInit == AuthorityInit => WorldOK
BY AuthorityAssumption DEF AuthorityInit, WorldOK, ObjsOK

-----------------------------------------------------------------------------
(* Locked objects: every way to change an object is shown to spare them or to *)
(* be one of the exceptions of LockedHeld.                                    *)

Spares == \A o \in Existing : IsObjectLocked(o) => objs'[o] = objs[o]

LEMMA SparingIsHolding == ASSUME Spares PROVE LockedStep
BY DEF Spares, LockedStep

(* One object becomes another: fine, if it is not locked or not live.         *)
LEMMA ChangeSpares ==
    ASSUME WorldOK, NEW o \in Objects, o \in Existing => ~IsObjectLocked(o), NEW r,
           objs' = [objs EXCEPT ![o] = r]
    PROVE  LockedStep
<1>1. \A q \in Objects \ {o} : objs'[q] = objs[q]
  BY DEF WorldOK, ObjsOK
<1>2. Existing \subseteq Objects
  BY DEF Existing
<1> QED BY <1>1, <1>2, SparingIsHolding DEF Spares

LEMMA EditSpares ==
    ASSUME WorldOK, NEW o \in Existing, ~IsObjectLocked(o), NEW a, NEW via, Edit(o, a, via) PROVE LockedStep
BY ChangeSpares DEF Edit, Becomes, Existing

(* Instances are detached only if none of them is locked.                     *)
LEMMA DetachSpares ==
    ASSUME WorldOK, NEW o \in Objects, NEW c \in BOOLEAN, MayCascade(o, c), NEW i \in Existing, IsObjectLocked(i)
    PROVE  i \notin Instances(o)
BY DEF MayCascade

LEMMA EditsSpare ==
    ASSUME WorldOK, NEW a \in Accounts, Edits(a) PROVE LockedStep
<1>1. PICK o \in Existing :
        \/ CmdSet(a, o) \/ CmdLock(a, o) \/ CmdAlias(a, o) \/ CmdProgramLine(a, o) \/ CmdRmprogram(a, o)
        \/ CmdDescribe(a, o) \/ CmdName(a, o) \/ CmdUnlock(a, o) \/ CmdScriptInterval(a, o) \/ CmdDialogueClear(a, o)
        \/ \E t \in Tags : CmdTag(a, o, t) \/ CmdUntag(a, o, t)
        \/ \E p \in Objects \cup {"none"} : CmdArchetype(a, o, p)
        \/ \E c, full \in BOOLEAN : CmdDestroy(a, o, c, full)
        \/ \E b \in Accounts : CmdChown(a, o, b)
        \/ CmdProgram(a, o) \/ CmdDialogueEdit(a, o) \/ CmdReload(a, o)
  BY DEF Edits
<1>o. o \in Objects
  BY DEF Existing
<1>2. CASE CmdSet(a, o) \/ CmdLock(a, o) \/ CmdAlias(a, o) \/ CmdProgramLine(a, o) \/ CmdRmprogram(a, o)
  BY <1>2, EditSpares DEF CmdSet, CmdLock, CmdAlias, CmdProgramLine, CmdRmprogram, CheckProgramWrite
<1>3. CASE CmdDescribe(a, o) \/ CmdName(a, o) \/ CmdUnlock(a, o) \/ CmdScriptInterval(a, o) \/ CmdDialogueClear(a, o)
  BY <1>3, EditSpares DEF CmdDescribe, CmdName, CmdUnlock, CmdScriptInterval, CmdDialogueClear
<1>4. CASE \E t \in Tags : CmdTag(a, o, t) \/ CmdUntag(a, o, t)
  BY <1>4, <1>o, ChangeSpares DEF CmdTag, CmdUntag, Becomes
<1>5. CASE \E p \in Objects \cup {"none"} : CmdArchetype(a, o, p)
  <2>1. PICK p \in Objects \cup {"none"} : CmdArchetype(a, o, p)
    BY <1>5
  <2>2. CASE p = "none"
    BY <1>o, <2>1, <2>2, ChangeSpares DEF CmdArchetype, Becomes
  <2>3. CASE p # "none"
    BY <1>o, <2>1, <2>3, ChangeSpares DEF CmdArchetype, Becomes
  <2> QED BY <2>2, <2>3
<1>6. ASSUME NEW c \in BOOLEAN, NEW full \in BOOLEAN, CmdDestroy(a, o, c, full) PROVE LockedStep
  <2>1. MayCascade(o, c) /\ ~IsObjectLocked(o)
    BY <1>6 DEF CmdDestroy
  <2>2. ASSUME NEW q \in Existing, IsObjectLocked(q) PROVE q \notin Instances(o) /\ q # o /\ q \in Objects
    BY <1>o, <2>1, <2>2, DetachSpares DEF Existing
  <2>3. CASE full
    <3>1. objs' = [i \in Objects |-> IF i \in Instances(o) THEN Detached(i) ELSE objs[i]]
      BY <1>6, <2>3 DEF CmdDestroy, Becomes
    <3> QED BY <2>2, <3>1, SparingIsHolding DEF Spares
  <2>4. CASE ~full
    <3> DEFINE exits == {e \in DOMAIN EndsIn \cap Existing : EndsIn[e] = o}
    <3>1. objs' = [i \in Objects |-> IF i \in {o} \cup exits THEN Gone
                                     ELSE IF i \in Instances(o) THEN Detached(i) ELSE objs[i]]
      BY <1>6, <2>4 DEF CmdDestroy, Becomes, Destroyed
    <3>2. objs'[o] = Gone
      BY <1>o, <3>1
    <3>3. ASSUME NEW q \in Existing, IsObjectLocked(q), objs'[q] # objs[q]
          PROVE  q \in DOMAIN EndsIn /\ objs'[q] = Gone /\ objs'[EndsIn[q]] = Gone
      <4>1. q \in exits
        BY <2>2, <3>1, <3>3
      <4> QED BY <2>2, <3>1, <3>2, <3>3, <4>1
    <3> QED BY <3>3 DEF LockedStep
  <2> QED BY <2>3, <2>4
<1>7. CASE \E b \in Accounts : CmdChown(a, o, b)
  BY <1>7, <1>o, ChangeSpares DEF CmdChown, Becomes
<1>8. CASE CmdProgram(a, o) \/ CmdDialogueEdit(a, o)
  BY <1>8, SparingIsHolding DEF CmdProgram, CmdDialogueEdit, Opens, Spares
<1>9. CASE CmdReload(a, o)
  <2>1. last' = [who |-> a, via |-> "reload"] /\ objs' = [objs EXCEPT ![o] = Flipped(o)]
    BY <1>9 DEF CmdReload, Edit, Becomes
  <2>2. objs'[o] = Flipped(o) /\ \A q \in Existing : q # o => objs'[q] = objs[q]
    BY <1>o, <2>1 DEF WorldOK, ObjsOK, Existing
  <2> QED BY <2>1, <2>2 DEF LockedStep
<1> QED BY <1>1, <1>2, <1>3, <1>4, <1>5, <1>6, <1>7, <1>8, <1>9

LEMMA MakesSpare ==
    ASSUME WorldOK, NEW a \in Accounts, Makes(a) PROVE LockedStep
<1>1. PICK o \in Objects :
        /\ objs[o] = Unborn
        /\ \/ CmdDig(a, o) \/ CmdOpen(a, o) \/ CmdCreate(a, o)
           \/ CreateRoom(a, o) \/ CreateObject(a, o) \/ CreateExit(a, o)
           \/ \E s \in Existing : \/ CmdClone(a, s, o)
                              \/ \E b \in Accounts \cup {"nobody"} : CloneObject(a, s, o, b)
  BY DEF Makes
<1>2. o \notin Existing
  BY <1>1 DEF Existing
<1>3. \E r : objs' = [objs EXCEPT ![o] = r]
  BY <1>1 DEF CmdDig, CmdOpen, CmdCreate, CreateRoom, CreateObject, CreateExit, CmdClone, CloneObject, Becomes
<1> QED BY <1>2, <1>3, ChangeSpares

LEMMA RequestsSpare ==
    ASSUME WorldOK, NEW a \in Accounts, Requests(a) PROVE LockedStep
<1>1. PICK o \in Existing :
        \/ WriteBatch(a, o) \/ SetLocation(a, o) \/ InkSave(a, o) \/ DetachObject(a, o)
        \/ \E t \in Tags : AddTag(a, o, t) \/ RemoveTag(a, o, t)
        \/ \E p \in Objects \cup {"none"} : SetArchetype(a, o, p)
        \/ \E c \in BOOLEAN : DeleteObject(a, o, c)
  BY DEF Requests
<1>o. o \in Objects
  BY DEF Existing
<1> USE DEF MayWrite
<1>2. CASE WriteBatch(a, o) \/ SetLocation(a, o) \/ InkSave(a, o)
  BY <1>2, EditSpares DEF WriteBatch, SetLocation, InkSave
<1>3. CASE DetachObject(a, o)
  BY <1>3, <1>o, ChangeSpares DEF DetachObject, Becomes
<1>4. CASE \E t \in Tags : AddTag(a, o, t) \/ RemoveTag(a, o, t)
  BY <1>4, <1>o, ChangeSpares DEF AddTag, RemoveTag, Becomes
<1>5. CASE \E p \in Objects \cup {"none"} : SetArchetype(a, o, p)
  BY <1>5, <1>o, ChangeSpares DEF SetArchetype, Becomes
<1>6. ASSUME NEW c \in BOOLEAN, DeleteObject(a, o, c) PROVE LockedStep
  <2>1. MayCascade(o, c) /\ ~IsObjectLocked(o)
    BY <1>6 DEF DeleteObject
  <2>2. ASSUME NEW q \in Existing, IsObjectLocked(q) PROVE q \notin Instances(o) /\ q # o /\ q \in Objects
    BY <1>o, <2>1, <2>2, DetachSpares DEF Existing
  <2>3. objs' = [i \in Objects |-> IF i \in {o} \cup {} THEN Gone
                                   ELSE IF i \in Instances(o) THEN Detached(i) ELSE objs[i]]
    BY <1>6 DEF DeleteObject, Becomes, Destroyed
  <2> QED BY <2>2, <2>3, SparingIsHolding DEF Spares
<1> QED BY <1>1, <1>2, <1>3, <1>4, <1>5, <1>6

LEMMA EditorsSpare ==
    ASSUME WorldOK, NEW a \in Accounts, Editors(a) PROVE LockedStep
<1>1. ASSUME NEW mode, EditorDone(a, mode) PROVE LockedStep
  <2>1. CASE editor[a].on \in Existing
    <3>1. last' = [who |-> a, via |-> "editor"] /\ objs' = [objs EXCEPT ![editor[a].on] = Flipped(editor[a].on)]
      BY <1>1, <2>1 DEF EditorDone, Edit, Becomes
    <3>2. \A q \in Existing : q # editor[a].on => objs'[q] = objs[q]
      BY <3>1 DEF WorldOK, ObjsOK, Existing
    <3> QED BY <3>1, <3>2 DEF LockedStep
  <2>2. CASE editor[a].on \notin Existing
    BY <1>1, <2>2, SparingIsHolding DEF EditorDone, Spares
  <2> QED BY <2>1, <2>2
<1>2. CASE EvalEditorDone(a)
  BY <1>2 DEF EvalEditorDone, Edit, Becomes, LockedStep
<1>3. CASE CmdEval(a) \/ EditorAbort(a)
  BY <1>3, SparingIsHolding DEF CmdEval, Opens, EditorAbort, Spares
<1> QED BY <1>1, <1>2, <1>3 DEF Editors, ProgramEditorDone, InkEditorDone

LEMMA AccountingSpares ==
    ASSUME \/ \E a \in Accounts : Accounting(a)
           \/ Elapse \/ SweepTokens \/ DoSave
    PROVE  LockedStep
<1>1. UNCHANGED objs
  BY DEF Accounting, Register, EnterWorld, Disconnect, CmdTokenCreate, CmdTokenRevoke, CmdGrant, CmdRevoke,
         Administers, Elapse, SweepTokens, DoSave, Quiet
<1> QED BY <1>1, SparingIsHolding DEF Spares

LEMMA LockedStepHolds == WorldOK /\ [AuthorityNext]_authorityVars => [LockedStep]_authorityVars
<1> SUFFICES ASSUME WorldOK, AuthorityNext PROVE LockedStep
  OBVIOUS
<1>1. ASSUME NEW a \in Accounts, ReloadWorld(a) PROVE LockedStep
  <2>0. PICK new : Becomes(new, a, "files")
    BY <1>1, Zenon DEF ReloadWorld
  <2>1. last'.via = "files"
    BY <2>0 DEF Becomes
  <2> QED BY <2>1 DEF LockedStep
<1>2. ASSUME NEW o \in Existing, Script(o) PROVE LockedStep
  <2>1. last'.via = "script"
    BY <1>2 DEF Script, Edit, Becomes
  <2> QED BY <2>1 DEF LockedStep
<1>3. CASE Restarts
  BY <1>3 DEF Restarts, ServerRestart, LockedStep
<1> QED BY <1>1, <1>2, <1>3, EditsSpare, MakesSpare, RequestsSpare, EditorsSpare, AccountingSpares DEF AuthorityNext, Restarts

(* A locked object changes only by a script, a content file, an editor opened *)
(* before the lock, @reload, or the removal of the room its exit belongs to,  *)
(* whatever commands and requests there are (is_ref_locked, docs/adr/0007).   *)
THEOREM LockedObjectsHeld == AuthoritySpec => LockedHeld
<1>1. AuthorityInit /\ [][AuthorityNext]_authorityVars => []WorldOK
  BY WorldInit, WorldStep, PTL
<1> QED BY <1>1, LockedStepHolds, PTL DEF AuthoritySpec, LockedHeld

-----------------------------------------------------------------------------
(* Global objects.  What serves everywhere may owe it to anything it inherits *)
(* from, so a change of one object reaches all that delegate to it.  Lines    *)
(* are closed sets here, of the world before or after, f and g.               *)

LiveIn(f) == {o \in Objects : f[o] \notin {Unborn, Gone}}
ClosedIn(f, S) == \A q \in S \cap LiveIn(f) : f[q].arch \in S \cup {"none"}
Line(f, x) == {p \in Objects : \A S \in SUBSET Objects : x \in S /\ ClosedIn(f, S) => p \in S}
Serves(f, p) == p \in LiveIn(f) /\ "global" \in f[p].tags
Global(f, o) == \E p \in Line(f, o) : Serves(f, p)

LEMMA LineIsClosed ==
    ASSUME NEW f \in [Objects -> Record \cup {Unborn, Gone}], NEW x \in Objects
    PROVE  x \in Line(f, x) /\ Line(f, x) \in SUBSET Objects /\ ClosedIn(f, Line(f, x))
<1>1. x \in Line(f, x) /\ Line(f, x) \in SUBSET Objects
  BY DEF Line
<1>2. ASSUME NEW q \in Line(f, x) \cap LiveIn(f), f[q].arch # "none" PROVE f[q].arch \in Line(f, x)
  <2>1. f[q].arch \in Objects
    BY <1>2 DEF LiveIn, Record
  <2>2. ASSUME NEW S \in SUBSET Objects, x \in S, ClosedIn(f, S) PROVE f[q].arch \in S
    <3>1. q \in S
      BY <2>2 DEF Line
    <3> QED BY <1>2, <2>2, <3>1 DEF ClosedIn
  <2> QED BY <2>1, <2>2 DEF Line
<1> QED BY <1>1, <1>2 DEF ClosedIn

(* Whoever changes the objects in K only, and leaves those of them that serve *)
(* globally with the tag of their own, takes nothing out of the surface.      *)
LEMMA LinesKeepServing ==
    ASSUME NEW f \in [Objects -> Record \cup {Unborn, Gone}],
           NEW g \in [Objects -> Record \cup {Unborn, Gone}],
           NEW K \in SUBSET Objects,
           \A p \in Objects \ K : g[p] = f[p],
           \A p \in K \cap LiveIn(f) : Global(f, p) => Serves(g, p),
           NEW o \in LiveIn(f), Global(f, o)
    PROVE  Global(g, o)
<1> DEFINE S == Line(g, o)
           T == S \cup UNION {Line(f, k) : k \in S \cap K \cap LiveIn(f)}
<1>1. o \in Objects
  BY DEF LiveIn
<1>2. o \in S /\ S \in SUBSET Objects /\ ClosedIn(g, S)
  BY <1>1, LineIsClosed
<1>3. \A k \in Objects : k \in Line(f, k) /\ Line(f, k) \in SUBSET Objects /\ ClosedIn(f, Line(f, k))
  BY LineIsClosed
<1> HIDE DEF S
<1>4. T \in SUBSET Objects
  BY <1>2, <1>3
<1>5. ASSUME NEW q \in T \cap LiveIn(f) PROVE f[q].arch \in T \cup {"none"}
  <2>1. CASE q \in S \ K
    <3>1. g[q] = f[q] /\ q \in LiveIn(g)
      BY <1>2, <2>1, <1>5 DEF LiveIn
    <3> QED BY <1>2, <2>1, <3>1 DEF ClosedIn
  <2>2. CASE \E k \in S \cap K \cap LiveIn(f) : q \in Line(f, k)
    <3>1. PICK k \in S \cap K \cap LiveIn(f) : q \in Line(f, k)
      BY <2>2
    <3>2. f[q].arch \in Line(f, k) \cup {"none"}
      BY <1>2, <1>3, <1>5, <3>1 DEF ClosedIn
    <3> QED BY <3>1, <3>2
  <2>3. q \in S \cap K => q \in Line(f, q)
    BY <1>2, <1>3
  <2> QED BY <1>5, <2>1, <2>2, <2>3
<1>6. ClosedIn(f, T)
  BY <1>5 DEF ClosedIn
<1>7. PICK q \in Line(f, o) : Serves(f, q)
  BY DEF Global
<1>8. q \in T
  BY <1>2, <1>4, <1>6, <1>7 DEF Line
<1>9. CASE q \in S
  <2>1. CASE q \in K
    <3>1. q \in LiveIn(f) /\ q \in Line(f, q)
      BY <1>2, <1>3, <1>7, <1>9 DEF Serves
    <3>2. Global(f, q)
      BY <1>7, <3>1 DEF Global
    <3> QED BY <1>9, <2>1, <3>1, <3>2 DEF S, Global
  <2>2. CASE q \notin K
    <3>1. Serves(g, q)
      BY <1>2, <1>7, <1>9, <2>2 DEF Serves, LiveIn
    <3> QED BY <1>9, <3>1 DEF S, Global
  <2> QED BY <2>1, <2>2
<1>10. ASSUME NEW k \in S \cap K \cap LiveIn(f), q \in Line(f, k) PROVE Global(g, o)
  <2>1. Global(f, k)
    BY <1>7, <1>10 DEF Global
  <2>2. Serves(g, k)
    BY <2>1
  <2> QED BY <2>2 DEF S, Global
<1> QED BY <1>8, <1>9, <1>10

(* The model's words for it.                                                  *)
LEMMA GlobalIsInherited ==
    ASSUME ObjsOK, NEW o \in Existing
    PROVE  IsRefGlobal(o) <=> Global(objs, o)
<1>1. Existing = LiveIn(objs) /\ o \in Objects
  BY DEF Existing, LiveIn
<1>2. Lineage(o) = Line(objs, o) \cap Existing
  BY <1>1 DEF Lineage, Line, ClosedIn
<1>3. o \in Lineage(o)
  BY <1>1, <1>2, LineIsClosed DEF ObjsOK
<1>4. IsRefGlobal(o) <=> \E p \in Lineage(o) : "global" \in objs[p].tags
  BY <1>3 DEF IsRefGlobal, ResolvedTags
<1> QED BY <1>1, <1>2, <1>4 DEF Global, Serves

LEMMA GlobalWasInherited ==
    ASSUME ObjsOK', NEW o \in Existing'
    PROVE  IsRefGlobal(o)' <=> Global(objs', o)
<1>1. Existing' = LiveIn(objs') /\ o \in Objects
  BY DEF Existing, LiveIn
<1>2. Lineage(o)' = Line(objs', o) \cap Existing'
  BY <1>1 DEF Lineage, Line, ClosedIn
<1>3. o \in Lineage(o)'
  BY <1>1, <1>2, LineIsClosed DEF ObjsOK
<1>4. IsRefGlobal(o)' <=> \E p \in Lineage(o)' : "global" \in objs'[p].tags
  BY <1>3 DEF IsRefGlobal, ResolvedTags
<1> QED BY <1>1, <1>2, <1>4 DEF Global, Serves

(* What a step owes an object p that it changes: if p served globally it does *)
(* so with a tag of its own and the same data, and if it did not it has no    *)
(* such tag now.                                                              *)
Tame(p) ==
    /\ p \in Existing /\ IsRefGlobal(p) =>
          p \in Existing' /\ "global" \in objs'[p].tags /\ objs'[p].data = objs[p].data
    /\ p \in Existing' /\ "global" \in objs'[p].tags => p \in Existing /\ IsRefGlobal(p)

LEMMA TameChanges ==
    ASSUME ObjsOK, ObjsOK', NEW K \in SUBSET Objects,
           \A p \in Objects \ K : objs'[p] = objs[p],
           \A p \in K : Tame(p)
    PROVE  GlobalStep
<1>1. Existing = LiveIn(objs) /\ Existing' = LiveIn(objs') /\ Existing \subseteq Objects /\ Existing' \subseteq Objects
  BY DEF Existing, LiveIn
<1>2. objs \in [Objects -> Record \cup {Unborn, Gone}] /\ objs' \in [Objects -> Record \cup {Unborn, Gone}]
  BY DEF ObjsOK
<1>3. ASSUME NEW o \in Existing, IsRefGlobal(o)
      PROVE  o \in Existing' /\ IsRefGlobal(o)' /\ objs'[o].data = objs[o].data
  <2>1. o \in Existing' /\ objs'[o].data = objs[o].data
    <3>1. CASE o \in K
      BY <1>3, <3>1 DEF Tame
    <3>2. CASE o \notin K
      BY <1>1, <1>3, <3>2 DEF Existing
    <3> QED BY <3>1, <3>2
  <2>2. \A p \in K \cap LiveIn(objs) : Global(objs, p) => Serves(objs', p)
    BY <1>1, GlobalIsInherited DEF Tame, Serves
  <2>3. Global(objs, o)
    BY <1>3, GlobalIsInherited
  <2>4. Global(objs', o)
    BY <1>1, <1>2, <2>2, <2>3, LinesKeepServing
  <2> QED BY <2>1, <2>4, GlobalWasInherited
<1>4. ASSUME NEW o \in Existing', "global" \in objs'[o].tags PROVE o \in Existing /\ IsRefGlobal(o)
  <2>1. CASE o \in K
    BY <1>4, <2>1 DEF Tame
  <2>2. CASE o \notin K
    BY <1>1, <1>4, <2>2 DEF Existing, IsRefGlobal, ResolvedTags
  <2> QED BY <2>1, <2>2
<1>5. ASSUME NEW o \in Existing', IsRefGlobal(o)', ~(o \in Existing /\ IsRefGlobal(o))
      PROVE  \E p \in Lineage(o)' \ {o} : p \in Existing /\ IsRefGlobal(p)
  <2>1. PICK p \in Lineage(o)' \cup {o} : "global" \in objs'[p].tags
    BY <1>5 DEF IsRefGlobal, ResolvedTags
  <2>2. p \in Existing'
    BY <2>1 DEF Lineage
  <2>3. p \in Existing /\ IsRefGlobal(p)
    BY <1>4, <2>1, <2>2
  <2> QED BY <1>5, <2>1, <2>3
<1> QED BY <1>3, <1>4, <1>5 DEF GlobalStep

(* The change of one object that did not serve.                               *)
LEMMA OneTameChange ==
    ASSUME ObjsOK, ObjsOK', NEW o \in Objects, NEW r, objs' = [objs EXCEPT ![o] = r],
           o \in Existing => ~IsRefGlobal(o),
           "global" \notin r.tags
    PROVE  GlobalStep
<1>1. \A p \in Objects \ {o} : objs'[p] = objs[p]
  BY DEF ObjsOK
<1>2. objs'[o] = r
  BY DEF ObjsOK
<1>3. Tame(o)
  BY <1>2 DEF Tame
<1>4. {o} \in SUBSET Objects /\ \A p \in {o} : Tame(p)
  BY <1>3
<1> QED BY <1>1, <1>4, TameChanges

LEMMA OwnTagsServe ==
    ASSUME NEW o, ~IsRefGlobal(o) PROVE "global" \notin objs[o].tags /\ "global" \notin ResolvedTags(o)
BY DEF IsRefGlobal, ResolvedTags

(* An instance that is detached serves if it did.                             *)
LEMMA DetachedIsTame ==
    ASSUME ObjsOK, NEW i \in Existing, objs'[i] = Detached(i) PROVE Tame(i)
<1>1. objs[i] \in Record /\ i \in Objects
  BY LiveTyped
<1>2. objs'[i].tags = ResolvedTags(i) /\ objs'[i].data = objs[i].data /\ objs'[i].owner = objs[i].owner
  BY <1>1 DEF Detached, Record
<1>3. i \in Existing'
  BY <1>1, <1>2, AuthorityAssumption DEF Existing, Record, Unborn, Gone
<1> QED BY <1>2, <1>3 DEF Tame, IsRefGlobal

(* A request touches what MayWrite let it, which is nothing that serves; what *)
(* it detaches on the way keeps serving.                                      *)
LEMMA RequestsAreTame ==
    ASSUME ObjsOK, ObjsOK', NEW a \in Accounts, ~HasScope(a, "admin"), Requests(a)
    PROVE  GlobalStep
<1>1. PICK o \in Existing :
        \/ WriteBatch(a, o) \/ SetLocation(a, o) \/ InkSave(a, o) \/ DetachObject(a, o)
        \/ \E t \in Tags : AddTag(a, o, t) \/ RemoveTag(a, o, t)
        \/ \E p \in Objects \cup {"none"} : SetArchetype(a, o, p)
        \/ \E c \in BOOLEAN : DeleteObject(a, o, c)
  BY DEF Requests
<1>2. o \in Objects /\ objs[o] \in Record /\ MayWrite(a, o)
  BY <1>1, LiveTyped DEF WriteBatch, SetLocation, InkSave, DetachObject, AddTag, RemoveTag, SetArchetype,
                         DeleteObject
<1>3. ~IsRefGlobal(o) /\ "global" \notin objs[o].tags /\ "global" \notin ResolvedTags(o)
  BY <1>2, OwnTagsServe DEF MayWrite
<1>4. CASE WriteBatch(a, o) \/ SetLocation(a, o) \/ InkSave(a, o)
  <2>1. objs' = [objs EXCEPT ![o] = Flipped(o)]
    BY <1>4 DEF WriteBatch, SetLocation, InkSave, Edit, Becomes
  <2>2. Flipped(o).tags = objs[o].tags
    BY <1>2 DEF Flipped, Record
  <2> QED BY <1>2, <1>3, <2>1, <2>2, OneTameChange
<1>5. CASE DetachObject(a, o)
  <2>1. objs' = [objs EXCEPT ![o] = Detached(o)]
    BY <1>5 DEF DetachObject, Becomes
  <2>2. Detached(o).tags = ResolvedTags(o)
    BY <1>2 DEF Detached, Record
  <2> QED BY <1>2, <1>3, <2>1, <2>2, OneTameChange
<1>6. ASSUME NEW t \in Tags, AddTag(a, o, t) \/ RemoveTag(a, o, t) PROVE GlobalStep
  <2>1. PICK T \in {objs[o].tags \cup {t}, objs[o].tags \ {t}} :
            objs' = [objs EXCEPT ![o] = [objs[o] EXCEPT !.tags = T]] /\ "global" \notin T
    <3>1. CASE AddTag(a, o, t)
      BY <1>2, <1>3, <3>1 DEF AddTag, Becomes, ObjsOK
    <3>2. CASE RemoveTag(a, o, t)
      BY <1>2, <1>3, <3>2 DEF RemoveTag, Becomes, ObjsOK
    <3> QED BY <1>6, <3>1, <3>2
  <2>2. [objs[o] EXCEPT !.tags = T].tags = T
    BY <1>2 DEF Record
  <2> QED BY <1>2, <1>3, <2>1, <2>2, OneTameChange
<1>7. ASSUME NEW p \in Objects \cup {"none"}, SetArchetype(a, o, p) PROVE GlobalStep
  <2>1. objs' = [objs EXCEPT ![o] = [objs[o] EXCEPT !.arch = p]]
    BY <1>2, <1>7 DEF SetArchetype, Becomes, ObjsOK
  <2>2. [objs[o] EXCEPT !.arch = p].tags = objs[o].tags
    BY <1>2 DEF Record
  <2> QED BY <1>2, <1>3, <2>1, <2>2, OneTameChange
<1>8. ASSUME NEW c \in BOOLEAN, DeleteObject(a, o, c) PROVE GlobalStep
  <2>1. objs' = [i \in Objects |-> IF i \in {o} \cup {} THEN Gone
                                   ELSE IF i \in Instances(o) THEN Detached(i) ELSE objs[i]]
    BY <1>8 DEF DeleteObject, Becomes, Destroyed
  <2> DEFINE K == {o} \cup Instances(o)
  <2>2. K \in SUBSET Objects /\ Instances(o) \subseteq Existing
    BY <1>2 DEF Instances, Existing
  <2>3. \A p \in Objects \ K : objs'[p] = objs[p]
    BY <2>1
  <2>4. Tame(o)
    <3>1. objs'[o] = Gone
      BY <1>2, <2>1
    <3> QED BY <1>3, <3>1 DEF Tame, Existing
  <2>5. ASSUME NEW i \in Instances(o), i # o PROVE Tame(i)
    <3>1. i \in Existing /\ i \in Objects
      BY <2>2, <2>5
    <3>2. objs'[i] = Detached(i)
      BY <2>1, <2>5, <3>1
    <3> QED BY <3>1, <3>2, DetachedIsTame
  <2>6. \A p \in K : Tame(p)
    BY <2>4, <2>5
  <2> QED BY <2>2, <2>3, <2>6, TameChanges
<1> QED BY <1>1, <1>4, <1>5, <1>6, <1>7, <1>8

(* What is new has no tags.                                                   *)
LEMMA MakesAreTame ==
    ASSUME ObjsOK, ObjsOK', NEW a \in Accounts, Makes(a) PROVE GlobalStep
<1>1. PICK o \in Objects :
        /\ objs[o] = Unborn
        /\ \/ CmdDig(a, o) \/ CmdOpen(a, o) \/ CmdCreate(a, o)
           \/ CreateRoom(a, o) \/ CreateObject(a, o) \/ CreateExit(a, o)
           \/ \E s \in Existing : \/ CmdClone(a, s, o)
                              \/ \E b \in Accounts \cup {"nobody"} : CloneObject(a, s, o, b)
  BY DEF Makes
<1>2. o \notin Existing
  BY <1>1 DEF Existing
<1>3. \A b : Fresh(b).tags = {}
  BY DEF Fresh
<1>4. \A s \in Existing : \A b : Copy(s, b).tags = {}
  <2>1. \A s \in Existing : objs[s] \in Record
    BY LiveTyped
  <2> QED BY <2>1 DEF Copy, Record
<1>5. PICK r : objs' = [objs EXCEPT ![o] = r] /\ r.tags = {}
  <2>1. CASE CmdDig(a, o) \/ CmdOpen(a, o) \/ CmdCreate(a, o)
    BY <1>3, <2>1 DEF CmdDig, CmdOpen, CmdCreate, Becomes
  <2>2. CASE CreateRoom(a, o) \/ CreateObject(a, o) \/ CreateExit(a, o)
    BY <1>3, <2>2 DEF CreateRoom, CreateObject, CreateExit, Becomes
  <2>3. ASSUME NEW s \in Existing, CmdClone(a, s, o) PROVE \E r : objs' = [objs EXCEPT ![o] = r] /\ r.tags = {}
    BY <1>4, <2>3 DEF CmdClone, Becomes
  <2>4. ASSUME NEW s \in Existing, NEW b, CloneObject(a, s, o, b)
        PROVE  \E r : objs' = [objs EXCEPT ![o] = r] /\ r.tags = {}
    BY <1>4, <2>4 DEF CloneObject, Becomes
  <2> QED BY <1>1, <2>1, <2>2, <2>3, <2>4
<1>6. "global" \notin r.tags
  BY <1>5
<1> QED BY <1>2, <1>5, <1>6, OneTameChange

(* Nothing else goes by the name of a request.                                *)
LEMMA OthersAreNoRequests ==
    ASSUME AuthorityNext, last'.via = "request"
    PROVE  \E a \in Accounts : a = last'.who /\ (Requests(a) \/ Makes(a))
<1>1. ASSUME NEW a \in Accounts, Requests(a) \/ Makes(a) PROVE last'.who = a
  BY <1>1 DEF Requests, WriteBatch, SetLocation, InkSave, DetachObject, AddTag, RemoveTag, SetArchetype,
              DeleteObject, Makes, CmdDig, CmdOpen, CmdCreate, CreateRoom, CreateObject, CreateExit, CmdClone,
              CloneObject, Edit, Becomes
<1>2. ASSUME NEW a \in Accounts, Edits(a) PROVE last'.via # "request"
  <2>1. ASSUME NEW new, Becomes(new, a, "command") PROVE last'.via = "command"
    BY <2>1 DEF Becomes
  <2>2. ASSUME NEW o, Edit(o, a, "command") PROVE last'.via = "command"
    BY <2>1, <2>2 DEF Edit
  <2>3. ASSUME NEW o, NEW mode, Opens(a, mode, o) PROVE last'.via = "command"
    BY <2>3 DEF Opens
  <2>4. ASSUME NEW o, NEW c, NEW full, CmdDestroy(a, o, c, full) PROVE last'.via = "command"
    BY <2>1, <2>4, Zenon DEF CmdDestroy
  <2>5. ASSUME NEW o, NEW p, CmdArchetype(a, o, p) PROVE last'.via = "command"
    BY <2>1, <2>5, Zenon DEF CmdArchetype
  <2>6. ASSUME NEW o, NEW t, CmdTag(a, o, t) \/ CmdUntag(a, o, t) \/ CmdChown(a, o, t) PROVE last'.via = "command"
    BY <2>1, <2>6, Zenon DEF CmdTag, CmdUntag, CmdChown
  <2>7. ASSUME NEW o,
               \/ CmdSet(a, o) \/ CmdLock(a, o) \/ CmdAlias(a, o) \/ CmdProgramLine(a, o) \/ CmdRmprogram(a, o)
               \/ CmdDescribe(a, o) \/ CmdName(a, o) \/ CmdUnlock(a, o) \/ CmdScriptInterval(a, o)
               \/ CmdDialogueClear(a, o)
        PROVE  last'.via = "command"
    BY <2>2, <2>7, Zenon DEF CmdSet, CmdLock, CmdAlias, CmdProgramLine, CmdRmprogram, CmdDescribe, CmdName,
                             CmdUnlock, CmdScriptInterval, CmdDialogueClear
  <2>8. ASSUME NEW o, CmdReload(a, o) PROVE last'.via = "reload"
    BY <2>8 DEF CmdReload, Edit, Becomes
  <2>9. "command" # "request" /\ "reload" # "request"
    OBVIOUS
  <2> QED BY <1>2, <2>3, <2>4, <2>5, <2>6, <2>7, <2>8, <2>9, Zenon DEF Edits, CmdProgram, CmdDialogueEdit
<1>3. ASSUME NEW a \in Accounts, Editors(a) PROVE last'.via # "request"
  BY <1>3 DEF Editors, CmdEval, Opens, ProgramEditorDone, InkEditorDone, EditorDone, EvalEditorDone, EditorAbort,
              Edit, Becomes
<1>4. ASSUME NEW a \in Accounts, Accounting(a) PROVE last'.via = "command"
  BY <1>4 DEF Accounting, Register, EnterWorld, Disconnect, CmdTokenCreate, CmdTokenRevoke, CmdGrant, CmdRevoke,
              Administers, Quiet
<1>5. ASSUME NEW a \in Accounts, ReloadWorld(a) PROVE last'.via = "files"
  <2>1. PICK new : Becomes(new, a, "files")
    BY <1>5, Zenon DEF ReloadWorld
  <2> QED BY <2>1 DEF Becomes
<1>6. ASSUME NEW o \in Existing, Script(o) PROVE last'.via = "script"
  BY <1>6 DEF Script, Edit, Becomes
<1>7. Elapse \/ SweepTokens \/ DoSave \/ Restarts => last'.via # "request"
  BY DEF Elapse, SweepTokens, DoSave, Restarts, ServerRestart, Quiet
<1> QED BY <1>1, <1>2, <1>3, <1>4, <1>5, <1>6, <1>7 DEF AuthorityNext, Restarts

(* No builder's request takes anything out of the global command surface or   *)
(* changes the data of anything in it, whatever inherits from whatever; what  *)
(* it brings in inherits from something that was there (the system:global     *)
(* guard, resolved_tags, detach_object).                                      *)
THEOREM GlobalObjectsHeld == AuthoritySpec => GlobalHeld
<1>1. AuthorityInit /\ [][AuthorityNext]_authorityVars => []WorldOK
  BY WorldInit, WorldStep, PTL
<1>2. WorldOK /\ WorldOK' /\ [AuthorityNext]_authorityVars => [GlobalStep]_authorityVars
  <2> SUFFICES ASSUME ObjsOK, ObjsOK', AuthorityNext PROVE GlobalStep
    BY DEF WorldOK
  <2>1. CASE last'.via = "request" /\ ~HasScope(last'.who, "admin")
    BY <2>1, OthersAreNoRequests, RequestsAreTame, MakesAreTame
  <2> QED BY <2>1 DEF GlobalStep
<1> QED BY <1>1, <1>2, PTL DEF AuthoritySpec, GlobalHeld
=============================================================================
