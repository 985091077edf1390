--------------------------- MODULE CheckpointStore ---------------------------
(***************************************************************************)
(* What the design notes promise of persistence (docs/adr/0003): the world *)
(* lives in memory, a checkpoint copies it to disk, a restart copies it    *)
(* back, and nothing else touches the disk.                                *)
(***************************************************************************)
CONSTANTS
    Refs,   \* identities of objects
    Absent, \* no object under that identity
    Additions \* the objects a boot may add to the world

VARIABLES
    live,    \* the world in memory
    saved,   \* the world on disk
    skipped, \* identities the last checkpoints failed to copy
    claimed  \* identities somebody picked instead of being given them

Copied(s) == [r \in Refs |-> IF r \in s THEN saved[r] ELSE live[r]]

Init ==
    /\ live = [r \in Refs |-> Absent]
    /\ saved = [r \in Refs |-> Absent]
    /\ skipped = {}
    /\ claimed = {}

(* Play: the disk is not consulted and not written, and an identity is claimed *)
(* while it names nothing.                                                     *)
Change ==
    /\ claimed \subseteq claimed'
    /\ \A r \in claimed' \ claimed : live[r] = Absent
    /\ UNCHANGED <<saved, skipped>>

(* A checkpoint that succeeds skips nothing anew but identities that name no  *)
(* object any more.                                                           *)
TakeCheckpoint ==
    \E s \in SUBSET Refs :
        /\ \A r \in s \ skipped : live[r] = Absent
        /\ saved' = Copied(s)
        /\ skipped' = s
        /\ UNCHANGED <<live, claimed>>

(* A checkpoint that fails writes nothing. *)
CheckpointFails ==
    /\ \E s \in SUBSET Refs : skipped \subseteq s /\ Copied(s) = saved /\ skipped' = s
    /\ UNCHANGED <<live, saved, claimed>>

(* The world comes back as it was saved.  The boot may add objects to it, and *)
(* an addition replaces what was saved only under a claimed identity.         *)
Reload ==
    /\ \A r \in Refs : \/ live'[r] = saved[r]
                        \/ /\ live'[r] \in Additions
                           /\ saved[r] = Absent \/ r \in claimed
    /\ skipped' = {}
    /\ UNCHANGED <<saved, claimed>>

Next == Change \/ TakeCheckpoint \/ CheckpointFails \/ Reload

Spec == Init /\ [][Next]_<<live, saved, skipped, claimed>>
=============================================================================
