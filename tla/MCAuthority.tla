---------------------------- MODULE MCAuthority ----------------------------
(* A hall and the door that leaves it, as small an instance as has a room, an *)
(* exit, an archetype and its instance.                                       *)
EXTENDS Authority, TLC

CONSTANTS hall, door
DoorInHall == [o \in {door} |-> hall]

Symmetry == Permutations(Accounts)

(* No action reads `last`. *)
State == <<objs, scopes, savedScopes, tokens, savedTokens, worldSaved, editor, edits>>
=============================================================================
