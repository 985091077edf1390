-------------------------- MODULE MCHookedCommands --------------------------
(* A small instance of HookedCommands for TLC: two rooms, a player, a bag and *)
(* a box that are containers; the box follows the player, and one exit leads  *)
(* into the bag.                                                              *)
EXTENDS HookedCommands, TLC

CONSTANTS hero, bag, box, hall, cave

MCPlayers == {hero}
MCRooms == {hall, cave}
MCItems == {bag, box}
MCArchetypes == {bag}
MCDoomed == {box, cave}
MCReached == {hero, box, hall, cave}
MCRefs == MCPlayers \cup MCRooms \cup MCItems
MCFollowers == hero :> {box}
MCExits == {<<hall, cave>>, <<hall, bag>>, <<bag, hall>>}
MCMovable == MCPlayers \cup MCItems
MCStart == [r \in MCRefs |-> IF r \in MCRooms THEN None ELSE IF r = bag THEN hero ELSE hall]
=============================================================================
