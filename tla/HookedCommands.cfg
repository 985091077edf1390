SPECIFICATION CSpec
CONSTANTS
    hero = hero
    bag = bag
    box = box
    hall = hall
    cave = cave
    None = none
    Gone = gone
    Players <- MCPlayers
    Refs <- MCRefs
    Rooms <- MCRooms
    Items <- MCItems
    Containers <- MCItems
    Archetypes <- MCArchetypes
    Doomed <- MCDoomed
    Reached <- MCReached
    Followers <- MCFollowers
    Exits <- MCExits
    Start <- MCStart
    Movable <- MCMovable
    Traits = {}
    OwnerQuota = 1
    MaxContainerDepth = 1
    MaxArchetypeDepth = 2
    Capacity = 1
    MaxCalls = 2
CHECK_DEADLOCK FALSE
PROPERTIES
    CircleTakesMeddling
    PutFits
    PanicTakesMeddling
    DestroyTakesMeddling
