SPECIFICATION Spec
CONSTANTS
    hall = hall
    ann = ann
    bob = bob
    lamp = lamp
    kind = kind
    spare = spare
    Refs = {hall, ann, bob, lamp, kind, spare}
    Players = {ann, bob}
    Homes = {hall, ann, bob}
    Commands = {"cmd_rub"}
    Sources <- MCSources
    Intervals = {1, 2}
    MaxArchetypeDepth = 3
    None = none
    NoList = noList
    Starts <- MCStarts
    Scripted = {hall, lamp, kind}
    MaxWrites = 2
    MaxState = 2
SYMMETRY Symmetry
INVARIANT ListsFollow
PROPERTIES StateKept DetachKeepsAnswers
