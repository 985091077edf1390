SPECIFICATION Spec
CONSTANTS
    Refs = {ann, x, y, z}
    Players = {ann}
    Movable = {x, y, z}
    Traits = {t1}
    OwnerQuota = 1
    MaxContainerDepth = 2
    MaxArchetypeDepth = 3
    None = none
    Gone = gone
SYMMETRY Symmetry
CHECK_DEADLOCK FALSE
INVARIANT NoCircles
PROPERTIES
    CascadeKeepsBehaviour
    OthersUntouched
    OwnQuota
