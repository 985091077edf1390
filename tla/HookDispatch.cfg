SPECIFICATION DispatchSpec
CONSTANTS
    MaxTriggerDepth = 2
    MaxForceDepth = 1
    Many = 2
    MovesPerEvent = 1
    StackLimit = 12
INVARIANTS
    CountersMatchStack
    OnlyMovesPile
PROPERTY
    EventEnds
