SPECIFICATION FairSpec
CONSTANTS
    Targets = {a, b}
    Hooks = {h}
    Owned = {a, b}
    Quota = 1
    Intervals <- EveryOtherTick
    MaxDelay = 2
    MaxTick = 2
    Period = 2
    TimerIds = {i1, i2, i3}
    MaxCrashes = 1
INVARIANTS
    TimersAccounted
    NeverEarly
PROPERTY
    HeartbeatSettles
