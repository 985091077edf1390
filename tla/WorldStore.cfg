SPECIFICATION Spec
CONSTANTS
    MaxRef = 2
    Data = {d1, d2}
    Legacy = {}
    LegacyData = legacyData
    SavesMayFail = TRUE
    Absent = absent
    Nowhere = nowhere
SYMMETRY DataSymmetry
INVARIANTS
    IndexAgrees
    NextRefFree
PROPERTY
    ImplementsCheckpoint
