SPECIFICATION Spec
CONSTANTS
    AreaOrder <- MCAreaOrder
    Versions <- StaleVersions
    Start <- StaleStart
    ProgFiles <- MCProgFiles
    Texts <- MCTexts
    CmdTexts = {"t2"}
    Bundles = {}
    Revisions <- StaleRevisions
    SpawnKey <- Square
    LockedAreas = {"wild"}
    LoadFiles = TRUE
    HandMade = {"item"}
    HandWritten <- MCHandWritten
    HandLinked = {}
    ExportHops = 4
    ArchetypeDepth = 4
    MaxRef = 5
    MaxEdits = 0
    MaxWork = 0
PROPERTY SafeToRerun
CHECK_DEADLOCK FALSE
