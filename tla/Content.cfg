SPECIFICATION Spec
CONSTANTS
    AreaOrder <- MCAreaOrder
    Versions <- MCVersions
    Start <- MCStart
    ProgFiles <- MCProgFiles
    Texts <- MCTexts
    CmdTexts = {"t2"}
    Bundles <- MCBundles
    Revisions <- MCRevisions
    SpawnKey <- Square
    LockedAreas = {"wild"}
    LoadFiles = TRUE
    HandMade = {"item"}
    HandWritten <- MCHandWritten
    HandLinked = {"exit"}
    ExportHops = 4
    ArchetypeDepth = 4
    MaxRef = 6
    MaxEdits = 1
    MaxWork = 1
INVARIANTS WorldKeyed HashesTellTruth ImportSettles ExportRestores
PROPERTIES EditsSurvive
CHECK_DEADLOCK FALSE
