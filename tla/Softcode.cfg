SPECIFICATION Spec
CONSTANTS
    AttrKeys <- Keys
    MaxContainerDepth = 3
    ArchetypeDepth = 2
    Start <- MCStart
    FirstId = 11
    Repertoires <- MCRepertoires
    This = 4
    Actor = 2
    MapFiles <- MCMapFiles
    Palette <- MCPalette
    Dungeons <- MCDungeons
    Seed <- MCSeed
    LibNames = {"first", "second"}
    Texts = {1, 2, 3, 4, 5}
    Needs <- MCNeeds
    ShippedVersions <- MCShipped
    MaxCalls = 3
    MaxRuns = 2
    MaxLevel = 2
    MaxStory = 3
INVARIANTS ReadsSeeOwnWrites HandedOutOnce PlacesHangTogether
PROPERTIES TransfersConserve StoryKept ModulesFollow
CHECK_DEADLOCK FALSE
