\* The program may panic, and there is a last text.
CONSTANTS
    MMU_TABLE_ENTRIES = 6
    MMU_PAGE_SIZE = 4
    Free = Free
    Taken = Taken
    Tables <- MCTables
    Regions <- MCRegions
    Chars = {"i", "m", "w", "q"}
    Space = " "
    Advance <- MCAdvance
    Missing = {"q"}
    MaxWidth = 5
    Texts <- MCTexts
    Glyphs = {"i", "m", "w", "q", " "}
    max_cache_size = 3
    Unit = 2
    LineUnits = 5
    section_height = 3
    MaxAccesses = 4
SPECIFICATION TextSpec
CHECK_DEADLOCK FALSE
INVARIANTS
    TextTypeOK
    FontIsMapped
    WellWrapped
    TextIsDrawn
    CacheServes
PROPERTIES
    NothingClobbered
    ImplementsLru
