CONSTANTS
    CYCLES_PER_VISIBLE = 3
    CYCLES_PER_HBLANK = 1
    VISIBLE_LINES = 3
    VBLANK_LINES = 3
    VCountRange = 8
    MaxTicks = 2
    GuestVCounts <- SomeVCounts
    GuestSettings <- Settings
    GuestBits <- SomeBits
    TILE = 2
    OAM_ENTRIES = 3
    SCREEN_WIDTH = 8
    SCREEN_HEIGHT = 3
    MAX_SPRITE_X = 12
    MAX_SPRITE_Y = 4
    FLOAT_SCALE = 4
    TileRow = 8
    GuestObjects <- SomeObjects
    ColourZero <- SomeColourZero
    Picture <- SomePicture
    GuestDisplays <- SomeDisplays
    GuestPriorities <- SomePriorities
    GuestWindows <- SomeWindows
    GuestBlends <- SomeBlends
    ObjectFrames <- SomeFrames
    BG_ID = 2
    TILE_AREA = 2
    ROTSCALE_MAP = 2
    RefRange = 64
    MapEntry <- Entry
    GuestBgControls <- SomeControls
    GuestOffsets <- SomeOffsets
    GuestReferences <- SomeReferences
    GuestMatrices <- SomeMatrices
SPECIFICATION MCSpec
INVARIANT NoDrift
INVARIANT DrawnInOrder
INVARIANT FlagsExact
INVARIANT ObjectsOrdered
PROPERTY LayersOrdered
PROPERTY EffectsAimed
PROPERTY BackgroundsExact
