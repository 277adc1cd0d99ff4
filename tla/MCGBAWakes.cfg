CONSTANTS
    Bits <- VBlankTimer
    LowByte <- VBlankTimer
    Channels <- OneChannel
    AddressRange = 64
    HalfRange = 16
    NarrowRange = 32
    WideRange = 64
    NarrowCount = 2
    WideCount = 4
    DMA0SAD = 8
    FIFO_A = 0
    FIFO_B = 4
    GuestSources <- Nothing
    GuestDests <- Nothing
    GuestCounts <- Nothing
    GuestControls <- SomeControls
    CYCLES_PER_VISIBLE = 1
    CYCLES_PER_HBLANK = 1
    VISIBLE_LINES = 1
    VBLANK_LINES = 2
    VCountRange = 8
    MaxTicks = 1
    GuestVCounts <- Nothing
    GuestSettings <- Zero
    GuestBits <- VBlankOn
    MinTicks = 1
SPECIFICATION FairSpec
PROPERTY HaltedWakes
PROPERTY InterruptServed
PROPERTY RenderedForEver
