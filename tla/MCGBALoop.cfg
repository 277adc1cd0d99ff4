CONSTANTS
    Bits <- NoLines
    LowByte <- NoLines
    Channels <- OneChannel
    AddressRange = 64
    HalfRange = 16
    NarrowRange = 32
    WideRange = 64
    NarrowCount = 2
    WideCount = 4
    DMA0SAD = 8
    FIFO_A = 0
    FIFO_B = 4
    GuestSources <- Nothing
    GuestDests <- OwnRegisters
    GuestCounts <- One
    GuestControls <- AllControls
    CYCLES_PER_VISIBLE = 2
    CYCLES_PER_HBLANK = 1
    VISIBLE_LINES = 1
    VBLANK_LINES = 2
    VCountRange = 8
    MaxTicks = 1
    GuestVCounts <- EdgeLines
    GuestSettings <- Zero
    GuestBits <- NoBits
    MinTicks = 0
SPECIFICATION Spec
PROPERTY ImplementsDMA
