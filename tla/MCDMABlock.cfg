CONSTANTS
    Channels <- OneChannel
    AddressRange = 64
    HalfRange = 16
    NarrowRange = 32
    WideRange = 64
    NarrowCount = 2
    WideCount = 4
    DMA0SAD = 8
    FIFO_A = 0
    FIFO_B = 4
    GuestSources <- BlockSources
    GuestDests <- BlockDests
    GuestCounts <- BlockCounts
    GuestControls <- BlockControls
SPECIFICATION Spec
INVARIANT FlagCoversActive
INVARIANT BlockExact
INVARIANT PausedOutsidePeriod
INVARIANT ImmediateRuns
