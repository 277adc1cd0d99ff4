CONSTANTS
    Channels <- TwoChannels
    AddressRange = 64
    HalfRange = 16
    NarrowRange = 32
    WideRange = 64
    NarrowCount = 2
    WideCount = 4
    DMA0SAD = 8
    FIFO_A = 0
    FIFO_B = 4
    GuestSources <- TurnSources
    GuestDests <- TurnDests
    GuestCounts <- TurnCounts
    GuestControls <- TurnControls
SPECIFICATION FairSpec
PROPERTY BusReturned
