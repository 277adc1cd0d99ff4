CONSTANTS
    BUFFER_SIZE = 4
    Numbers = 4
    Channels <- MCChannels
    AddressRange = 16
    HalfRange = 16
    NarrowRange = 16
    WideRange = 16
    NarrowCount = 2
    WideCount = 2
    DMA0SAD = 100
    FIFO_A = 8
    FIFO_B = 12
    GuestSources <- FromZero
    GuestDests <- ToFifo
    GuestCounts <- NoCounts
    GuestControls <- MCControls
    Fifos <- Fed
    FIFO_SIZE = 32
    MaxLate = 17
SPECIFICATION SpecEnd
INVARIANTS CountInBounds InOrder SidesKept NothingDropped DryOnlyWhenLate
PROPERTIES ChunksWhole QueuePlayed
