CONSTANTS
    Windows <- MCWindows
    GuestWords <- MCWords
    Keys <- MCKeys
    ChipSize = "Double"
    Addresses <- ChipAddresses
    SectorSize = 4096
    GuestStores <- ChipStores
    GuestData <- ChipData
    ByteValues = 4
    Top = 16
    Contents <- SomeContents
    Registers = {1, 13, 14}
    Stack = 13
    Values = {27}
    Bases = {5, 12}
    Offsets = {0, 3}
    MaxFrames = 2
SPECIFICATION MCSpec
INVARIANT AccessTimes
INVARIANT LoadsExact
INVARIANT StackHolds
PROPERTY ImplementsAddressSpace
PROPERTY ImplementsBackup
CHECK_DEADLOCK FALSE
