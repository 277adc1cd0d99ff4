CONSTANTS
    Modes <- NestedModes
    BankedRegs <- R14
    FiqRegs <- NoRegs
    Values <- One
    Zero = 0
    PowerOnStatus <- AllPowerOn
    GuestStatus <- NestedStatus
    NoStatus = NoStatus
SPECIFICATION Spec
INVARIANT SavedStatusKept
CHECK_DEADLOCK FALSE
