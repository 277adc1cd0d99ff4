CONSTANTS
    Modes <- FiqIrq
    BankedRegs <- R14
    FiqRegs <- R8
    Values <- Bit
    Zero = 0
    PowerOnStatus <- SomePowerOn
    GuestStatus <- FiqIrqStatus
    NoStatus = NoStatus
SPECIFICATION Spec
PROPERTY ImplementsBanks
CHECK_DEADLOCK FALSE
