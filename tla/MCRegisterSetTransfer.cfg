CONSTANTS
    Modes <- FiqIrq
    BankedRegs <- R14
    FiqRegs <- NoRegs
    Values <- One
    Zero = 0
    PowerOnStatus <- SomePowerOn
    GuestStatus <- IrqStatus
    NoStatus = NoStatus
SPECIFICATION Spec
CHECK_DEADLOCK FALSE
PROPERTY UserTransferKeepsStatus
