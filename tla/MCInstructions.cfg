CONSTANTS
    Banks <- SomeBanks
    Offsets <- SomeOffsets
    Targets <- SomeTargets
    GuestStatus <- Enabling
    Callers = {"SYS"}
    Top = 12
    Lost = Lost
    Unknown = Unknown
    WordBits = 3
    Operands <- SomeOperands
    Amounts <- SomeAmounts
    Restored <- AllOrNone
    MaxWords = 2
SPECIFICATION MCSpec
INVARIANT FetchedAhead
INVARIANT LongArithmetic
INVARIANT ConditionsDecide
INVARIANT ShiftsExact
PROPERTY ImplementsProgramOrder
CHECK_DEADLOCK FALSE
