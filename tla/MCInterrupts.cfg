CONSTANTS
    Bits <- MCBits
    LowByte <- MCLowByte
    LastTimer = 2
    MaxCount = 3
    Prescaler <- Divisors
    InitTicksLeft = 3
    MaxTicks = 2
    Controls <- TimerControls
    Reloads <- TimerReloads
SPECIFICATION MCSpec
INVARIANT InterruptReadyExact
INVARIANT SleepsOnlyOnOldMatch
INVARIANT BatchIndependent
PROPERTY ImplementsController
PROPERTY OverflowsOnTime
