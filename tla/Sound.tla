-------------------------------- MODULE Sound --------------------------------
(***************************************************************************)
(* The sound FIFOs of the APU and the DMA channels that fill them.  In     *)
(* each pass of GBA::run a channel or the CPU acts; then every timer that  *)
(* has overflowed pops a sample of the FIFOs that follow it, and           *)
(* APU::FIFOUpdate asks the controller for more when a FIFO is half empty. *)
(* The handlers of the channels are those of DMA.tla.                      *)
(*                                                                         *)
(* A FIFO is modelled by how many samples it holds: Push drops what does   *)
(* not fit, Pop gives 0 when there are none.  A program is followed until  *)
(* a channel would move data to the registers of the DMA, and an           *)
(* instruction makes at most one store.                                    *)
(***************************************************************************)
EXTENDS Integers

CONSTANTS
    Channels, AddressRange, HalfRange, NarrowRange, WideRange, NarrowCount,
    WideCount, DMA0SAD, FIFO_A, FIFO_B, GuestSources, GuestDests, GuestCounts,
    GuestControls,
    Fifos,         \* the FIFOs in use, among 0 and 1
    FIFO_SIZE,     \* the capacity of one
    MaxLate        \* where the count of late overflows stops: at least half a FIFO

VARIABLES
    pass,         \* where GBA::run is: "act" or "timers"
    dma,          \* as in DMA
    fifo,         \* APU::fifo: the number of samples in each
    timerSelect,  \* SOUNDCNT_H: the timer each FIFO follows
    dropped,      \* history: the FIFOs that a sample was dropped at
    mixed,        \* history: the FIFOs that were sent samples by the CPU, by
                  \* an ordinary transfer or by two channels
    primed,       \* history: filled by the channel its control word armed
    late          \* history: overflows since that channel was last asked

soundVars == <<pass, dma, fifo, timerSelect, dropped, mixed, primed, late>>

\* The numbers of apu.hpp and memory/regions.hpp: a sound transfer brings
\* half a FIFO, and the halves of two FIFOs are four places in a row.
ASSUME SoundAssumption ==
    /\ Fifos \subseteq 0 .. 1
    /\ FIFO_SIZE = 2 * 16
    /\ FIFO_A \in Nat /\ FIFO_B = FIFO_A + 4
    /\ MaxLate \in Nat /\ MaxLate >= FIFO_SIZE \div 2

Dma == INSTANCE DMA WITH storing <- FALSE, ppuDue <- (pass = "timers"),
                         period <- "none", soundHit <- FALSE

ASSUME ChannelsAssumption == Dma!DMAAssumption

FifoAddress(i) == IF i = 0 THEN FIFO_A ELSE FIFO_B
Event(i)       == IF i = 0 THEN "FIFOA" ELSE "FIFOB"

\* The channels that an event of FIFO i starts.
Feeders(d, i) == Dma!Concerned(d, Event(i))

InitSound == /\ pass = "act"
             /\ dma = Dma!PowerOn
             /\ fifo = [i \in Fifos |-> 0]
             /\ timerSelect = [i \in Fifos |-> 0]
             /\ dropped = {}
             /\ mixed = {}
             /\ primed = {}
             /\ late = [i \in Fifos |-> 0]
-----------------------------------------------------------------------------
(* CircularQueue::Push, n times.                                           *)
Push(held, n) == IF held + n > FIFO_SIZE THEN FIFO_SIZE ELSE held + n

(* APU::Write: each half-word for a FIFO is two samples; a byte is, too.   *)
Brought(size) == IF size = 4 THEN 4 ELSE 2
Reaches(address, i) == address \in {FifoAddress(i), FifoAddress(i) + 2}

Arrive(i, n) == /\ fifo' = [fifo EXCEPT ![i] = Push(@, n)]
                /\ dropped' = IF fifo[i] + n > FIFO_SIZE THEN dropped \cup {i}
                                                         ELSE dropped

Shared(d) == {i \in Fifos : \E c, k \in Feeders(d, i) : c # k}

Mover == Dma!First(Dma!Active(dma))

(* GBA::run finds an active channel: Controller::Execute.                  *)
Moving == /\ pass = "act"
          /\ Dma!IsActive(dma)
          /\ ~Dma!OnRegisters(dma.channels[Mover].dest)
          /\ pass' = "timers"
          /\ dma' \in Dma!Execute(dma)
          /\ UNCHANGED timerSelect

IsSoundTransfer == dma.channels[Mover].cnt.timing = "SPECIAL"

\* Four words, at an address that does not move.
SoundTransfer(i) ==
    LET h == dma.channels[Mover]
    IN  /\ Moving
        /\ IsSoundTransfer
        /\ Reaches(h.dest, i)
        /\ Arrive(i, 4 * Brought(4))
        /\ primed' = primed \cup {i}
        /\ late' = [late EXCEPT ![i] = 0]
        /\ UNCHANGED mixed

OrdinaryTransfer(i) ==
    LET h == dma.channels[Mover]
    IN  /\ Moving
        /\ ~IsSoundTransfer
        /\ h.wordCount > 0
        /\ Reaches(h.dest, i)
        /\ Arrive(i, Brought(h.cnt.size))
        /\ mixed' = mixed \cup {i}
        /\ UNCHANGED <<primed, late>>

TransferElsewhere ==
    LET h == dma.channels[Mover]
    IN  /\ Moving
        /\ \/ \A i \in Fifos : ~Reaches(h.dest, i)
           \/ ~IsSoundTransfer /\ h.wordCount = 0
        /\ UNCHANGED <<fifo, dropped, mixed, primed, late>>

(* ... or none: CPU::Execute.                                              *)
Instruction == /\ pass = "act"
               /\ ~Dma!IsActive(dma)
               /\ pass' = "timers"

StoreNothing == /\ Instruction
                /\ dma' = [dma EXCEPT !.controllerActive = FALSE]
                /\ UNCHANGED <<fifo, timerSelect, dropped, mixed, primed, late>>

StoreDMA(c) ==
    LET d == [dma EXCEPT !.controllerActive = FALSE]
    IN  /\ Instruction
        /\ dma' \in Dma!Stores(d, c)
        /\ mixed' = mixed \cup Shared(dma')
        /\ primed' = {i \in primed : Feeders(dma', i) = Feeders(dma, i)}
        /\ UNCHANGED <<fifo, timerSelect, dropped, late>>

StoreFifo(i) == /\ Instruction
                /\ dma' = [dma EXCEPT !.controllerActive = FALSE]
                /\ \E size \in {1, 2, 4} : Arrive(i, Brought(size))
                /\ mixed' = mixed \cup {i}
                /\ UNCHANGED <<timerSelect, primed, late>>

StoreTimerSelect(i) == /\ Instruction
                       /\ dma' = [dma EXCEPT !.controllerActive = FALSE]
                       /\ timerSelect' = [timerSelect EXCEPT ![i] = 1 - @]
                       /\ UNCHANGED <<fifo, dropped, mixed, primed, late>>
-----------------------------------------------------------------------------
(* Timers::Update calls APU::FIFOUpdate once for each of the timers 0 and  *)
(* 1 that has overflowed, however often it did.                            *)

\* CircularQueue::Pop
Pop(held) == IF held = 0 THEN 0 ELSE held - 1

(* Mutants of Asks: a FIFO asks when it has run empty; when it has room.   *)
AsksWhenEmpty(held) == held = 0
AsksWithRoom(held)  == held < FIFO_SIZE
-----------------------------------------------------------------------------
Asks(held) == held <= FIFO_SIZE \div 2

FIFOUpdate(d, i, popping) ==
    IF i \in popping /\ Asks(Pop(fifo[i]))
    THEN Dma!EventCallback(d, Event(i), TRUE) ELSE d

Request(d, popping) == FIFOUpdate(FIFOUpdate(d, 0, popping), 1, popping)

TimersUpdate ==
    \E overflowed \in SUBSET {0, 1} :
        LET popping == {i \in Fifos : timerSelect[i] \in overflowed}
            waits(i) == \E c \in Feeders(dma, i) : dma.channels[c].active
        IN  /\ pass = "timers"
            /\ pass' = "act"
            /\ fifo' = [i \in Fifos |-> IF i \in popping THEN Pop(fifo[i]) ELSE fifo[i]]
            /\ dma' = Request(dma, popping)
            /\ late' = [i \in Fifos |->
                          IF i \notin popping \/ late[i] = MaxLate THEN late[i]
                          ELSE IF waits(i) THEN late[i] + 1
                          ELSE IF Asks(fifo'[i]) THEN 1 ELSE 0]
            /\ UNCHANGED <<timerSelect, dropped, mixed, primed>>
-----------------------------------------------------------------------------
NextSound == \/ \E i \in Fifos : SoundTransfer(i) \/ OrdinaryTransfer(i)
             \/ TransferElsewhere
             \/ StoreNothing
             \/ \E c \in Channels : StoreDMA(c)
             \/ \E i \in Fifos : StoreFifo(i) \/ StoreTimerSelect(i)
             \/ TimersUpdate

SoundSpec == InitSound /\ [][NextSound]_soundVars
-----------------------------------------------------------------------------
(* A FIFO that one channel feeds never drops a sample: the channel brings  *)
(* no more than there is room for, however late it gets the bus and        *)
(* whatever the program makes of its control words in between.             *)
NothingDropped == dropped \subseteq mixed

(* A FIFO whose channel has filled it once plays on: it runs dry only if   *)
(* the channel waits for the bus while half the FIFO is played.            *)
DryOnlyWhenLate ==
    \A i \in primed : Feeders(dma, i) # {} => fifo[i] + late[i] >= FIFO_SIZE \div 2
=============================================================================
