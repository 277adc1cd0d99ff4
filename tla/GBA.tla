-------------------------------- MODULE GBA --------------------------------
(***************************************************************************)
(* The main loop GBA::run and what it composes: each pass lets either the  *)
(* CPU or a DMA channel act, then gives the ticks that took to the display *)
(* and to the timers.  The handlers are those of Interrupts, DMA and PPU;  *)
(* this module adds who calls them and in which order, the callbacks wired *)
(* in the constructor, and CPU::Execute up to the choice of an instruction.*)
(*                                                                         *)
(* The timers and the sound FIFOs appear by what they call: any timer may  *)
(* request its interrupt and any FIFO its transfer in any pass.  A unit    *)
(* that a channel moves may land on the DMA registers, not on the others.  *)
(***************************************************************************)
EXTENDS Integers, Sequences

CONSTANTS
    Bits, LowByte,
    Channels, AddressRange, HalfRange, NarrowRange, WideRange, NarrowCount,
    WideCount, DMA0SAD, FIFO_A, FIFO_B, GuestSources, GuestDests, GuestCounts,
    GuestControls,
    CYCLES_PER_VISIBLE, CYCLES_PER_HBLANK, VISIBLE_LINES, VBLANK_LINES,
    VCountRange, MaxTicks, GuestVCounts, GuestSettings, GuestBits,
    MinTicks     \* the least ticks a pass takes: 0 before WAITCNT is written

ASSUME GBAAssumption == MinTicks \in 0 .. MaxTicks

VARIABLES
    phase,       \* where GBA::run is: "loop", "cpu", "instruction", "ppu", "timers"
    irq,         \* as in Interrupts
    irqDisable,  \* CPSR.irqDisable
    dma,         \* as in DMA
    ppu,         \* as in PPU
    soundHit     \* history, as in DMA

vars == <<phase, irq, irqDisable, dma, ppu, soundHit>>

Period == CASE ppu.state = "Visible" -> "none"
            [] ppu.state = "HBlank"  -> "HBLANK"
            [] ppu.state = "VBlank"  -> "VBLANK"

IRQ == INSTANCE Interrupts WITH haltMatch <- FALSE, across <- FALSE
Dma == INSTANCE DMA WITH storing <- (phase \in {"cpu", "instruction"}),
                         ppuDue <- (phase = "ppu"),
                         period <- Period
Ppu == INSTANCE PPU WITH frameTicks <- 0, lines <- << >>, touched <- FALSE,
                         clobbered <- {}

\* What the components assume of the constants they share with the loop.
ASSUME ComponentAssumptions ==
    /\ IRQ!LanesAssumption
    /\ Dma!DMAAssumption
    /\ Ppu!PPUAssumption
    /\ Ppu!PPUBatchAssumption

Init == /\ phase = "loop"
        /\ irq = IRQ!PowerOn
        /\ irqDisable \in BOOLEAN
        /\ dma = Dma!PowerOn
        /\ ppu = Ppu!PowerOn
        /\ soundHit = FALSE
-----------------------------------------------------------------------------
(* The first half of a pass: a channel or the CPU.                         *)

\* dma->IsActive() is false: CPU::Execute.
EnterCpu == /\ phase = "loop"
            /\ ~Dma!IsActive(dma)
            /\ phase' = "cpu"
            /\ dma' = [dma EXCEPT !.controllerActive = FALSE]
            /\ UNCHANGED <<irq, irqDisable, ppu, soundHit>>

(* Mutant of Transfer: the display gets no ticks for a unit.               *)
TransferWithoutDisplay ==
    LET h == dma.channels[Dma!First(Dma!Active(dma))]
    IN  /\ phase = "loop"
        /\ Dma!IsActive(dma)
        /\ dma' \in Dma!Execute(dma)
        /\ soundHit' = (soundHit \/ (h.cnt.timing = "SPECIAL"
                                       /\ Dma!OnRegisters(h.dest)))
        /\ UNCHANGED <<phase, irq, irqDisable, ppu>>
-----------------------------------------------------------------------------
Transfer ==
    LET h == dma.channels[Dma!First(Dma!Active(dma))]
    IN  /\ phase = "loop"
        /\ Dma!IsActive(dma)
        /\ dma' \in Dma!Execute(dma)
        /\ soundHit' = (soundHit \/ (h.cnt.timing = "SPECIAL"
                                       /\ Dma!OnRegisters(h.dest)))
        /\ phase' = "ppu"
        /\ UNCHANGED <<irq, irqDisable, ppu>>

\* CPU::Execute returns early, asleep, for one tick.
Sleep == /\ phase = "cpu"
         /\ irq.halt
         /\ phase' = "ppu"
         /\ UNCHANGED <<irq, irqDisable, dma, ppu, soundHit>>

(* Mutant of TakeInterrupt: the handler may be interrupted at once.        *)
TakeInterruptUnmasked ==
    /\ phase = "cpu"
    /\ ~irq.halt
    /\ IRQ!HandlesInterrupt(irq, irqDisable)
    /\ phase' = "ppu"
    /\ UNCHANGED <<irq, irqDisable, dma, ppu, soundHit>>
-----------------------------------------------------------------------------
\* CPU::Execute returns early, into the interrupt handler.
TakeInterrupt == /\ phase = "cpu"
                 /\ ~irq.halt
                 /\ IRQ!HandlesInterrupt(irq, irqDisable)
                 /\ irqDisable' = TRUE
                 /\ phase' = "ppu"
                 /\ UNCHANGED <<irq, dma, ppu, soundHit>>

\* Past both early returns, an instruction, which stores what it likes.
BeginInstruction == /\ phase = "cpu"
                    /\ IRQ!Runs
                    /\ phase' = "instruction"
                    /\ UNCHANGED <<irq, irqDisable, dma, ppu, soundHit>>

StoreInterrupts == /\ phase = "instruction"
                   /\ IRQ!Store \/ irq' = IRQ!WriteHALTCNT(irq)
                   /\ UNCHANGED <<phase, irqDisable, dma, ppu, soundHit>>

StoreDMA == /\ phase = "instruction"
            /\ \E c \in Channels : dma' \in Dma!Stores(dma, c)
            /\ UNCHANGED <<phase, irq, irqDisable, ppu, soundHit>>

StoreDisplay ==
    /\ phase = "instruction"
    /\ \/ \E bits \in GuestBits, setting \in GuestSettings :
             ppu' = Ppu!WriteDISPSTAT(ppu, bits, setting)
       \/ \E value \in GuestVCounts : ppu' = Ppu!WriteVCOUNT(ppu, value)
    /\ UNCHANGED <<phase, irq, irqDisable, dma, soundHit>>

SetIrqDisable == /\ phase = "instruction"
                 /\ irqDisable' \in BOOLEAN
                 /\ UNCHANGED <<phase, irq, dma, ppu, soundHit>>

EndInstruction == /\ phase = "instruction"
                  /\ phase' = "ppu"
                  /\ UNCHANGED <<irq, irqDisable, dma, ppu, soundHit>>
-----------------------------------------------------------------------------
(* The second half: the display, then the timers and the APU.              *)
Line == [HBlank |-> 1, VCounter |-> 2, VBlank |-> 0]

(* Mutants: a request that only sets its bit; callbacks that report only   *)
(* starts.                                                                 *)
RequestWithoutUpdate(s, irqs, name) ==
    IF name \in irqs THEN [s EXCEPT !.irf = @ \cup ({Line[name]} \cap Bits)] ELSE s

CallBackStartsOnly(d, calls) ==
    LET h == IF TRUE \in calls.hBlankCallback
             THEN Dma!EventCallback(d, "HBLANK", TRUE) ELSE d
    IN  IF TRUE \in calls.vBlankCallback
        THEN Dma!EventCallback(h, "VBLANK", TRUE) ELSE h
-----------------------------------------------------------------------------
Request(s, irqs, name) ==
    IF name \in irqs THEN IRQ!RequestInterrupt(s, Line[name]) ELSE s

\* irqChannel is the CPU; a transition requests at most VCounter, then VBlank.
RequestAll(s, irqs) ==
    Request(Request(Request(s, irqs, "HBlank"), irqs, "VCounter"), irqs, "VBlank")

\* The display's callbacks are bound to EventCallback.
CallBack(d, calls) ==
    LET h == IF calls.hBlankCallback = {} THEN d
             ELSE Dma!EventCallback(d, "HBLANK", TRUE \in calls.hBlankCallback)
    IN  IF calls.vBlankCallback = {} THEN h
        ELSE Dma!EventCallback(h, "VBLANK", TRUE \in calls.vBlankCallback)

\* ticks = sysClock->SinceLastCheck(); ppu->Execute(ticks)
PPUExecute ==
    /\ phase = "ppu"
    /\ \E ticks \in MinTicks .. MaxTicks : ppu' = Ppu!ExecutePPU(ppu, ticks)
    /\ irq' = RequestAll(irq, ppu'.calls.irqs)
    /\ dma' = CallBack(dma, ppu'.calls)
    /\ phase' = "timers"
    /\ UNCHANGED <<irqDisable, soundHit>>

TimerRequests(i) == /\ phase = "timers"
                    /\ irq' = IRQ!RequestInterrupt(irq, i)
                    /\ UNCHANGED <<phase, irqDisable, dma, ppu, soundHit>>

FifoRequests(event) == /\ phase = "timers"
                       /\ dma' = Dma!EventCallback(dma, event, TRUE)
                       /\ UNCHANGED <<phase, irq, irqDisable, ppu, soundHit>>

\* timers->Update(ticks) and apu->Tick(ticks) return.
EndPass == /\ phase = "timers"
           /\ phase' = "loop"
           /\ UNCHANGED <<irq, irqDisable, dma, ppu, soundHit>>

-----------------------------------------------------------------------------
Loop == \/ EnterCpu
        \/ Transfer
        \/ Sleep
        \/ TakeInterrupt
        \/ BeginInstruction
        \/ EndInstruction
        \/ PPUExecute
        \/ EndPass

Next == \/ Loop
        \/ StoreInterrupts
        \/ StoreDMA
        \/ StoreDisplay
        \/ SetIrqDisable
        \/ \E i \in Bits \ {Line[name] : name \in DOMAIN Line} : TimerRequests(i)
        \/ \E event \in DOMAIN Dma!FifoAddress : FifoRequests(event)

Spec == Init /\ [][Next]_vars

\* One thread runs the loop: an instruction ends and the devices return.
FairSpec == Spec /\ WF_vars(Loop)
-----------------------------------------------------------------------------
(* The variables keep the types of the components.                         *)
TypeOK == /\ phase \in {"loop", "cpu", "instruction", "ppu", "timers"}
          /\ irq \in IRQ!Registers
          /\ irqDisable \in BOOLEAN
          /\ dma \in Dma!DMAFields
          /\ ppu \in Ppu!Fields
          /\ soundHit \in BOOLEAN

(* The loop, the callbacks and the display together are an environment     *)
(* that DMA.tla allows: HBlank and VBlank are announced in turn, at most   *)
(* one period begins in a pass, no channel moves during an instruction and *)
(* no instruction begins while a channel is active.                        *)
ImplementsDMA == Dma!Spec

(* A processor that finds itself asleep with the VBlank interrupt enabled, *)
(* in IE and in DISPSTAT, wakes: neither the channels nor a request it     *)
(* slept on keep the display from requesting it again.                     *)
HaltedWakes ==
    (/\ phase = "cpu"
     /\ irq.halt
     /\ Line["VBlank"] \in irq.ie
     /\ "VBlankIRQEnable" \in ppu.dispstat) ~> ~irq.halt

(* An interrupt that is ready and not masked is taken: the channels give   *)
(* the bus back to the CPU.  Only the program can prevent it, when the     *)
(* instruction under way masks or acknowledges it, or writes HALTCNT,      *)
(* which puts the CPU to sleep whatever is ready.                          *)
InterruptServed ==
    irq.interruptReady /\ ~irqDisable
        ~> irqDisable \/ ~irq.interruptReady \/ irq.halt

(* The screen is rendered again and again, whatever the program and the    *)
(* channels do; the window's events, the one that ends the loop among      *)
(* them, are polled only there.                                            *)
RenderedForEver == []<>ppu.calls.render
=============================================================================
