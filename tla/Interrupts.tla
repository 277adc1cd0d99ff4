---------------------------- MODULE Interrupts ----------------------------
(***************************************************************************)
(* The interrupt registers IE, IF, IME, HALTCNT and WAITCNT of             *)
(* arm7tdmi/ir_io_registers.cpp, the request channel of arm7tdmi/cpu.hpp   *)
(* and the part of CPU::Execute that looks at them.                        *)
(*                                                                         *)
(* A 16-bit register is the set of its bits that are 1.  The registers are *)
(* one record and the handlers are operators from record to record, so     *)
(* that GBA.tla can chain the calls of one step of the main loop.          *)
(***************************************************************************)
EXTENDS Naturals

CONSTANTS
    Bits,        \* the bit positions of a register, one per interrupt line
    LowByte      \* those of its lower byte

ASSUME LanesAssumption == LowByte \subseteq Bits

VARIABLES
    irq,         \* the registers and flags of IRIORegisters
    irqDisable,  \* CPSR.irqDisable
    haltMatch,   \* history: IE & IF was nonzero when HALTCNT was last written
    across       \* history: the last step stored across the end of IE

vars == <<irq, irqDisable, haltMatch, across>>

HighByte == Bits \ LowByte
Half     == Bits
Lanes    == {Half, LowByte, HighByte}   \* what one store can reach

Registers == [ie : SUBSET Bits, irf : SUBSET Bits, ime : SUBSET Bits,
              interruptReady : BOOLEAN, halt : BOOLEAN]

Match(s) == s.ie \cap s.irf

\* The fields of IRIORegisters when the emulator starts.
PowerOn == [ie |-> {}, irf |-> {}, ime |-> {},
            interruptReady |-> FALSE, halt |-> FALSE]
-----------------------------------------------------------------------------
(* Mutants: plausible mistakes in the handlers below.                      *)
UpdateIgnoresMaster(s) ==
    [s EXCEPT !.halt = @ /\ Match(s) = {}, !.interruptReady = Match(s) # {}]
UpdateWakesOnReady(s) ==
    [s EXCEPT !.halt = @ /\ (Match(s) = {} \/ s.ime = {}),
              !.interruptReady = s.ime # {} /\ Match(s) # {}]
UpdateLatchesReady(s) ==
    [s EXCEPT !.halt = @ /\ Match(s) = {},
              !.interruptReady = @ \/ (s.ime # {} /\ Match(s) # {})]
-----------------------------------------------------------------------------
(* WriteToSize into a register: the bits of the lane take the value's.     *)
StoreTo(register, lane, value) == (register \ lane) \cup (value \cap lane)

InterruptUpdate(s) ==
    [s EXCEPT !.halt = @ /\ Match(s) = {},
              !.interruptReady = s.ime # {} /\ Match(s) # {}]

WriteIE(s, lane, value) ==
    InterruptUpdate([s EXCEPT !.ie = StoreTo(@, lane, value)])

WriteIME(s, lane, value) ==
    InterruptUpdate([s EXCEPT !.ime = StoreTo(@, lane, value)])

WriteIFByOverwriting(s, lane, value) ==
    InterruptUpdate([s EXCEPT !.irf = StoreTo(@, lane, value)])

\* A store by the program acknowledges: the 1 bits of the value are cleared.
WriteIF(s, lane, value) ==
    InterruptUpdate([s EXCEPT !.irf = StoreTo(@, lane, @ \ value)])

\* IORegisters::Write splits a word at IE into IE, then IF; InterruptUpdate
\* runs after each half.
WriteIEandIF(s, ieValue, ifValue) ==
    WriteIF(WriteIE(s, Half, ieValue), Half, ifValue)

\* A halfword at IE + 1 is neither at IF nor at IF + 1: it is no acknowledgement
\* and leaves IF's lower byte as it is written.
WriteAcrossIE(s, ieValue, ifValue) ==
    InterruptUpdate([s EXCEPT !.ie = StoreTo(@, HighByte, ieValue),
                              !.irf = StoreTo(@, LowByte, ifValue)])

\* WAITCNT and the bytes up to IME are inside IN_RANGE(address, IE, IME + 2):
\* the flags are computed again.
WriteWAITCNT(s) == InterruptUpdate(s)

\* HALTCNT is outside that range: halt is set whatever is pending.
WriteHALTCNT(s) == [s EXCEPT !.halt = TRUE]

\* CPU::RequestInterrupt: read IF, set the bit, write it back with FREE.
RequestInterrupt(s, i) ==
    InterruptUpdate([s EXCEPT !.irf = StoreTo(@, Half, @ \cup {i})])
-----------------------------------------------------------------------------
(* What one store into this range of addresses may do to the registers.    *)
(* Block transfers and channels store at every address, so a halfword may  *)
(* be at an odd one: at IF + 1 it acknowledges IF's upper byte, at         *)
(* WAITCNT + 1 it is one more WriteWAITCNT, at IME - 1 and IME + 1 it      *)
(* reaches one byte of IME.  HALTCNT is left to Halt and OtherHalt.        *)
StoreInPlace ==
    \/ \E lane \in Lanes, value \in SUBSET Bits :
          \/ irq' = WriteIE(irq, lane, value)
          \/ irq' = WriteIF(irq, lane, value)
          \/ irq' = WriteIME(irq, lane, value)
    \/ \E v, w \in SUBSET Bits : irq' = WriteIEandIF(irq, v, w)
    \/ irq' = WriteWAITCNT(irq)

\* A halfword at IE + 1, or a word, whose other half is at IF + 1.
StoreAcross ==
    \E v, x \in SUBSET HighByte, w \in SUBSET LowByte :
        \/ irq' = WriteAcrossIE(irq, v, w)
        \/ irq' = WriteIF(WriteAcrossIE(irq, v, w), HighByte, x)

Store == StoreInPlace \/ StoreAcross

Init == /\ irq = PowerOn
        /\ irqDisable \in BOOLEAN      \* CPSR is not initialised
        /\ haltMatch = FALSE
        /\ across = FALSE

\* CPU::Execute goes on to an instruction only past both early returns.
HandlesInterrupt(s, disabled) == s.interruptReady /\ ~disabled
Runs == ~irq.halt /\ ~HandlesInterrupt(irq, irqDisable)

\* A store as the history sees it.
RecordedStore == /\ \/ StoreInPlace /\ across' = FALSE
                    \/ StoreAcross /\ across' = TRUE
                 /\ UNCHANGED <<irqDisable, haltMatch>>

\* An instruction stores into IE, IF, IME or WAITCNT.
CpuStore == Runs /\ RecordedStore

\* A store with no look at the flags before it: a DMA channel's, or the
\* second and later words of a block transfer.
OtherStore == RecordedStore

PutToSleep == /\ irq' = WriteHALTCNT(irq)
              /\ haltMatch' = (Match(irq) # {})
              /\ across' = FALSE
              /\ UNCHANGED irqDisable

\* An instruction writes at HALTCNT; a block transfer that does is too short
\* to have stored into IE, IF or IME before.
Halt == Runs /\ PutToSleep

\* A channel stores a halfword or word at HALTCNT, an odd address.
OtherHalt == PutToSleep

\* An instruction changes CPSR.I: MSR, SWI, an exception return.
SetIrqDisable == /\ Runs
                 /\ irqDisable' \in BOOLEAN
                 /\ across' = FALSE
                 /\ UNCHANGED <<irq, haltMatch>>

\* CPU::HandleInterruptRequests
TakeInterrupt == /\ ~irq.halt
                 /\ HandlesInterrupt(irq, irqDisable)
                 /\ irqDisable' = TRUE
                 /\ across' = FALSE
                 /\ UNCHANGED <<irq, haltMatch>>

\* The PPU or a timer requests an interrupt.
Request(i) == /\ irq' = RequestInterrupt(irq, i)
              /\ across' = FALSE
              /\ UNCHANGED <<irqDisable, haltMatch>>

Next == \/ CpuStore
        \/ OtherStore
        \/ Halt
        \/ OtherHalt
        \/ SetIrqDisable
        \/ TakeInterrupt
        \/ \E i \in Bits : Request(i)

Spec == Init /\ [][Next]_vars
-----------------------------------------------------------------------------
(* The registers hold bits that exist and the flags are truth values.      *)
TypeOK == /\ irq \in Registers
          /\ irqDisable \in BOOLEAN
          /\ haltMatch \in BOOLEAN
          /\ across \in BOOLEAN

(* interruptReady is a cached value, recomputed by whoever writes a        *)
(* register.  No store, acknowledgement or request, in any order, leaves   *)
(* it stale: CPU::Execute reads it in place of the three registers.        *)
InterruptReadyExact ==
    irq.interruptReady <=> (irq.ime # {} /\ Match(irq) # {})

(* A processor asleep on an enabled, outstanding request is always one     *)
(* that went to sleep on it: HALTCNT does not look at IE & IF, and nothing *)
(* that happens later can be missed.  A request that arrives while it      *)
(* sleeps wakes it in the same step.                                       *)
SleepsOnlyOnOldMatch == irq.halt /\ Match(irq) # {} => haltMatch

(* A step that makes an enabled request outstanding leaves the processor   *)
(* awake, with IME off as well as on.                                      *)
NewMatchWakes ==
    [][Match(irq) = {} /\ Match(irq') # {} => ~irq'.halt]_vars

(* The registers and the processor's look at them implement the abstract   *)
(* interrupt controller: the sets are the registers, the master switch is  *)
(* any bit of IME, and the cached flag disappears.  A store makes requests *)
(* only across the end of IE, and then only of IF's lower byte.            *)
Controller == INSTANCE InterruptController WITH
    Exposed <- LowByte,
    enabled <- irq.ie, pending <- irq.irf, master <- (irq.ime # {}),
    asleep <- irq.halt, masked <- irqDisable, overwritten <- across

ImplementsController == Controller!Spec
=============================================================================
