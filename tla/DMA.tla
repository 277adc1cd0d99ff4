-------------------------------- MODULE DMA --------------------------------
(***************************************************************************)
(* The DMA channels and their controller (dma/): how a store into CNT_H    *)
(* latches and starts a channel, how the display and the sound FIFOs start *)
(* and pause one, how the main loop moves one unit at a time for the       *)
(* lowest active channel, and what happens when a unit lands on the DMA    *)
(* registers themselves.  What the units hold is not modelled: a unit that *)
(* lands on a register stores some value of the program's choosing.        *)
(* Accesses are aligned.                                                   *)
(***************************************************************************)
EXTENDS Integers

CONSTANTS
    Channels,            \* the channels in use, among 0 .. 3
    AddressRange,        \* 2^32, the values of a U32 address
    HalfRange,           \* 2^16, the values of a U16 step
    NarrowRange, WideRange,    \* 2^27 and 2^28, what SAD and DAD keep
    NarrowCount, WideCount,    \* 2^14 and 2^16, what CNT_L keeps
    DMA0SAD, FIFO_A, FIFO_B,   \* addresses of registers
    GuestSources, GuestDests,  \* what the program stores into SAD and DAD,
    GuestCounts, GuestControls \* into CNT_L and into CNT_H

Timings  == {"IMMEDIATE", "VBLANK", "HBLANK", "SPECIAL"}
Controls == [enable : BOOLEAN, repeat : BOOLEAN, timing : Timings,
             size : {2, 4}, srcCtl : 0 .. 3, destCtl : 0 .. 3]

ASSUME DMAAssumption ==
    /\ Channels \subseteq 0 .. 3
    /\ {AddressRange, HalfRange, NarrowRange, WideRange, NarrowCount, WideCount}
          \subseteq Nat \ {0}
    /\ HalfRange > 4 /\ AddressRange % HalfRange = 0
    /\ {NarrowRange, WideRange} \subseteq 1 .. AddressRange
    /\ {DMA0SAD, FIFO_A, FIFO_B} \subseteq Nat
    /\ GuestSources \cup GuestDests \subseteq 0 .. AddressRange - 1
    /\ GuestCounts \subseteq Nat
    /\ GuestControls \subseteq Controls

VARIABLES
    dma,       \* the channels, their registers and controllerActive
    storing,   \* an instruction of the CPU is under way
    ppuDue,    \* the CPU or a channel has had its turn, the display has not
    period,    \* the display is in an "HBLANK" or a "VBLANK", or in neither
    soundHit   \* history: a sound transfer has landed on a DMA register

vars == <<dma, storing, ppuDue, period, soundHit>>

Off == [enable |-> FALSE, repeat |-> FALSE, timing |-> "IMMEDIATE",
        size |-> 2, srcCtl |-> 0, destCtl |-> 0]

\* from, to and length are history: the addresses and the word count when
\* this control word took effect or its block was last reloaded.  strayed:
\* a store has changed the timing of the channel since it last became
\* active, and it ran on.  The fields the code leaves uninitialised are not
\* read before CNT_H is written.
Idle == [active |-> FALSE, cnt |-> Off, srcStep |-> 2, destStep |-> 2,
         source |-> 0, dest |-> 0, wordCount |-> 0,
         from |-> 0, to |-> 0, length |-> 0, strayed |-> FALSE]

NoRegisters == [sad |-> 0, dad |-> 0, count |-> 0, control |-> Off]

PowerOn == [channels |-> [c \in Channels |-> Idle],
            registers |-> [c \in Channels |-> NoRegisters],
            controllerActive |-> FALSE]
-----------------------------------------------------------------------------
(* Channel: h is its fields, r its registers.                              *)
ReloadSAD(h, r, c) ==
    LET address == r.sad % (IF c = 0 THEN NarrowRange ELSE WideRange)
    IN  [h EXCEPT !.source = address, !.from = address]

ReloadDAD(h, r, c) ==
    LET address == r.dad % (IF c = 3 THEN WideRange ELSE NarrowRange)
    IN  [h EXCEPT !.dest = address, !.to = address]

ReloadWordCount(h, r, c) ==
    LET limit == IF c = 3 THEN WideCount ELSE NarrowCount
        count == IF r.count % limit = 0 THEN limit ELSE r.count % limit
    IN  [h EXCEPT !.wordCount = count, !.length = count]

\* A step is a U16: counting down adds 2^16 less the size.
TransferStep(ctl, size) == CASE ctl \in {0, 3} -> size
                             [] ctl = 1        -> HalfRange - size
                             [] ctl = 2        -> 0

\* The channel runs on, with the timing the store gave it.
Strayed(h, control) == /\ h.active
                       /\ control.enable
                       /\ h.strayed \/ control.timing # h.cnt.timing

Rebase(h) == [h EXCEPT !.from = h.source, !.to = h.dest, !.length = h.wordCount]

(* Mutants of UpdateDetails: steps of the size before this store; a store  *)
(* of 0 to the enable bit that leaves the channel running.                 *)
UpdateDetailsOldSize(h, r, c, control) ==
    LET g == [h EXCEPT !.cnt = control, !.active = @ /\ control.enable,
                       !.strayed = Strayed(h, control),
                       !.srcStep = TransferStep(control.srcCtl, h.cnt.size),
                       !.destStep = TransferStep(control.destCtl, h.cnt.size)]
    IN  IF control.enable /\ ~h.cnt.enable
        THEN ReloadWordCount(ReloadDAD(ReloadSAD(g, r, c), r, c), r, c)
        ELSE Rebase(g)

UpdateDetailsStillActive(h, r, c, control) ==
    LET g == [h EXCEPT !.cnt = control, !.strayed = Strayed(h, control),
                       !.srcStep = TransferStep(control.srcCtl, control.size),
                       !.destStep = TransferStep(control.destCtl, control.size)]
    IN  IF control.enable /\ ~h.cnt.enable
        THEN ReloadWordCount(ReloadDAD(ReloadSAD(g, r, c), r, c), r, c)
        ELSE Rebase(g)
-----------------------------------------------------------------------------
UpdateDetails(h, r, c, control) ==
    LET g == [h EXCEPT !.cnt = control, !.active = @ /\ control.enable,
                       !.strayed = Strayed(h, control),
                       !.srcStep = TransferStep(control.srcCtl, control.size),
                       !.destStep = TransferStep(control.destCtl, control.size)]
    IN  IF control.enable /\ ~h.cnt.enable
        THEN ReloadWordCount(ReloadDAD(ReloadSAD(g, r, c), r, c), r, c)
        ELSE Rebase(g)

(* Stores into the registers; CNT_H acts on the channel before it is kept. *)
StoreSAD(d, c, v)   == [d EXCEPT !.registers[c].sad = v]
StoreDAD(d, c, v)   == [d EXCEPT !.registers[c].dad = v]
StoreCount(d, c, n) == [d EXCEPT !.registers[c].count = n]

(* Mutants of StoreControl.                                                *)
StoreControlWithoutFlag(d, c, control) ==
    LET h     == UpdateDetails(d.channels[c], d.registers[c], c, control)
        start == control.enable /\ control.timing = "IMMEDIATE"
    IN  [d EXCEPT !.channels[c] = [h EXCEPT !.active = @ \/ start],
                  !.registers[c].control = control]

StoreControlOnlyOnEnabling(d, c, control) ==
    LET h     == UpdateDetails(d.channels[c], d.registers[c], c, control)
        start == /\ control.enable /\ control.timing = "IMMEDIATE"
                 /\ ~d.channels[c].cnt.enable
    IN  [d EXCEPT !.channels[c] = [h EXCEPT !.active = @ \/ start],
                  !.registers[c].control = control,
                  !.controllerActive = @ \/ start]
-----------------------------------------------------------------------------
StoreControl(d, c, control) ==
    LET h     == UpdateDetails(d.channels[c], d.registers[c], c, control)
        start == control.enable /\ control.timing = "IMMEDIATE"
    IN  [d EXCEPT !.channels[c] = [h EXCEPT !.active = @ \/ start],
                  !.registers[c].control = control,
                  !.controllerActive = @ \/ start]

SADStores(d, c)     == {StoreSAD(d, c, v) : v \in GuestSources}
DADStores(d, c)     == {StoreDAD(d, c, v) : v \in GuestDests}
CountStores(d, c)   == {StoreCount(d, c, n) : n \in GuestCounts}
ControlStores(d, c) == {StoreControl(d, c, k) : k \in GuestControls}
Stores(d, c) == SADStores(d, c) \cup DADStores(d, c)
                \cup CountStores(d, c) \cup ControlStores(d, c)

\* Where the registers of channel c are, as offsets from its SAD.
Registers(c) == DMA0SAD + 12 * c .. DMA0SAD + 12 * c + 11
Offset(address, c) == address - (DMA0SAD + 12 * c)
OnRegisters(address) == \E c \in Channels : address \in Registers(c)

\* Memory::Write of one unit: the states it may leave the controller in.  A
\* word at CNT_L is split into CNT_L, then CNT_H.
WriteTo(d, address, size) ==
    IF ~OnRegisters(address) THEN {d}
    ELSE LET c == CHOOSE k \in Channels : address \in Registers(k)
             o == Offset(address, c)
         IN  CASE o < 4            -> SADStores(d, c)
               [] o \in 4 .. 7     -> DADStores(d, c)
               [] o \in 8 .. 9 /\ size = 2 -> CountStores(d, c)
               [] o \in 8 .. 9 /\ size = 4 ->
                    UNION {ControlStores(e, c) : e \in CountStores(d, c)}
               [] o >= 10          -> ControlStores(d, c)

(* After a unit: the fields as the write left them move on.                *)
Advance(d, c) ==
    LET h == d.channels[c]
    IN  [d EXCEPT !.channels[c] =
            [h EXCEPT !.dest = (h.dest + h.destStep) % AddressRange,
                      !.source = (h.source + h.srcStep) % AddressRange,
                      !.wordCount = @ - 1]]

\* The enable bit is cleared by a store into CNT_H that comes back here.
Finish(d, c) == StoreControl(d, c, [d.channels[c].cnt EXCEPT !.enable = FALSE])

ReloadBlock(d, c) ==
    LET r == d.registers[c]
        h == ReloadWordCount(Rebase(d.channels[c]), r, c)
    IN  [d EXCEPT !.channels[c] = IF h.cnt.destCtl = 3 THEN ReloadDAD(h, r, c)
                                                       ELSE h]

DoTransferStep(d, c) ==
    LET h == d.channels[c]
    IN  IF h.wordCount > 0
        THEN {Advance(e, c) : e \in WriteTo(d, h.dest, h.cnt.size)}
        ELSE IF h.cnt.repeat THEN {ReloadBlock(d, c)} ELSE {Finish(d, c)}

AdvanceSource(d, c) ==
    LET h == d.channels[c]
        g == [h EXCEPT !.source = (h.source + h.srcStep) % AddressRange]
    IN  [d EXCEPT !.channels[c] = Rebase(g)]

SoundWord(S, c) ==
    UNION {{AdvanceSource(e, c) : e \in WriteTo(d, d.channels[c].dest, 4)} : d \in S}

DoSoundTransfer(d, c) ==
    {[e EXCEPT !.channels[c].active = FALSE] :
        e \in SoundWord(SoundWord(SoundWord(SoundWord({d}, c), c), c), c)}
-----------------------------------------------------------------------------
(* Controller.                                                             *)
Active(d)   == {c \in Channels : d.channels[c].active}
IsActive(d) == d.controllerActive /\ Active(d) # {}

First(S) == CHOOSE c \in S : \A k \in S : c <= k

Execute(d) ==
    LET c == First(Active(d))
    IN  IF d.channels[c].cnt.timing = "SPECIAL" THEN DoSoundTransfer(d, c)
                                                ELSE DoTransferStep(d, c)

FifoAddress == [FIFOA |-> FIFO_A, FIFOB |-> FIFO_B]

Concerned(d, event) ==
    {c \in Channels :
        /\ d.channels[c].cnt.enable
        /\ IF event \in DOMAIN FifoAddress
           THEN /\ c \in {1, 2}
                /\ d.channels[c].cnt.timing = "SPECIAL"
                /\ d.channels[c].dest = FifoAddress[event]
           ELSE d.channels[c].cnt.timing = event}

(* Mutant of EventCallback: an end that only lowers the flag.              *)
EventCallbackEndOnlyFlag(d, event, start) ==
    LET S == Concerned(d, event)
    IN  [d EXCEPT !.channels =
            [c \in Channels |->
               IF c \in S /\ start THEN [@[c] EXCEPT !.active = TRUE, !.strayed = FALSE]
                                   ELSE @[c]],
                  !.controllerActive = IF S = {} THEN @ ELSE start]
-----------------------------------------------------------------------------
EventCallback(d, event, start) ==
    LET S == Concerned(d, event)
    IN  [d EXCEPT !.channels =
            [c \in Channels |->
               IF c \in S THEN [@[c] EXCEPT !.active = start, !.strayed = FALSE]
                          ELSE @[c]],
                  !.controllerActive = @ \/ (start /\ S # {})]
-----------------------------------------------------------------------------
Init == /\ dma = PowerOn
        /\ storing = FALSE
        /\ ppuDue = FALSE
        /\ period = "none"
        /\ soundHit = FALSE

\* GBA::run finds no active channel, and IsActive lowers the flag.
BeginInstruction == /\ ~storing
                    /\ ~ppuDue
                    /\ ~IsActive(dma)
                    /\ storing' = TRUE
                    /\ dma' = [dma EXCEPT !.controllerActive = FALSE]
                    /\ UNCHANGED <<ppuDue, period, soundHit>>

\* One of the stores of an instruction; a block transfer has several.
CpuStore(c) == /\ storing
               /\ dma' \in Stores(dma, c)
               /\ UNCHANGED <<storing, ppuDue, period, soundHit>>

EndInstruction == /\ storing
                  /\ storing' = FALSE
                  /\ ppuDue' = TRUE
                  /\ UNCHANGED <<dma, period, soundHit>>

\* GBA::run lets the controller move a unit in place of the CPU.
Transfer ==
    LET h == dma.channels[First(Active(dma))]
    IN  /\ ~storing
        /\ ~ppuDue
        /\ IsActive(dma)
        /\ dma' \in Execute(dma)
        /\ soundHit' = (soundHit \/ (h.cnt.timing = "SPECIAL" /\ OnRegisters(h.dest)))
        /\ ppuDue' = TRUE
        /\ UNCHANGED <<storing, period>>

\* PPU::Execute makes at most one transition in each pass of the loop.
Display(old, new) == /\ ~storing
                     /\ ppuDue
                     /\ ppuDue' = FALSE
                     /\ period = old
                     /\ period' = new
                     /\ UNCHANGED <<storing, soundHit>>

DisplayStays == /\ ~storing
                /\ ppuDue
                /\ ppuDue' = FALSE
                /\ UNCHANGED <<dma, storing, period, soundHit>>

\* PPU::ToHBlank, OnHBlankFinish, which goes on to ToVBlank after the last
\* visible line, and OnVBlankLineFinish on the last line of the frame.
HBlankStarts == /\ Display("none", "HBLANK")
                /\ dma' = EventCallback(dma, "HBLANK", TRUE)

HBlankEnds == /\ Display("HBLANK", "none")
              /\ dma' = EventCallback(dma, "HBLANK", FALSE)

LastHBlankEnds ==
    /\ Display("HBLANK", "VBLANK")
    /\ dma' = EventCallback(EventCallback(dma, "HBLANK", FALSE), "VBLANK", TRUE)

VBlankEnds == /\ Display("VBLANK", "none")
              /\ dma' = EventCallback(dma, "VBLANK", FALSE)

\* APU::FIFOUpdate finds a FIFO half empty.
FifoRequests(event) == /\ ~storing
                       /\ dma' = EventCallback(dma, event, TRUE)
                       /\ UNCHANGED <<storing, ppuDue, period, soundHit>>

Next == \/ BeginInstruction
        \/ \E c \in Channels : CpuStore(c)
        \/ EndInstruction
        \/ Transfer
        \/ DisplayStays
        \/ HBlankStarts
        \/ HBlankEnds
        \/ LastHBlankEnds
        \/ VBlankEnds
        \/ \E event \in DOMAIN FifoAddress : FifoRequests(event)

Spec == Init /\ [][Next]_vars

\* The loop never stops, and every access takes ticks: however often the
\* display stays where it is, a visible line reaches its HBlank, a period
\* ends and the last line comes.
Fairness == /\ WF_vars(EndInstruction)
            /\ WF_vars(Transfer)
            /\ WF_vars(DisplayStays)
            /\ SF_vars(HBlankStarts)
            /\ SF_vars(HBlankEnds \/ LastHBlankEnds)
            /\ SF_vars(LastHBlankEnds)
            /\ SF_vars(VBlankEnds)

FairSpec == Spec /\ Fairness
-----------------------------------------------------------------------------
ChannelFields == [active : BOOLEAN, cnt : Controls,
                  srcStep : 0 .. HalfRange, destStep : 0 .. HalfRange,
                  source : 0 .. AddressRange - 1, dest : 0 .. AddressRange - 1,
                  wordCount : Nat, from : 0 .. AddressRange - 1,
                  to : 0 .. AddressRange - 1, length : Nat, strayed : BOOLEAN]

RegisterFields == [sad : 0 .. AddressRange - 1, dad : 0 .. AddressRange - 1,
                   count : Nat, control : Controls]

DMAFields == [channels : [Channels -> ChannelFields],
              registers : [Channels -> RegisterFields],
              controllerActive : BOOLEAN]

(* Addresses and counts keep their width; the word count, an unsigned U32  *)
(* in the code, never passes below zero.                                   *)
TypeOK == /\ dma \in DMAFields
          /\ storing \in BOOLEAN
          /\ ppuDue \in BOOLEAN
          /\ period \in {"none", "HBLANK", "VBLANK"}
          /\ soundHit \in BOOLEAN

Covered(d)  == Active(d) # {} => d.controllerActive
Armed(d)    == \A c \in Channels : d.channels[c].active => d.channels[c].cnt.enable
Mirrored(d) == \A c \in Channels : d.registers[c].control = d.channels[c].cnt
Paused(d, current) ==
    \A c \in Channels :
        LET h == d.channels[c]
        IN  h.active /\ ~h.strayed /\ h.cnt.timing \in {"HBLANK", "VBLANK"}
              => h.cnt.timing = current
Running(d)  == \A c \in Channels :
                  d.channels[c].cnt.enable /\ d.channels[c].cnt.timing = "IMMEDIATE"
                    => d.channels[c].active

(* GBA::run asks controllerActive before it looks at the channels: the     *)
(* flag may be raised for nothing, but a channel that is active never      *)
(* waits behind a lowered flag.                                            *)
FlagCoversActive == Covered(dma)

(* Only an enabled channel moves units, also when the store that disables  *)
(* it is a unit of its own, or of another channel.                         *)
ActiveOnlyIfEnabled == Armed(dma)

(* What the program reads back from CNT_H is the control word in effect,   *)
(* its enable bit included, which the controller clears when it is done.   *)
ControlMirrored == Mirrored(dma)

Signed(ctl, size) == CASE ctl \in {0, 3} -> size
                       [] ctl = 1        -> -size
                       [] ctl = 2        -> 0

(* The addresses and the count of a block move together, through pauses,   *)
(* new control words, reloads and units that land on the registers: in     *)
(* their lower halves, source and destination are where the units moved so *)
(* far put them, in the direction CNT_H shows.                             *)
BlockExact ==
    \A c \in Channels :
        LET h     == dma.channels[c]
            k     == dma.registers[c].control
            moved == h.length - h.wordCount
        IN  h.cnt.enable =>
              /\ moved >= 0
              /\ (h.source - h.from - moved * Signed(k.srcCtl, k.size)) % HalfRange = 0
              /\ (h.dest - h.to - moved * Signed(k.destCtl, k.size)) % HalfRange = 0

(* A channel with the timing of a period runs in that period only, its end *)
(* pauses it, however much of its block is left and however often its      *)
(* control word was stored again meanwhile.  The exception is a channel    *)
(* whose timing was changed while it ran: UpdateDetails leaves it active,  *)
(* outside the period of its new timing too, and it runs on until its      *)
(* block or the next period of that timing ends, or a store disables it.   *)
PausedOutsidePeriod == Paused(dma, period)

(* An enabled channel with immediate timing is running: no event will ever *)
(* start it.  The exception is a sound transfer that writes the registers: *)
(* it stops its channel at the end, whatever the stores made of it.        *)
ImmediateRuns == soundHit \/ Running(dma)

(* The channels give the bus back to the CPU: no block, pause or rewrite   *)
(* of control words keeps some channel active for ever, as long as no      *)
(* control word asks for immediate timing with repeat.                     *)
BusReturned == []<>(Active(dma) = {})
=============================================================================
