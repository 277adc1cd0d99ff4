# A verification project for gb-step

gb-step (`src/`) is a Game Boy Advance emulator in C++17.  This directory holds
TLA+ modules that model its control logic, TLC configurations that check them
on small instances, and TLAPS proofs for every value of the constants.

## 1. The system

One thread runs `GBA::run` (`include/gba.hpp`): while the window is open, either
the DMA controller moves one unit or the CPU executes one instruction; the ticks
that took are then given to the PPU, the timers and the APU, in that order.  All
other interaction is by synchronous calls and callbacks wired in the `GBA`
constructor.  SFML's audio thread is the only second thread.

| component | state | operations | talks to |
|---|---|---|---|
| Main loop, clock (`gba.hpp`, `system_clock.hpp`) | total and last ticks, `esc` | run, Tick, SinceLastCheck | everything |
| Interrupt registers (`arm7tdmi/ir_io_registers`, `cpu.hpp`) | IE, IF, IME, `interruptReady`, `halt`, waitstates | guest stores, RequestInterrupt | CPU, PPU, timers |
| CPU (`arm7tdmi/cpu`, `arm_opcodes`, `thumb_opcodes`, `registers`) | registers and their banks, CPSR/SPSRs, pipeline, op caches | Execute, Reset, the instructions | memory, interrupt registers |
| DMA (`dma/`) | four channels, `controllerActive`, the register bytes | Execute, CNT_H store, events | memory, PPU and APU events |
| Timers (`timers/`) | four counters, prescalers, reload values | Update, CNT stores | CPU (IRQ), APU |
| PPU timing (`ppu/ppu.cpp`, `lcd_io_registers`) | state, tick count, VCOUNT, DISPSTAT | Execute, guest stores | CPU (IRQ), DMA, screen |
| PPU rendering (`ppu/draw_*`, `objects`, `*_modes`) | row buffers, frame buffer, affine counters | DrawLine, DrawObjects | memory |
| APU and audio (`apu/`, `common/circular_queue.hpp`, `platform/sfml/audio.hpp`) | two FIFOs, latched samples, sample queue | Tick, FIFOUpdate, onGetData (second thread) | timers, DMA, SFML |
| Memory bus (`memory/memory.cpp`, `io_registers`, `read_write_interface`) | the regions | Read, Write, Tick | clock, every register file |
| Cartridge backup (`memory/flash`, `sram`, `cart_backup`) | banks, command state, save file | Read, Write, Save, load | file system |
| Debugger (`debugger`) | breakpoints, step flag | CheckForBreakpoint, NotifyMemoryWrite | CPU, memory, console |
| Joypad, window, logging (`platform/`, `joypad`) | key bits, `esc` | keyUpdate, render | PPU, main loop |

What is hard in it: the interleaving of CPU, DMA and devices through one loop
and nested callbacks; flags that cache a function of registers; channels that
are enabled, armed, active or paused; counters that advance by batches of ticks;
registers the guest may overwrite while the hardware model uses them; a save
file written only at a clean exit; a queue shared with another thread.

What makes each component correct:

- **Interrupt registers.** The cached `interruptReady` is `IME && (IE & IF)`
  after every store, acknowledgement and request; a request never sleeps.
- **Timers.** Giving the ticks in batches gives the counters, overflows and
  interrupts that single ticks would, through prescalers, cascades and rewritten
  registers; `ticksLeft` is never stale.
- **PPU timing.** No tick is lost over a frame; VCOUNT, the state and DISPSTAT
  agree; each visible line is drawn once, in order, inside the frame buffer.
- **DMA.** An active channel is never behind a lowered `controllerActive`, is
  enabled, and is in the period that started it; addresses and counts of a block
  move together; the control word read back is the one in effect; the bus goes
  back to the CPU.
- **Main loop.** The callbacks come in an order the DMA controller can live
  with; interrupts are served and the screen is rendered whatever DMA does.
- **Register banks.** Copying registers in and out is as good as having them
  all; a handler returns to the status its exception interrupted, nested or not.
- **Cartridge backup.** A command changes what it names and nothing else;
  what a clean exit saved comes back; a death loses no more than it must.
- **Audio.** The FIFO is asked for data before it runs dry; the queue between
  the threads keeps its indices inside the buffer and left and right apart.
- **CPU.** Every instruction has the result and flags the architecture defines;
  the pipeline holds the two instructions behind the one that executes.
- **Memory bus.** Every access lands in one region, inside its array, and costs
  the ticks of its region, page, size and wait states; a byte has only the
  mirrors it is meant to have.
- **Rendering.** The front pixel is the one of highest priority among the
  layers that the window shows; a background shows the place of its map that
  its scroll registers or its matrix lead to.

## 2. The modules

| module | lines up with | kind |
|---|---|---|
| `InterruptController` | what an interrupt controller promises | abstract |
| `Interrupts` | `ir_io_registers.cpp`, `irq_channel.hpp`, the head of `CPU::Execute` | detailed, implements the one above |
| `Timers` | `timers/timer.cpp`, `timers.cpp`, `timers_io_registers.cpp` | detailed, with ideal counters as reference |
| `PPU` | `ppu/ppu.cpp`, `lcd_io_registers.cpp` | detailed |
| `ScreenSize`, `Tiles` | `screen.hpp`, the sizes of tiles, division as the code has it | what the three below share |
| `Objects` | `ppu/objects.cpp`, `objects.hpp` | detailed, with the frame by definition as reference |
| `Layers` | `ppu/draw_control.cpp`, the windows and blending of `lcd_io_registers` | detailed, with the frontmost layer as reference |
| `Backgrounds` | `ppu/text_modes.cpp`, `rotscale_modes.cpp`, `bg_control_info.hpp` | detailed, with the place in the map as reference |
| `DMA` | `dma/channel.cpp`, `controller.cpp`, `dma_io_registers.cpp` | detailed, with its environment |
| `GBA` | `gba.hpp`, `CPU::Execute`, the callbacks | composes `Interrupts`, `DMA` and `PPU` |
| `RegisterBanks` | what banked registers promise | abstract |
| `RegisterSet` | `registers.cpp`, `registers.hpp`, the mode changes of both instruction sets | detailed, implements the one above |
| `ProgramOrder` | one instruction after another, and links that lead back | abstract |
| `Pipeline` | `PipelineFlush`, the fetches of `cpu.cpp`, and everything that writes R15 | detailed, implements the one above |
| `Alu` | the shifter, arithmetic and multiplications of `arm_opcodes.cpp`, the Thumb calls to them, `ConditionCheck` | detailed, with long arithmetic and a bit by bit shifter as references |
| `Transfers` | loads, stores, swaps and blocks of `arm_opcodes.cpp`, which Thumb calls too | detailed, with bytes at addresses as reference |
| `AddressSpace` | what memory promises: bytes, mirrors, alignment | abstract |
| `MemoryBus` | `memory.cpp`, `io_registers.cpp`, `read_write_interface.hpp`, the waitstates, `joypad.hpp` | detailed, implements the one above |
| `CartBackup` | what a flash backup promises, crashes included | abstract |
| `Flash` | `memory/flash.cpp`, `flash.hpp` | detailed, implements the one above |
| `CircularQueue` | `common/circular_queue.hpp` | operations on a queue |
| `AudioQueue` | `platform/sfml/audio.hpp`, the pushes of `APU::Sample` | two threads on a `CircularQueue` |
| `Sound` | `APU::FIFOUpdate`, the stores into the FIFOs, timers and main loop around them | composes the FIFOs with `DMA` |
| `MC...` | | values of the constants for TLC |
| `<module>Proofs` | | theorems and their proofs |

A component's state is one record (or a function to records) in one variable,
and its handlers are operators from record to record, one for each function of
the code and with its name.  The actions of the module apply them.  This lets
`GBA` and `Sound` chain, in one action, the calls one pass of the loop makes, and
a unit of DMA apply the store handler of the DMA registers to itself.  Other
variables are marked *history*: they record what a property needs and restrict
nothing.  Mutants, which stand before the definition they spoil, are used by no
specification.

An MC module may host several parts that do not interact.  A variable chooses
one of them in the initial state (`part`, `chosen` or `end`); the others stay in
one state, so that the parts add up their states and do not multiply them:
`MCInterrupts` (interrupt registers or timers), `MCDisplay` (timing, objects,
layers or a background), `MCMemory` (bus, flash, single or block transfers),
`MCInstructions` (pipeline or arithmetic), `MCApu` (FIFOs or queue).  All parts but the first have names of their own (`InitTimers`, `NextFlash`,
`NextTransfer`, `NextObject`, `NextLayer`, `NextBackground`, `AluSpec`), so that all
can be extended at once and their assumptions are evaluated, as in the proof modules.

### Interrupts

`irq` holds IE, IF, IME as sets of bits, `interruptReady` and `halt`.  A store is
a lane (a byte or both) and a value: `WriteIE`, `WriteIF` (acknowledges the 1
bits), `WriteIME`, `WriteIEandIF` for a word, which the code handles as two
halves with `InterruptUpdate` after each, `WriteWAITCNT`, which recomputes the
flags because it is inside their address range, and `WriteHALTCNT`, which is not.
Block transfers and channels do not align their addresses.  A halfword at IF + 1
(0x203) acknowledges the upper byte, at 0x205, 0x207 or 0x209 it reaches WAITCNT or
a byte of IME; at IE + 1 (0x201) it is neither at IF nor at IF + 1, so IF's
lower byte becomes what is stored (`WriteAcrossIE`): the one store that makes
requests.  `across` is the history of it, which the abstract controller sees as
`Overwrite` of the lines in `Exposed`.
`CpuStore` happens only past the two early returns of `CPU::Execute`;
`OtherStore` does not look at the flags: it is a DMA channel's, or a later word
of a block transfer that has itself made an interrupt ready.  `OtherHalt` is a
channel's store at HALTCNT.  `halt` may be set with an interrupt pending, and
`SleepsOnlyOnOldMatch` says when.
The waitstates that a store into WAITCNT computes are in `MemoryBus`.
The two paths that end the process are left out (a size that cannot happen, a
register that is not implemented).

### Timers

`timers` is the bank of four `Timer`s; `UpdateBank` is the loop of
`Timers::Update` as a recursive function, in which every timer gets its
predecessor's overflows.  `WriteCntH` and `WriteCntL` are the stores.  A timer
that counts up without a predecessor (timer 0) counts ticks, as in the code.
`Period` and `Distance` are the reference: an ideal counter that knows nothing
of batches.  `TimersAssumption` states what makes the initial `ticksLeft` of
0x1000, beside a counter of 0, harmless: a batch, with what a larger divisor may
have left over, is shorter (two batches fit in a line of 1232 ticks, see `PPU`,
and the largest divisor is 1024).

### PPU

`ppu` is the state, the ticks in hand, VCOUNT, DISPSTAT, and the calls the step
made (interrupts, callbacks with their argument, drawing, rendering).
`ExecutePPU` makes at most one transition for each batch.  The guest's stores
keep every bit, the flags included, and may move VCOUNT: `touched` and
`clobbered` record that, so the properties promise nothing about a frame or a
flag the guest has spoilt, and everything again once the code has recomputed it.
The VCOUNT halfword wraps: after a stored 0xFFFF comes line 0, with which the
state machine goes on, while the VCounter match saw 0x10000.
What a transition draws or reloads is in `Objects`, `Layers` and `Backgrounds`.

### Objects

The entries of OAM are what a program stores; `DrawObjects`, at the beginning of
VBlank, goes through them from the last to the first into `objFb`, with flips,
rotation, double size and wrapping at the edges of the object space.  A colour
is the tile and the place in it that it is fetched from.  As in the code, an
object flipped vertically is one row off (`objects.cpp:121`), negative
positions of a rotated object are cut toward 0, and the pixel of a
window object does not mark the window when an object of better priority further
back in OAM is drawn there (`objects.cpp:154`).  The reference, `ObjectsOrdered`,
says what each dot should be without drawing anything in an order.

### Layers

`DrawLine` merges the rows of the backgrounds with the objects, under windows
and blending.  The interest is in what is read when: DISPCNT and the windows are
read as the line is drawn, a background's priority as the last line that drew it
has left it (`draw_control.cpp:137`), the blending as it was at the end of the
last frame, the objects as they were at the last VBlank - and before the first
one `objFb` is uninitialised (`ppu.hpp:151`), which the model starts with a choice.
`fresh` is the history that says for which backgrounds the order may be old.
Also as in the code: bitmap modes ignore windows and objects; the search for
a second target stops at the first background that is not one; a half-transparent
object is blended with a background that is not a target; the bits of
DISPCNT for forced blank and the display of objects are not read.

### Backgrounds

One background that can be text or rotated.  Text: the map as a torus of screen
areas, scrolled, with lines that begin inside a tile.  Rotated: the reference
point that VBlank's end reloads, moved for each dot and line.  Every background's
control has ID 0 until a line of it has been drawn as text (`ppu.hpp:75`), which
is why one drawn only rotated always wraps (`textDrawn`).  Mosaic, which a word
store may leave stale (`lcd_io_registers.cpp:40`), is left out.

### DMA

`dma` is the channels, their registers as the guest sees them and
`controllerActive`.  A channel carries its position in the block, and as history
where the block began.  `Execute` is the step of the first active channel,
`UpdateDetails` the store of a control word with its reloads, `EventCallback`
the start and end of a period.  A unit whose destination is on the registers is
a store into them (`WriteTo`), of any value, and re-enters `UpdateDetails`, as
`Finish` does to clear the enable bit.  A store that changes the timing of a
channel while it runs leaves it running (`Strayed`, a history), outside its new period
too, and that is where `PausedOutsidePeriod` promises nothing; a control word
stored again with the same timing changes nothing of the promise.  The environment of the component - the
CPU's stores, the display's periods, the FIFO's requests - is in the same module,
so that it can be checked alone; `GBA` shows that the real environment is one of
its behaviours.  Data and reads from the registers are left out.

### GBA

`phase` is the place in `GBA::run`.  The CPU's turn is `EnterCpu`, then `Sleep`,
`TakeInterrupt`, or an instruction with any stores into the modelled registers;
the channel's is `Transfer`; then `PPUExecute` gives the display its ticks, with
the interrupt requests and DMA callbacks of the transition in the same step, in
the order of the calls; then timers and FIFOs make whatever requests they like.
Left out: units of a channel that land on registers of another component, and
`esc`, which ends the loop.

### RegisterSet

`rs` is the class `RegisterSet`: one active set and arrays for the rest.  Each
action is one kind of instruction or exception that touches bank or status, with
arbitrary results in the other registers.  CPSR is not initialised by the code,
so the initial value is any of `PowerOnStatus`, valid or not.  An LDM that
returns is two actions, `LoadWithPC` and `ReturnByLoad`, since loads and
writeback are on different sides of the mode change.  Mode bits that name no mode end the process; a step
that would use them has no successor, which is why these runs do not check for
deadlock.  `saved` is history: per mode, what its last exception interrupted
(`inner`) and what the last one from another mode did (`outer`).  They differ once an
exception is taken in its own mode: `SwitchMode` then returns at once
(`registers.cpp:78`) and no caller saves a status, so the SPSR goes on
holding the outer one, to which the handler returns (`Held`).  What comes back into a
mode by `SwitchMode`, be it MSR or the return of a nested handler, overwrites its SPSR, and
the record is dropped.  The condition flags, R0-R7 and R15 are left out.

### Pipeline

`r15` is one fetch ahead of the next instruction between two passes, two ahead
while one executes.  Every instruction or exception that reads or writes R15 is
an action; any of them may stand at any address.  `r14` and `spsr` are kept per
bank, with a history `link` of what an R14 holds: a call, the first half of a
Thumb call, an exception, or something else.  `ProgramOrder` has no pipeline: a
link is the place it leads to.  In the code, TST, TEQ, CMP and CMN with R15 as
destination restore the status, flush and so skip an instruction (`Compare`); a
return or MSR into an exception mode overwrites that mode's SPSR, and its link
leads back no more (`Spoilt`).  Left out: MSR that changes the state, narrow
loads, multiplications and writebacks into R15, programs that
write the two instructions already fetched, and addresses that wrap.

### Alu

Only the flags are state: an instruction's operands are any words, since loads
may replace all registers between two instructions.  `number` is history: the
chain of words added or subtracted so far, with the range its total lies in.  `DataProcessing` is the
arithmetic half of the function of that name, with an operator for each way of
adding and subtracting; `Logical` its other half, whose results are any words;
`Move` the shifter.  The `Thumb...` operators are the calls that the Thumb
instructions make.  `Return` is S with R15, which restores a status and then
writes V over it.  Overflow in the code is bit 31 of a bitwise expression; here
it is the same expression of the signs.  Shifting by more than the width is
undefined for a part of the shifter: those results are a set.  Operands in R15
and the ticks of the multiplier are left out.

### Transfers

Each operator is the function of its name with all of its bits: loads and stores
of words, bytes and halfwords at any alignment, rotations and signs, pre- and
post-indexing, writeback, swaps, and blocks in the four directions, with the base
in the list.  As in the code, a base that is stored and is not the lowest of the
list is stored as moved, with or without writeback.  Memory is plain here; the
bus is in `MemoryBus`.  Left out: R15 and the empty list that stands for it, and
blocks with S, which are in `RegisterSet`.

### MemoryBus

`bytes` holds the cells of the arrays that the window of addresses in use can
reach.  `Parts` says which array and index an access goes to, through masks and
register sets; `Fits` and `Refused` when the code calls `exit`; `Ticks` what it
costs, from the waitstates a store into WAITCNT has computed.  `AddressSpace` is
a flat memory with mirrors.  Where the code is looser than a bus it says so:
page 1, and page 15, read as 0 and lose stores; a store of one byte into most
registers ends the process; a byte loaded from KEYINPUT has all ten bits and its
upper byte reads 0; page 14 has the timing of WS2, and the counts for SRAM are
not used.  A half or word of registers that is not aligned may miss bytes: at the
odd addresses 0x5F and 0x301, for instance, its second byte is in a cell that no
address has, for the code chooses the array by the first (`Missable`).  IF and the
timers' registers do not read back what was stored and are kept out of the
windows (`Elsewhere`).

### Flash

`flash` is the class `Flash`; `file` the bytes of the save file.  `Save` empties
the file and `SaveByte` adds one byte, so that `Die` can come between any two;
`Start` reads the file as far as it goes.  Addresses are a subset of a bank's,
in which file positions are ranks.  `CartBackup` knows no state machine: it has
the stores of the command under way (`said`), what each complete command does, and
that nothing else changes the memory or the bank.  It follows the code in what may be
argued: a sector is erased without the erase command before it, a value that names
no command at the address of commands is passed over with the unlock still
valid, and after a byte is programmed the next store begins anew.  SRAM (single bytes,
the same file code) and `Read`, which changes nothing, are left out.

### AudioQueue

Two threads: the emulator's pushes a left and a right sample, SFML's pops a chunk.
No lock is taken.  A `Push` is a check, the element with its index, and the
count; a `Pop` the same.  The count is loaded at the check and may be loaded
again before it is stored, since the compiler may merge the two reads or not.
Each load and store is atomic and in program order: this is what x86 does with
aligned words, and is an assumption, for in C++ the race is undefined.
Samples are numbered until a push and a pop overlap; after that only the count
is followed, so that the state space stays finite.

### Sound

A FIFO is the number of samples it holds.  A pass is one act - a unit of a
channel, or an instruction with at most one store - and then the overflows of the
timers: `TimersUpdate` pops one sample from each FIFO that follows a timer which
overflowed, and asks the channels for more at half full.  As in the code that is
one sample for each pass, however often the timer overflowed in it
(`timers.cpp:21`).  `mixed` records FIFOs that got samples in any other way than
from the channel that serves them.  A program is followed until a channel would
move data to the registers of the DMA, which `DMA` and `GBA` follow further.

## 3. The runs

Every passing run explores its complete state space.

| run | what it checks | bounds, and why they are enough |
|---|---|---|
| `interrupts` | `InterruptReadyExact`, `SleepsOnlyOnOldMatch`, refinement `ImplementsController`; timers: `BatchIndependent`, `OverflowsOnTime` | Three lines, two in the lower byte: a lane holds none, one or several of the lines that matter. Three timers: a cascade with a middle. Counters of 3 values and batches to 2 ticks: with reload at the end a batch holds several overflows. Divisors 1 and 2: exact and with a rest. |
| `display` | timing: `NoDrift`, `DrawnInOrder`, `FlagsExact`; `ObjectsOrdered`; `LayersOrdered`, `EffectsAimed`; `BackgroundsExact` | Three visible and three VBlank lines: first, inner and last of each; batches of 2 ticks exceed an HBlank of 1; VCOUNTs in, at the end of and past the frame, and at the end of the range. Three entries of OAM, tiles of 2 dots, a screen of 8 × 3 in a space of 12 × 4: objects in front of and behind both others, across both edges. Three lines of 8 columns, one column for each combination of three backgrounds; objects of each kind. Three lines of 8 dots of text maps of 2 × 2 tiles and multiples, and of rotated maps of 1 to 8 tiles: lines longer than a tile and, with the smallest maps, than the map. |
| `dma_block` | `FlagCoversActive`, `BlockExact`, `PausedOutsidePeriod`, `ImmediateRuns` | One channel, 64 addresses that hold its registers, so units reach them; lower halves of 16 addresses, so they wrap; each timing, size and direction. Channel against channel is in the proofs. |
| `dma_turns` | `BusReturned` (liveness) | Two channels, one a sound channel, away from the registers. |
| `gba_loop` | refinement `ImplementsDMA` | One channel with units on its own registers, passes of 0 or 1 ticks, one visible line of 2 + 1 ticks and two VBlank lines, stores of the first and the largest VCOUNT: each order of periods occurs. |
| `gba_wakes` | `HaltedWakes`, `InterruptServed`, `RenderedForEver` (liveness) | VBlank's line and a timer's; control words that end or follow the display; passes of exactly 1 tick. |
| `registers_fiq` | refinement `ImplementsBanks` | One register of each kind of banking, three banks, two values: a mixed up copy shows. |
| `registers_nested` | `SavedStatusKept` | IRQ, SWI and undefined instructions nest in each other to depth 3 and in their own modes without end, from ARM and Thumb; every status at power on, valid or not. |
| `registers_transfer` | `UserTransferKeepsStatus`, **violated** | See findings. |
| `instructions` | pipeline: `FetchedAhead`, refinement `ImplementsProgramOrder`; arithmetic: `LongArithmetic`, `ConditionsDecide`, `ShiftsExact` | Modes SYS, IRQ and SVC: handlers that interrupt each other. Offsets and targets near 0, R15 up to 12: both states, each alignment, and every order of calls, half calls, exceptions and returns. Words of 3 bits: sign, middle and lowest bit; numbers of two words, so that each carry formula meets each carry; shifts beyond twice the width. |
| `memory` | bus: `AccessTimes`, refinement `ImplementsAddressSpace`; flash: refinement `ImplementsBackup`; transfers: `LoadsExact`, `StackHolds` | Windows at every edge of a region and of its mirror, pairs of registers that are neighbours or in two sets, WAITCNT, KEYINPUT, pages without storage; every width and sequentiality. Two banks of four addresses: the first of all, the two unlock addresses, and the start of the sector of one of them; commands, non-commands and commands broken off; data that look like an unlock store and data that do not. The program stores while at most one byte of a save file exists (`MaxSaved`): it starts from none, and from one that a death cut short; saving and reading back is followed from every content. Words of four bytes of 2 bits, a sign and one more; contents in which the bytes around an odd halfword give each case of its sign; every alignment, overlap of registers and of frames, and a stack of two frames in its four kinds. A single transfer is followed for one step, blocks for any number. |
| `apu` | queue: `CountInBounds`, `InOrder`, `SidesKept`, `ChunksWhole`, `QueuePlayed` (liveness); FIFOs: `NothingDropped`, `DryOnlyWhenLate` | A queue of 4, which is two chunks of two: full, half full, empty and wrapped all occur, and numbers modulo 4 tell its samples apart. A FIFO of its true size, two channels that may feed it, copy into it, or hold the bus for a while or for ever. |

Deadlock is not checked where a program can stop or a bound ends it:
`registers_fiq`, `registers_nested` and `registers_transfer` (mode bits that name
no mode end the process), `memory` (accesses that end it), `instructions` (`Top`
bounds addresses).  The type invariants, and some invariants that are part of an
inductive one, are proved and not run again (section 4).

**Fairness.**  `GBA!FairSpec` is weak fairness of the loop alone: one thread runs
it, an instruction makes finitely many stores and then ends, and the devices
return.  Nothing is assumed of the guest.  `gba_wakes` also assumes
that a pass takes at least one tick (`MinTicks = 1`).  The code does not
guarantee it: the wait state counts start at 0 and are filled when WAITCNT
is first written, so an access to ROM can cost nothing before; `AccessTimes`
says that none is free after, and the safety run `gba_loop` has passes of
no ticks.  `gba_wakes` has no stores into VCOUNT, with
which a program can keep the beam from the last visible line for ever.
`DMA!Fairness` stands for the same in a module without a clock: an instruction
ends, a unit is moved, and a beam that gets ticks reaches the end of its period
(strong fairness, because passes in which it stays where it is come between).
`BusReturned` leaves out immediate timing with repeat, which reloads for ever
in the code and stops the CPU for good.  `AudioQueue!FairSpec` is weak fairness of
each of the two threads: `GBA::run` goes on sampling, and SFML asks for
chunk after chunk; which step a thread takes is left to it.

**Findings.**  `registers_transfer`: LDM or STM with S and without R15, executed
in an exception mode, goes to the user bank and back by `SwitchMode`, which
stores the CPSR it leaves into the SPSR of the mode it enters.  On the way back
that is the CPSR with user mode bits (`arm_opcodes.cpp:973`, `registers.cpp:81`):
the comment says "Change back to previous mode", but the mode has lost its saved status,
and its handler returns to user mode.

Weaker promises that follow the code where hardware manuals differ are in the
comments of the properties: the VCounter flag of line 0 is that of line 228;
only the lower halves of DMA addresses count down exactly; a channel whose timing
is changed while it runs leaves its period; an exception into its own mode saves no
status; a return into an exception mode overwrites its SPSR; a halfword stored at
IE + 1 writes IF's lower byte; a halfword loaded from an odd address brings two
bytes or signs that are not its own; the flash of one bank accepts a switch to
the second, which is not saved; V is written without S too, so signed
conditions hold only until the next addition; the order of layers on a line is
that of the priorities the line before it left; the sides of the sound are kept
only until a push and a pop overlap or one sample of a pair is dropped.

## 4. The proofs

The eight proof modules hold for every value of the constants under the
assumptions that the modules name.

- `InterruptsProofs`, from `LanesAssumption`.  `IInv` is the type invariant with
  `InterruptReadyExact` and `SleepsOnlyOnOldMatch`.  It is needed together: that
  a request wakes the processor follows from `InterruptUpdate` clearing `halt`
  whenever `IE & IF` is not empty, so every store or request `Settles` both
  flags, and HALTCNT alone leaves `halt` set beside a match, which it records.
  Theorems: the invariants, `NewMatchWakes`, and the refinement, for which
  the exact cached flag is what lets the abstract controller look at the sets,
  and that an acknowledgement is all a store does to IF unless it begins in IE.
  Then the timers, from `TimersAssumption`.  `Sound`: `ticksLeft` is what the
  counter lacks, or the timer has never counted and its batches are too short for
  it to matter, which one timer hands to the next since it overflows no more
  often than it counts; and a rest is less than some divisor.  Two facts about
  division carry the rest: `DividedInParts`, the rest of one batch joins the next
  one, and `DividedTwice`, counting the whole periods of a predecessor is dividing
  by their product.  Each of `CounterUpdate`, `PrescalerTimingUpdate` and a turn
  in the loop then is an ideal counter if what drives it is.  The loop is a
  recursive function, written out for as many timers as there are
  (`BankTurns`, `EveryTimer`); `OverflowsOnTime` is an action property of the
  bank and needs nothing of the order of stores but `Sound`.
- `PPUProofs`, from `PPUAssumption` and `PPUBatchAssumption`.  None of the
  properties is inductive alone: that a line ends in the right state needs
  VCOUNT (`StateMatchesVCount`), that the ticks add up needs that the beam is
  never two transitions behind (`KeepsUp`), and that lines are in order needs
  both.  `IInv` is their conjunction; `ExecuteFacts` is the one lemma about a batch.
  That two batches fit in a line is assumed: the longest is a block transfer of 16 words.
  `FlagsExact` needs `Disowned` besides: in a frame whose VCOUNT is the guest's,
  the two flags that follow VCOUNT count as overwritten.
- `DMAProofs`, from `DMAAssumption`.  `Good(d, period)` is type, flag, armed,
  mirrored and paused of a controller record, and `Follows` what a handler
  preserves of it; both are stated about records, so that the lemmas compose
  through a unit that lands on a control register, of any channel, and re-enters
  the handlers.  This is what no run with two such channels could afford.
  `BlockExact` holds of enabled channels only and is not inductive; `Placed` is
  it of every channel, with the steps that the control word in effect stands for,
  and with the word count never above the length.  It needs that the lower half
  divides the range of addresses (2^16 and 2^32 in the code): only then does the
  wrapping of an address keep its lower half.
- `GBAProofs`, from `ComponentAssumptions`, which are those of the parts.  The
  display of the loop is shown to be that of `PPUProofs`, operator by operator,
  so that its lemmas serve here.  `Shape` is the type of the display; what it
  adds to `StepMaps` is which callbacks one transition can make, and in which
  period: those are the orders of events that `DMA` allows.
  It also holds the proofs about what the display draws, `Objects`, `Layers` and
  `Backgrounds`.
  Those about `Objects` are from `TilesAssumption` and `ObjectsAssumption`: tiles of an even number of dots, a
  screen no larger than the space of coordinates, and objects that fit into that
  space also at twice their size, so that no dot is drawn twice.  `ObjectsOrdered`
  says what a dot is without drawing; two things lead there.  `DrawnDot`: where the
  matrix is the identity, what `DrawObject` does to a dot is to draw the colour of
  `Upright`; this is the arithmetic of middles, flips and wrapping (`SpriteIs`,
  `Placed`).  `OneMore`: the invariant of the loop from the last object to the first,
  `RightFrom`, which says of each dot and each entry what the frame has there once
  the objects from that entry on are drawn.  The loop is a recursive function; that it
  is one at all is an induction (`SomeFramesExist`), as is the invariant.
  Those about `Layers` are from `LayersAssumption`, which says what a field can hold
  (the mode three bits, a priority two) and that an object's dot has a priority below 5
  exactly where it has a colour.  `LayersIInv` is the inductive invariant: outside
  `fresh` a cached priority is the register's, and before the first VBlank no
  object has a colour.  `WindowIs` and `FirstIs` turn the code's cascade of windows
  and its sorting by scores into the reference's words; `TopFront` is then that what
  `MergeRows` puts on top is in front of everything shown, from the way `Rank`
  puts an object before the backgrounds of its priority.  For the effects,
  `BehindBackground` says what is directly behind a background, and `BlendedUnder`
  that `BelowTop`, which looks at one background and the object, finds it when it
  is a second target; `BlendedSprite` is the same under an object.
  Those about `Backgrounds` are from `BackgroundsAssumption`: sizes above 0, and stores
  that fit their registers, whose range is even.  A line of text fetches an entry
  where the last tile ended; `FetchedIn`, by induction over the columns, says that each
  dot is drawn from a fetch inside its own tile, `SameTile` that scrolling then takes
  both to the same place of the map, and `Nested` and `AreaNumber` that tiles within
  areas are the torus.  For rotation, `BackgroundIInv` says that the reference point is
  the one the frame began with, with its sign, and ID that of the background once a
  line was text; `Negated` relates division that rounds towards 0 to one that rounds
  down, which is all that `Texel` and `Wrapped` need.
- `RegisterSetProofs`, from `RegisterAssumption`.  `Inv` is the type with
  `BankMatchesMode`, `SavedStatusKept` and `OneUnlessOwn`: the two statuses recorded of
  a mode differ only after an exception taken in it, which `BankMatchesMode` carries
  through.  `ReturnsToInterrupted` then is what the SPSR held before the step, as
  `RestoreCPSR` reads it before it switches.  The refinement rests on
  `PhysicalSwitch` - a switch changes no physical register, only
  which of them is active - and on `OneBase`: at most one register waits to be written after
  a return by load, in the bank returned to.  `BankMatchesMode` is needed where
  a user bank transfer comes back by the mode bits.
- `ApuProofs`, first the queue, from `AudioQueueAssumption`.  `CountInBounds`
  alone is not inductive, because a thread stores the count it has seen plus or
  minus one.  `CountInv` adds that while a thread is between its check and its
  store, what it has seen and what is in memory both leave it room, or a sample
  (`PushHasRoom`, `PopHasOne`): only the other thread writes in between, and it
  moves the count away from the bound that was checked.  Three more layers hold
  until a push and a pop overlap.  `Orderly`: the ring, read from its first
  place, holds `waiting`, and the count is its length but for the sample in hand.
  `Whole`: what is in the chunk and in the queue together is still a chunk.
  `Sided`: left and right alternate through the chunk and the queue, and the next
  sample pushed continues them, which needs that a chunk is a whole number of
  pairs (`BUFFER_SIZE % 4 = 0`; it is 16384).
  Then the FIFOs.  `FifoInv` rests on `Good` of `DMAProofs` and on what each
  handler leaves alone of the other channels.  `Aimed`: an active sound channel feeds a FIFO
  in use.  `Room`: a FIFO with one feeder is at most half full while that
  channel is active; it is what makes `NothingDropped` inductive, since the
  channel brings half a FIFO.  `Stocked`: a FIFO once filled is at least half
  full unless its channel is active, and then short of half by no more than the
  overflows since it was asked.  This part is from `SoundAssumption` and
  `ChannelsAssumption`.
- `PipelineProofs`, from `PipelineAssumption`.  `PipelineInv` is `FetchedAhead`
  with `LinkHolds`: what an R14 holds is an address of its kind, so that the
  flush of a return does not align it any further.  `RunsInOrder` then has one
  step for each action.
  Then the arithmetic, from `AluAssumption`, for words of 1 to 32 bits and numbers
  of any length.  `AluInv` says what the flags are a record of: while the number
  holds, its words and the carry together are the sum or difference of all the
  operands, N is the sign of that total, V its overflow, and Z, of a single word,
  its being 0.  `LongArithmetic` is one case of it for each chain of carries, and
  `ConditionsDecide` one for each pair of conditions.  Powers of two are written out for
  each width (`Doubled`).
  `ShiftsExact` says of every word and amount where each bit goes.  It needs what
  dividing and multiplying by powers of two does to one bit: `BitsDown`, `BitsUp`,
  `LowerBits` for what a word drops, `JoinedBits` for a rotation's two halves and
  `OnesAbove` for the copies of a sign.  All of them rest on a power being the product
  of two lower ones (`PowersAdd`), by induction: `Induction` states it for a set
  and derives it from the library's theorem that `<` is well-founded.
- `MemoryBusProofs`.  The bus, from `WindowsAssumption` and `GuestWordsAssumption`: the
  waitstates are those of the constructor or those of some value of WAITCNT,
  none of which is 0; `BusInv` needs `WaitcntKept`, that the two bytes of that
  register stay bytes.
  The refinement is about arithmetic more than about steps.  `SamePlace` and
  `SameRegister`: the masks, and the ranges and beginnings of the register sets,
  give two addresses one cell just when one mirrors the other.  `Cells`: an
  access that fits uses, for each byte it names, the cell of that byte, or one
  of no address; and no cell twice.  `Strays`: an aligned access that does not
  fit has left the memory that exists.  The invariant, `Arrays`, is only that the
  cells in reach stay bytes.
  Then the refinement of the flash, from `FlashAssumption`.  A place in the file
  is how many of a bank's addresses come before; `FlashInv` needs besides the type
  `SavedSoFar`: what `Save` has written is the beginning of what it is to
  write, so that a death leaves of each byte the old flash's or nothing; and
  `Heard`: the state of the code is that of the command the program has
  begun.  `MappedWrite` compares the two for each state and store.
  Then the transfers, from `TransfersAssumption`: bytes of 1 to 8 bits, four to a
  word, and a memory smaller than the addresses.  `LoadsExact` is arithmetic:
  four bytes make one word and a word has its four bytes (`FromBytesIs`, `ToBytes`),
  and what a rotation and a sign do to them (`Rotations`, `Extensions`).
  `StackHolds` is not inductive: `StackInv` adds that memory holds each frame's
  registers, byte for byte, and that a newer frame lies beyond the older ones, so
  that a push disturbs none of them.  That two frames touch and do not overlap is
  `Geometry`, for bases near either end of the addresses, where the sums wrap; that
  every byte of a block is one register's is `BlockStore`, by counting (`Belows`).

Proved without a run of their own: the type invariants of `Interrupts`, `PPU`,
`DMA` and `RegisterSet`; `KeepsUp` (theorem `NeverBehind`), `StateMatchesVCount`
(`BeamConsistent`), `ActiveOnlyIfEnabled` (`OnlyEnabledRun`), `ControlMirrored`
(`ControlReadsBack`), `BankMatchesMode` (`BankMatches`), `ReturnsToInterrupted` (`Returns`), which follows from
`SavedStatusKept`, and `NewMatchWakes` (`RequestWakes`).

Model-checked only: the liveness properties (`BusReturned`, `HaltedWakes`,
`InterruptServed`, `RenderedForEver`, `QueuePlayed`), for liveness and
`ENABLED` are out of the prover's reach.  What the loop over the timers computes
is proved for up to four timers, and not for every number.  No module declares a RECURSIVE operator.

## 5. What is not modelled

- Decoding of instructions, the caches of decoded ones, and the ticks of
  multiplications: large tables and sums, without state that lasts.  A decoded
  instruction is kept by its opcode (`op_cache.hpp:21`) and looked up by the opcode
  fetched, so the cache cannot tell a program that rewrites itself from another; that
  what is kept under an opcode is right for each use of it is not checked.
- The values of samples, how they are mixed, and the rate of `APU::Tick`; the
  four tone channels are registers only.
- Mosaic, palettes, the arithmetic on colours, and the pixels of bitmap modes.
- SRAM's file, the search of the ROM for the kind of backup; EEPROM is not
  implemented in the code.
- The debugger, which is compiled in debug builds and is console input and output
  around a copy of the state; the window, the log, and SFML itself.

## 6. What could follow

A composition of `GBA` with `Timers` and `Sound`, in which a pass gives one batch of
ticks to all of them; and the layers of a line composed with the rows and the objects'
frame that are constants of `Layers` now.
