----------------------------- MODULE MemoryBus -----------------------------
(***************************************************************************)
(* Memory::Read and Write of memory/memory.cpp: which array an address is  *)
(* in, through the masks, the register sets of memory/io_registers.cpp and *)
(* the bounds of ReadToSize and WriteToSize; and the time an access takes, *)
(* with the waitstates of arm7tdmi/ir_io_registers.cpp.                    *)
(*                                                                         *)
(* A value is its bytes, the lowest first.  What a store to a register     *)
(* does besides being kept is part of the component whose register it is;  *)
(* IF and the timers' registers, which keep something else, are left out.  *)
(* The backup is the SRAM; Flash.tla is the other one.                     *)
(***************************************************************************)
EXTENDS Integers, Sequences

CONSTANTS
    Windows,     \* sets of addresses; a program uses those of one of them
    GuestWords,  \* quadruples of bytes, the values it stores
    Keys         \* the sets of keys the window's events leave held

\* The timers' registers and IF.
Elsewhere == {4 * 2 ^ 24 + r : r \in (256 .. 271) \cup {514, 515}}

ASSUME WindowsAssumption ==
    \A addresses \in Windows :
        addresses \subseteq Nat /\ \A a \in addresses, k \in 0 .. 3 : a + k \notin Elsewhere
ASSUME GuestWordsAssumption == GuestWords \subseteq [1 .. 4 -> 0 .. 255]

VARIABLES
    window,
    bytes,       \* of the arrays, those in reach of the window
    waits,       \* waitstateCounts
    keys,        \* the fields of Joypad that are true
    access,      \* history: the last access
    answer,      \* history: the bytes last read
    ticks,       \* history: what the last access added to the clock
    stopped      \* the process has called exit

vars == <<window, bytes, waits, keys, access, answer, ticks, stopped>>

Page(address) == address \div 2 ^ 24

KEYINPUT == 4 * 2 ^ 24 + 304

\* The arrays of mem and those of the register sets; io is their backup.
Size == [bios |-> 2 ^ 14, wramb |-> 2 ^ 18, wramc |-> 2 ^ 15, pram |-> 2 ^ 10,
         vram |-> 98304, oam |-> 2 ^ 10, rom |-> 2 ^ 25, sram |-> 2 ^ 16,
         lcd |-> 88, dma |-> 48, ir |-> 259, apu |-> 72, io |-> 2304]

\* The mask that an address is combined with, plus one.
Mask(array) == IF array = "vram" THEN 2 ^ 17 ELSE Size[array]

Array(page) == CASE page = 0 -> "bios"
                 [] page = 2 -> "wramb"
                 [] page = 3 -> "wramc"
                 [] page = 5 -> "pram"
                 [] page = 6 -> "vram"
                 [] page = 7 -> "oam"
                 [] page \in 8 .. 13 -> "rom"
                 [] page = 14 -> "sram"

\* The ranges of the register sets, without their ends.
RegisterSets == [lcd |-> <<0, 88>>, dma |-> <<176, 224>>, ir |-> <<512, 770>>,
                 apu |-> <<96, 168>>]

GetRegisterSet(register) ==
    {set \in DOMAIN RegisterSets :
        register \in RegisterSets[set][1] .. RegisterSets[set][2] - 1}

Register(address, width) ==
    LET register == address % 2 ^ 24
        sets     == GetRegisterSet(register)
        set      == CHOOSE x \in sets : TRUE
    IN  IF sets = {} THEN [array |-> "io", index |-> register, width |-> width]
        ELSE [array |-> set, index |-> register - RegisterSets[set][1], width |-> width]

-----------------------------------------------------------------------------
\* Where an access goes.  A word of registers is two halves; the backup
\* keeps and answers a byte.
Parts(address, width) ==
    IF Page(address) = 4
    THEN IF width = 4 THEN <<Register(address, 2), Register(address + 2, 2)>>
         ELSE <<Register(address, width)>>
    ELSE LET array == Array(Page(address))
         IN  <<[array |-> array, index |-> address % Mask(array),
                width |-> IF array = "sram" THEN 1 ELSE width]>>

PartsUsed(address, width) ==
    {Parts(address, width)[k] : k \in DOMAIN Parts(address, width)}

\* Neither read nor written: above the BIOS, and the pages without memory.
Absent(address) == \/ Page(address) = 1 \/ Page(address) >= 15
                   \/ Page(address) = 0 /\ address >= Size["bios"]

ReadOnly(address) == Page(address) = 0 \/ Page(address) \in 8 .. 13

(* Mutant of Fits: the last byte of an array is taken to be outside.       *)
FitsShort(part) == part.index + part.width < Size[part.array]
-----------------------------------------------------------------------------
\* ReadToSize and WriteToSize call exit past the end of an array.
Fits(part) == part.index + part.width <= Size[part.array]

\* So do single bytes for the DMA registers and the display's windows.
Refused(part) == /\ part.width = 1
                 /\ \/ part.array = "dma"
                    \/ part.array = "lcd" /\ part.index \in 64 .. 78

CellsOf(address, width) ==
    LET parts == Parts(address, width)
        first == parts[1].width
    IN  [k \in 1 .. (IF Len(parts) = 1 THEN first ELSE first + parts[2].width) |->
           IF k <= first THEN <<parts[1].array, parts[1].index + k - 1>>
           ELSE <<parts[2].array, parts[2].index + k - first - 1>>]
-----------------------------------------------------------------------------
(* Time.                                                                   *)
Waitstates == {"WS0", "WS1", "WS2"}

\* The counts that the constructor leaves.
NoWaits == [ws \in Waitstates |-> [nseq |-> 0, seq |-> 0]]

Field(waitcnt, weight, range) == (waitcnt \div weight) % range

NSEQ == <<4, 3, 2, 8>>
Fast == [WS0 |-> 2, WS1 |-> 4, WS2 |-> 8]   \* the longer sequential counts
At   == [WS0 |-> 4, WS1 |-> 32, WS2 |-> 256]  \* where its bits begin

(* Mutant of WaitstateControlUpdate: the last waitstate is forgotten.      *)
WaitstateControlUpdateTwo(waitcnt) ==
    [ws \in Waitstates |->
       IF ws = "WS2" THEN waits[ws]
       ELSE [nseq |-> NSEQ[Field(waitcnt, At[ws], 4) + 1] + 1,
             seq  |-> (IF Field(waitcnt, 4 * At[ws], 2) = 0 THEN Fast[ws] ELSE 1) + 1]]
-----------------------------------------------------------------------------
WaitstateControlUpdate(waitcnt) ==
    [ws \in Waitstates |->
       [nseq |-> NSEQ[Field(waitcnt, At[ws], 4) + 1] + 1,
        seq  |-> (IF Field(waitcnt, 4 * At[ws], 2) = 0 THEN Fast[ws] ELSE 1) + 1]]

Waitstate(page) == CASE page \in {8, 9} -> "WS0"
                     [] page \in {10, 11} -> "WS1"
                     [] page \in {12, 13, 14} -> "WS2"

(* Mutant of GamePakTicks: both halves of a word take the first's time.    *)
GamePakTicksTwice(width, page, seq) ==
    LET ws    == waits[Waitstate(page)]
        first == IF seq = "SEQ" THEN ws.seq ELSE ws.nseq
    IN  IF width = 4 THEN first + first ELSE first
-----------------------------------------------------------------------------
GamePakTicks(width, page, seq) ==
    LET ws    == waits[Waitstate(page)]
        first == IF seq = "SEQ" THEN ws.seq ELSE ws.nseq
    IN  IF width = 4 THEN first + ws.seq ELSE first

\* FREE is for what the emulator itself reads and writes.
Ticks(width, page, seq) ==
    CASE seq = "FREE" \/ page = 1 \/ page >= 15 -> 0
      [] seq # "FREE" /\ page \in {0, 3, 4, 7} -> 1
      [] seq # "FREE" /\ page = 2 -> IF width = 4 THEN 6 ELSE 3
      [] seq # "FREE" /\ page \in {5, 6} -> IF width = 4 THEN 2 ELSE 1
      [] seq # "FREE" /\ page \in 8 .. 13 -> GamePakTicks(width, page, seq)
      [] seq # "FREE" /\ page = 14 -> waits["WS2"].nseq
-----------------------------------------------------------------------------
Widths         == {1, 2, 4}
Sequentialities == {"NSEQ", "SEQ", "FREE"}
Nought         == <<0, 0, 0, 0>>

\* To a word, by zeros.
Widened(value) == value \o SubSeq(Nought, Len(value) + 1, 4)

Reach == {address + k : address \in window, k \in 0 .. 3}

\* The byte of an address that has one.
CellOf(address) == CellsOf(address, 1)[1]
Backed(address) == ~Absent(address) /\ \A part \in PartsUsed(address, 1) : Fits(part)

\* The BIOS and the ROM are read from files; the rest is 0 at first.
File(cell) == IF cell[1] \in {"bios", "rom"} THEN 1 + (cell[2] % 7) ELSE 0

Waitcnt(low, high) == low + 256 * high

\* Those of the bytes in reach; and misaligned accesses to registers touch
\* cells that no address names.
Touched(address, width) ==
    {CellsOf(address, width)[k] : k \in DOMAIN CellsOf(address, width)}

CellsInUse(addresses) ==
    LET present == {a \in {b + k : b \in addresses, k \in 0 .. 3} : ~Absent(a)}
    IN  {cell \in UNION {Touched(a, width) : a \in present, width \in Widths} :
            cell[2] < Size[cell[1]]}

Init == /\ window \in Windows
        /\ bytes = [cell \in {<<"ir", 4>>, <<"ir", 5>>} \cup CellsInUse(window) |->
                      File(cell)]
        /\ waits = NoWaits
        /\ keys = {}
        /\ access = <<"none", 0, 0>>
        /\ answer = Nought
        /\ ticks = 0
        /\ stopped = FALSE

KeyBit(held, k) == IF k \in held THEN 0 ELSE 2 ^ (k % 8)

GetKeyStatus(held) ==
    <<KeyBit(held, 0) + KeyBit(held, 1) + KeyBit(held, 2) + KeyBit(held, 3)
        + KeyBit(held, 4) + KeyBit(held, 5) + KeyBit(held, 6) + KeyBit(held, 7),
      KeyBit(held, 8) + KeyBit(held, 9) + 252>>

\* The keys come before the clock: they take no time.
ReadKeys(width) ==
    /\ ~stopped
    /\ KEYINPUT \in window
    /\ access' = <<"load", KEYINPUT, width>>
    /\ answer' = Widened(GetKeyStatus(keys))
    /\ ticks' = 0
    /\ UNCHANGED <<window, bytes, waits, keys, stopped>>

Read(address, width, seq) ==
    /\ ~stopped
    /\ address # KEYINPUT
    /\ access' = <<"load", address, width>>
    /\ ticks' = Ticks(width, Page(address), seq)
    /\ IF Absent(address) THEN answer' = Nought /\ UNCHANGED stopped
       ELSE IF \A part \in PartsUsed(address, width) : Fits(part)
       THEN LET cells == CellsOf(address, width)
            IN  /\ answer' = Widened([k \in DOMAIN cells |-> bytes[cells[k]]])
                /\ UNCHANGED stopped
       ELSE stopped' = TRUE /\ UNCHANGED answer
    /\ UNCHANGED <<window, bytes, waits, keys>>

Stored(address, width, value) ==
    LET cells == CellsOf(address, width)
    IN  [cell \in DOMAIN bytes |->
           IF \E k \in DOMAIN cells : cells[k] = cell
           THEN value[CHOOSE k \in DOMAIN cells : cells[k] = cell] ELSE bytes[cell]]

Write(address, width, value, seq) ==
    /\ ~stopped
    /\ access' = <<"store", address, width>>
    /\ ticks' = Ticks(width, Page(address), seq)
    /\ IF Absent(address) \/ ReadOnly(address) THEN UNCHANGED <<bytes, waits, stopped>>
       ELSE IF \A part \in PartsUsed(address, width) : Fits(part) /\ ~Refused(part)
       THEN /\ bytes' = Stored(address, width, value)
            /\ waits' = IF \E part \in PartsUsed(address, width) :
                             part.array = "ir" /\ part.index \in {4, 5}
                        THEN WaitstateControlUpdate(Waitcnt(bytes'[<<"ir", 4>>],
                                                            bytes'[<<"ir", 5>>]))
                        ELSE waits
            /\ UNCHANGED stopped
       ELSE stopped' = TRUE /\ UNCHANGED <<bytes, waits>>
    /\ UNCHANGED <<window, keys, answer>>

\* The joypad's keyUpdate, at the end of a frame.
KeyUpdate == /\ ~stopped
             /\ keys' \in Keys
             /\ UNCHANGED <<window, bytes, waits, access, answer, ticks, stopped>>

Next == \/ \E width \in Widths : ReadKeys(width)
        \/ \E address \in window, width \in Widths, seq \in Sequentialities :
              \/ Read(address, width, seq)
              \/ \E value \in GuestWords : Write(address, width, value, seq)
        \/ KeyUpdate

Spec == Init /\ [][Next]_vars
-----------------------------------------------------------------------------
\* The cell of every address that has one.
Home == [a \in {b \in {w + k : w \in UNION Windows, k \in 0 .. 3} : Backed(b)} |->
           CellOf(a)]

Space == INSTANCE AddressSpace
         WITH contents <- [a \in Reach |-> IF a \in DOMAIN Home THEN bytes[Home[a]] ELSE 0]

(* Memory::Read and Write are the memory of AddressSpace.tla: the masks    *)
(* and the register sets keep every byte apart from every other but its    *)
(* mirrors, at the edges of the regions too, and only an access that is    *)
(* not aligned, or falls where there is nothing behind the mask, or stores *)
(* a single byte in a register, ever ends the process.                     *)
ImplementsAddressSpace == Space!Spec

(* On the 16-bit buses a word takes as long as a half and the sequential   *)
(* half after it; once WAITCNT has been stored no access to the cartridge  *)
(* is free, so that a program cannot run with the clock standing still.    *)
Timed == {2} \cup (5 .. 6) \cup (8 .. 14)

AccessTimes ==
    /\ \A page \in Timed \ {14}, seq \in Sequentialities \ {"FREE"} :
          Ticks(4, page, seq) = Ticks(2, page, seq) + Ticks(2, page, "SEQ")
    /\ waits # NoWaits =>
          \A page \in Timed, width \in Widths, seq \in Sequentialities \ {"FREE"} :
             Ticks(width, page, seq) > 0
=============================================================================
