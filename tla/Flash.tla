-------------------------------- MODULE Flash --------------------------------
(***************************************************************************)
(* The flash memory of memory/flash.cpp: the state machine that recognises *)
(* commands in the stores of the program, its two banks, and the save file *)
(* that the constructor reads and Save, which only a clean exit calls,     *)
(* writes.  Addresses are those left by FLASH_BANK_MASK; Read changes no   *)
(* state and is left out, with the identifiers it returns in ID mode.      *)
(***************************************************************************)
EXTENDS Integers, Sequences, FiniteSets

CONSTANTS
    ChipSize,       \* "Single" or "Double"
    Addresses,      \* of a bank
    SectorSize,     \* 0x1000
    GuestStores,    \* stores of the program, pairs of address and value
    GuestData       \* stores it makes when the next one programs a byte

Byte   == 0 .. 255
Erased == 255

CHIP_ID_ENABLE  == 144  \* 0x90
CHIP_ID_DISABLE == 240  \* 0xF0
ERASE           == 128  \* 0x80
ERASE_CHIP      == 16   \* 0x10
ERASE_SECTOR    == 48   \* 0x30
WRITE_SINGLE    == 160  \* 0xA0
BANK_SWITCH     == 176  \* 0xB0

\* FLASH_BANK_MASK leaves addresses of a bank, and a store is of a byte.
ASSUME FlashAssumption ==
    /\ ChipSize \in {"Single", "Double"}
    /\ IsFiniteSet(Addresses) /\ Addresses \subseteq Nat
    /\ SectorSize \in Nat \ {0}
    /\ GuestStores \cup GuestData \subseteq Addresses \X Byte

VARIABLES
    flash,          \* the fields of Flash
    file,           \* the bytes of the save file; none is as good as empty
    phase,          \* "off", "running" or "saving"
    said            \* history: the stores of the command the program is
                    \* giving or has just given, as CartBackup tells them

flashVars == <<flash, file, phase, said>>

States == {"INIT0", "INIT1", "OPERATION", "ACCEPT_WRITE", "ACCEPT_BANK_SWITCH"}

Fields == [state : States, currentBank : 0 .. 1, idMode : BOOLEAN,
           eraseEnable : BOOLEAN, bank : [0 .. 1 -> [Addresses -> Byte]]]

\* The initialiser {0xFF} is for the first byte only.
Fresh == [a \in Addresses |-> IF a = 0 THEN 255 ELSE 0]

Sector(a) == a \div SectorSize

\* The banks that the save file has, and where it has a byte.
Banks == IF ChipSize = "Double" THEN 0 .. 1 ELSE {0}
Position(b, a) ==
    b * Cardinality(Addresses) + Cardinality({x \in Addresses : x <= a})
FileSize == Cardinality(Banks) * Cardinality(Addresses)

\* The inverse of Position.
CellAt(n) == CHOOSE cell \in Banks \X Addresses : Position(cell[1], cell[2]) = n

(* Mutant of WriteFlash: a byte that has been programmed does not reset    *)
(* the state.                                                              *)
WriteFlashKeepsProgramming(f, address, value) ==
    IF f.state = "ACCEPT_WRITE" THEN [f EXCEPT !.bank[f.currentBank][address] = value]
    ELSE f
-----------------------------------------------------------------------------
\* The constructor.  A file that is too short is read as far as it goes.
Load(bytes) ==
    [state |-> "INIT0", currentBank |-> 0, idMode |-> FALSE, eraseEnable |-> FALSE,
     bank |-> [b \in 0 .. 1 |-> [a \in Addresses |->
         IF b \in Banks /\ Position(b, a) <= Len(bytes)
         THEN bytes[Position(b, a)] ELSE Fresh[a]]]]

EraseSector(f, sector) ==
    [f EXCEPT !.bank[f.currentBank] =
                  [a \in Addresses |-> IF Sector(a) = sector THEN Erased ELSE @[a]],
              !.state = "INIT0"]

EraseChip(f) ==
    [f EXCEPT !.bank = [b \in 0 .. 1 |-> [a \in Addresses |-> Erased]],
              !.eraseEnable = FALSE, !.state = "INIT0"]

\* A value that is no operation leaves the state as it is.
HandleOperation(f, value) ==
    CASE value = CHIP_ID_ENABLE  -> [f EXCEPT !.idMode = TRUE, !.state = "INIT0"]
      [] value = CHIP_ID_DISABLE -> [f EXCEPT !.idMode = FALSE, !.state = "INIT0"]
      [] value = ERASE           -> [f EXCEPT !.eraseEnable = TRUE, !.state = "INIT0"]
      [] value = ERASE_CHIP      -> EraseChip(f)
      [] value = WRITE_SINGLE    -> [f EXCEPT !.state = "ACCEPT_WRITE"]
      [] value = BANK_SWITCH     -> [f EXCEPT !.state = "ACCEPT_BANK_SWITCH"]
      [] OTHER                   -> f

AcceptBankSwitch(f, value) ==
    [f EXCEPT !.currentBank = IF value < 2 THEN value ELSE @, !.state = "INIT0"]

\* Flash::Write; 0x5555 and 0x2AAA are the addresses of the unlock stores.
WriteFlash(f, address, value) ==
    CASE f.state = "INIT0" ->
           IF value = 170 /\ address = 21845 THEN [f EXCEPT !.state = "INIT1"] ELSE f
      [] f.state = "INIT1" ->
           [f EXCEPT !.state = IF value = 85 /\ address = 10922
                               THEN "OPERATION" ELSE "INIT0"]
      [] f.state = "OPERATION" ->
           IF address = 21845 /\ value # ERASE_SECTOR THEN HandleOperation(f, value)
           ELSE IF value = ERASE_SECTOR /\ address % SectorSize = 0
           THEN EraseSector(f, Sector(address))
           ELSE [f EXCEPT !.state = "INIT0"]
      [] f.state = "ACCEPT_WRITE" ->
           [f EXCEPT !.bank[f.currentBank][address] = value, !.state = "INIT0"]
      [] f.state = "ACCEPT_BANK_SWITCH" -> AcceptBankSwitch(f, value)
-----------------------------------------------------------------------------
Saved == [b \in Banks |-> Load(file).bank[b]]

Device == INSTANCE CartBackup WITH
    content        <- IF phase = "off" THEN Saved ELSE [b \in Banks |-> flash.bank[b]],
    selected       <- IF phase = "off" THEN 0 ELSE flash.currentBank,
    stored         <- Saved,
    SectorStarts   <- {a \in Addresses : a % SectorSize = 0},
    Stores         <- GuestStores \cup GuestData,
    Unlock1        <- <<21845, 170>>,
    Unlock2        <- <<10922, 85>>,
    CommandAddress <- 21845,
    PROGRAM        <- WRITE_SINGLE,
    SELECT         <- BANK_SWITCH,
    Modes          <- {CHIP_ID_ENABLE, CHIP_ID_DISABLE, ERASE}
-----------------------------------------------------------------------------
InitFlash == /\ file = << >>
             /\ flash = Load(file)
             /\ phase = "off"
             /\ said = << >>

Start == /\ phase = "off"
         /\ flash' = Load(file)
         /\ phase' = "running"
         /\ UNCHANGED <<file, said>>

GuestWrite ==
    \E store \in IF flash.state = "ACCEPT_WRITE" THEN GuestData ELSE GuestStores :
       /\ phase = "running"
       /\ flash' = WriteFlash(flash, store[1], store[2])
       /\ said' = Device!Hear(said, store)
       /\ UNCHANGED <<file, phase>>

\* Save in the destructor of GBA: opening the file empties it, and bytes
\* are added to it one by one.
Save == /\ phase = "running"
        /\ file' = << >>
        /\ phase' = "saving"
        /\ UNCHANGED <<flash, said>>

SaveByte == LET cell == CellAt(Len(file) + 1)
            IN  /\ phase = "saving"
                /\ Len(file) < FileSize
                /\ file' = Append(file, flash.bank[cell[1]][cell[2]])
                /\ UNCHANGED <<flash, phase, said>>

\* The fields are gone with the process; Load(<<>>) stands for that.
Stop == phase' = "off" /\ flash' = Load(<< >>) /\ said' = << >> /\ UNCHANGED file

SaveDone == phase = "saving" /\ Len(file) = FileSize /\ Stop

\* The process is killed or calls exit, or Save could not open the file.
Die == phase # "off" /\ Stop

NextFlash == \/ Start
             \/ GuestWrite
             \/ Save
             \/ SaveByte
             \/ SaveDone
             \/ Die

FlashSpec == InitFlash /\ [][NextFlash]_flashVars
-----------------------------------------------------------------------------
(* The bank selected is one of the two arrays, and bytes are bytes.        *)
FlashTypeOK == /\ flash \in Fields
               /\ file \in Seq(Byte) /\ Len(file) <= FileSize
               /\ phase \in {"off", "running", "saving"}

(* Whatever the program stores, every command that it completes does what  *)
(* it names, in the bank selected, and no store changes anything else: not *)
(* the parts of a command broken off, nor data that look like an unlock.   *)
(* And a clean exit followed by a start, in the layout Save and the        *)
(* constructor each have of the file, brings all of it back.               *)
ImplementsBackup == Device!Spec
=============================================================================
