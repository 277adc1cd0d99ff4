----------------------------- MODULE CartBackup -----------------------------
(***************************************************************************)
(* What a flash cartridge backup promises.  The program gives it commands, *)
(* each a sequence of stores: two that unlock it, one that names the       *)
(* command and, for some, one with its data.  A complete command does what *)
(* it names, in the bank selected, and no other store changes anything,    *)
(* whatever its address and value.  A shutdown that completes stores all   *)
(* of the memory, and the next start begins with what is stored.  A        *)
(* process that dies loses what it did not store; if it dies during the    *)
(* shutdown, each byte is stored or is lost.                               *)
(***************************************************************************)
EXTENDS Sequences

CONSTANTS
    Banks,          \* the banks the cartridge has
    Addresses,
    Byte,
    Erased,         \* what an erased byte reads as
    Fresh,          \* what the memory holds where nothing is stored
    Sector(_),      \* the sector of an address
    SectorStarts,   \* the addresses that name one
    Stores,         \* of the program, pairs of address and value
    Unlock1, Unlock2,   \* the stores every command begins with
    CommandAddress,     \* where the next one names the command, but for
    ERASE_SECTOR,       \* this, which goes to the start of the sector,
    ERASE_CHIP, PROGRAM, SELECT,
    Modes               \* and commands that change no memory

VARIABLES
    content,        \* the memory; what is stored, while no process runs
    selected,       \* the bank selected, which the cartridge may not have
    said,           \* the stores of the command under way, or, until the
                    \* next one, of the command that they completed
    stored,
    phase           \* "off", "running" or "saving"

vars == <<content, selected, said, stored, phase>>

Memory == [Banks -> [Addresses -> Byte]]

Unlocked  == <<Unlock1, Unlock2>>
Named(op) == <<Unlock1, Unlock2, <<CommandAddress, op>>>>

Begun(c) == c \in {<<Unlock1>>, Unlocked, Named(PROGRAM), Named(SELECT)}

Programs(c)     == Len(c) = 4 /\ c = Append(Named(PROGRAM), c[4])
Selects(c)      == Len(c) = 4 /\ c = Append(Named(SELECT), c[4])
ErasesSector(c) == /\ Len(c) = 3
                   /\ c = Append(Unlocked, c[3])
                   /\ c[3][1] \in SectorStarts
                   /\ c[3][2] = ERASE_SECTOR
ErasesChip(c)   == c = Named(ERASE_CHIP)

Complete(c) == \/ Programs(c) \/ Selects(c) \/ ErasesSector(c) \/ ErasesChip(c)
               \/ \E op \in Modes : c = Named(op)

\* What has been said after one more store.  A store that is no part of a
\* command breaks it off; but after the unlock a command there is not may
\* be named, and it is passed over.
Hear(c, store) ==
    LET more == IF Begun(c) THEN Append(c, store) ELSE <<store>>
    IN  IF Begun(more) \/ Complete(more) THEN more
        ELSE IF c = Unlocked /\ store[1] = CommandAddress /\ store[2] # ERASE_SECTOR
        THEN c
        ELSE << >>

\* The memory and the bank selected once c has been said.
ContentAfter(c) ==
    [b \in Banks |-> [a \in Addresses |->
        IF Programs(c) /\ b = selected /\ a = c[4][1] THEN c[4][2]
        ELSE IF ErasesSector(c) /\ b = selected /\ Sector(a) = Sector(c[3][1]) THEN Erased
        ELSE IF ErasesChip(c) THEN Erased
        ELSE content[b][a]]]

SelectedAfter(c) == IF Selects(c) /\ c[4][2] \in {0, 1} THEN c[4][2] ELSE selected

Init == /\ content = stored
        /\ said = << >>
        /\ stored \in Memory
        /\ selected = 0
        /\ phase = "off"

Write == \E store \in Stores : /\ phase = "running"
                               /\ said' = Hear(said, store)
                               /\ content' = ContentAfter(said')
                               /\ selected' = SelectedAfter(said')
                               /\ UNCHANGED <<stored, phase>>

PowerUp == /\ phase = "off"
           /\ phase' = "running"
           /\ UNCHANGED <<content, selected, said, stored>>

\* The shutdown begins with nothing stored.
PowerDown == /\ phase = "running"
             /\ phase' = "saving"
             /\ stored' = [b \in Banks |-> Fresh]
             /\ UNCHANGED <<content, selected, said>>

Store == /\ phase = "saving"
         /\ stored' \in Memory
         /\ \A b \in Banks, a \in Addresses :
               stored'[b][a] \in {stored[b][a], content[b][a]}
         /\ UNCHANGED <<content, selected, said, phase>>

Off == phase' = "off" /\ selected' = 0 /\ said' = << >> /\ UNCHANGED stored

PoweredDown == phase = "saving" /\ stored = content /\ Off /\ UNCHANGED content

Die == phase # "off" /\ Off /\ content' = stored

Next == \/ Write
        \/ PowerUp
        \/ PowerDown
        \/ Store
        \/ PoweredDown
        \/ Die

Spec == Init /\ [][Next]_vars
=============================================================================
