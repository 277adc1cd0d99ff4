------------------------------ MODULE Transfers ------------------------------
(***************************************************************************)
(* The loads and stores of arm7tdmi/arm_opcodes.cpp, which the Thumb       *)
(* instructions call too: single words and bytes, halfwords, swaps and     *)
(* blocks of registers.                                                    *)
(*                                                                         *)
(* A word is four bytes of ByteValues values, a number in registers.       *)
(* Memory is plain, without the bus's regions.  R15 is part of the         *)
(* pipeline and left out, with the empty list of a block that stands for   *)
(* it; the S bit of blocks is part of the register banks.                  *)
(***************************************************************************)
EXTENDS Integers, Sequences, FiniteSets

CONSTANTS
    ByteValues,   \* 256
    Top,          \* memory is the addresses below
    Contents,     \* the bytes it holds at first
    Registers,    \* some of 0 .. 14
    Stack,        \* the register that addresses a stack
    Values,       \* words that the program puts in the others
    Bases,        \* ... and in Stack
    Offsets,      \* of single transfers
    MaxFrames     \* bound on the depth of the stack

WordRange == ByteValues ^ 4
Words == 0 .. WordRange - 1
Half  == ByteValues ^ 2

ASSUME TransfersAssumption ==
    /\ ByteValues \in {2, 4, 8, 16, 32, 64, 128, 256}
    /\ Top \in Nat /\ Top < WordRange
    /\ Contents \in [0 .. Top - 1 -> 0 .. ByteValues - 1]
    /\ Registers \subseteq 0 .. 14
    /\ Stack \in Registers
    /\ Values \subseteq Words
    /\ Bases \subseteq Words
    /\ Offsets \subseteq Nat
    /\ MaxFrames \in Nat

VARIABLES
    reg,
    memory,
    growth,       \* how the program's stack grows: pre and up of its stores
    frames,       \* history: the blocks on it, the last one first
    loaded        \* history: what the last single load or swap was and gave

transferVars == <<reg, memory, growth, frames, loaded>>

None == [kind |-> "none"]

InitTransfers ==
    /\ reg \in {r \in [Registers -> Values \cup Bases] : r[Stack] \in Bases}
    /\ memory = Contents
    /\ growth \in [pre : BOOLEAN, up : BOOLEAN]
    /\ frames = << >>
    /\ loaded = None
-----------------------------------------------------------------------------
(* ReadToSize and WriteToSize; the lowest byte has the lowest address.     *)
Within(address, width) == address + width <= Top

ReadToSize(m, address, width) ==
    CASE width = 1 -> m[address]
      [] width = 2 -> m[address] + ByteValues * m[address + 1]
      [] width = 4 -> m[address] + ByteValues * m[address + 1]
                        + Half * m[address + 2] + Half * ByteValues * m[address + 3]

WriteToSize(m, address, width, value) ==
    [a \in DOMAIN m |-> IF a \in address .. address + width - 1
                        THEN (value \div ByteValues ^ (a - address)) % ByteValues
                        ELSE m[a]]

\* Shift by ROR and a number of bytes.
Rotate(value, bytes) ==
    value \div ByteValues ^ bytes + (value % ByteValues ^ bytes) * ByteValues ^ (4 - bytes)

(* Mutant of ReadWord: it is not rotated.                                  *)
ReadWordAligned(m, address) == ReadToSize(m, address - (address % 4), 4)
-----------------------------------------------------------------------------
ReadWord(m, address) == Rotate(ReadToSize(m, address - (address % 4), 4), address % 4)

\* The base of a transfer, moved, and the address it uses.
Moved(base, up, offset) == (IF up THEN base + offset ELSE base - offset) % WordRange

Based(pre, up, Rn, offset) == IF pre THEN Moved(reg[Rn], up, offset) ELSE reg[Rn]

\* Written before what is loaded, which is the last to stay.
WriteBack(pre, up, writeback, Rn, offset) ==
    IF writeback \/ ~pre THEN [reg EXCEPT ![Rn] = Moved(reg[Rn], up, offset)] ELSE reg

Loaded(kind, address, value) ==
    [kind |-> kind, address |-> address, value |-> value, from |-> memory]

\* ArmSingleDataTransfer: byte or word.
ArmSingleDataTransfer(load, byte, pre, up, writeback, Rn, Rd, offset) ==
    LET address == Based(pre, up, Rn, offset)
        back    == WriteBack(pre, up, writeback, Rn, offset)
        aligned == address - (address % 4)
        value   == IF byte THEN ReadToSize(memory, address, 1) ELSE ReadWord(memory, address)
    IN  /\ Within(aligned, 4)
        /\ UNCHANGED <<growth, frames>>
        /\ \/ /\ load
              /\ reg' = [back EXCEPT ![Rd] = value]
              /\ loaded' = Loaded(IF byte THEN "byte" ELSE "word", address, value)
              /\ UNCHANGED memory
           \/ /\ ~load
              /\ reg' = back
              /\ memory' = IF byte THEN WriteToSize(memory, address, 1, reg[Rd])
                           ELSE WriteToSize(memory, aligned, 4, reg[Rd])
              /\ UNCHANGED loaded

\* At an odd address a word is read below it and rotated.
ReadHalf(m, address) ==
    IF address % 2 = 0 THEN ReadToSize(m, address, 2)
    ELSE Rotate(ReadToSize(m, address - 1, 4), 1)

\* The sign of a byte or halfword is copied above it.
Extend(value, size) == (value % size) + (WordRange - size)

SignedHalf(value, odd) ==
    IF value >= Half \div 2 THEN Extend(value, Half)
    ELSE IF odd /\ value % ByteValues >= ByteValues \div 2 THEN Extend(value, ByteValues)
    ELSE value

SignedByte(value) ==
    IF value >= ByteValues \div 2 THEN Extend(value, ByteValues) ELSE value

\* ArmHalfwordDT: a halfword, or a byte with its sign.
ArmHalfwordDT(load, half, signed, pre, up, writeback, Rn, Rd, offset) ==
    LET address == Based(pre, up, Rn, offset)
        back    == WriteBack(pre, up, writeback, Rn, offset)
        value   == CASE half /\ signed  -> SignedHalf(ReadHalf(memory, address), address % 2 = 1)
                     [] half /\ ~signed -> ReadHalf(memory, address)
                     [] ~half           -> SignedByte(ReadToSize(memory, address, 1))
        kind    == CASE half /\ signed  -> "signed half"
                     [] half /\ ~signed -> "half"
                     [] ~half           -> "signed byte"
    IN  /\ half \/ (load /\ signed)
        /\ Within(address - (address % 2), 4)
        /\ UNCHANGED <<growth, frames>>
        /\ \/ /\ load
              /\ reg' = [back EXCEPT ![Rd] = value]
              /\ loaded' = Loaded(kind, address, value)
              /\ UNCHANGED memory
           \/ /\ ~load
              /\ reg' = back
              /\ memory' = WriteToSize(memory, address - (address % 2), 2, reg[Rd])
              /\ UNCHANGED loaded

ArmSingleDataSwap(byte, Rn, Rd, Rm) ==
    LET address == reg[Rn]
        aligned == address - (address % 4)
        value   == IF byte THEN ReadToSize(memory, address, 1) ELSE ReadWord(memory, address)
    IN  /\ Within(aligned, 4)
        /\ memory' = IF byte THEN WriteToSize(memory, address, 1, reg[Rm])
                     ELSE WriteToSize(memory, aligned, 4, reg[Rm])
        /\ reg' = [reg EXCEPT ![Rd] = value]
        /\ loaded' = Loaded(IF byte THEN "byte" ELSE "word", address, value)
        /\ UNCHANGED <<growth, frames>>
-----------------------------------------------------------------------------
(* Blocks: the lower register always has the lower address.                *)
Place(list, r) == 4 * Cardinality({x \in list : x < r})

(* Mutant of First: a block stored downwards begins a word too low after   *)
(* the base as well.                                                       *)
FirstPreOnly(base, pre, up, n) ==
    (IF up THEN base + (IF pre THEN 4 ELSE 0) ELSE base - 4 * n) % WordRange
-----------------------------------------------------------------------------
First(base, pre, up, n) ==
    (IF up THEN base + (IF pre THEN 4 ELSE 0)
     ELSE base - 4 * n + (IF pre THEN 0 ELSE 4)) % WordRange

After(base, up, n) == Moved(base, up, 4 * n)

\* ArmBlockDataTransfer with L: a base that is loaded is not written back.
LoadBlock(base, pre, up, writeback, Rn, list) ==
    LET n     == Cardinality(list)
        first == First(base, pre, up, n)
    IN  [r \in Registers |->
           CASE r \in list -> ReadToSize(memory, first + Place(list, r), 4)
             [] r \notin list /\ r = Rn /\ writeback -> After(base, up, n)
             [] OTHER -> reg[r]]

\* ... and without: a base that is not the lowest is stored as moved.
StoreBlock(pre, up, Rn, list) ==
    LET n     == Cardinality(list)
        first == First(reg[Rn], pre, up, n)
        value == [r \in list |-> IF r = Rn /\ Place(list, r) # 0
                                 THEN After(reg[Rn], up, n) ELSE reg[r]]
    IN  [a \in DOMAIN memory |->
           IF a \in first .. first + 4 * n - 1
           THEN LET r == CHOOSE r \in list : Place(list, r) = 4 * ((a - first) \div 4)
                IN  (value[r] \div ByteValues ^ ((a - first) % 4)) % ByteValues
           ELSE memory[a]]

ArmBlockDataTransfer(load, pre, up, writeback, Rn, list) ==
    LET n     == Cardinality(list)
        first == First(reg[Rn], pre, up, n)
    IN  /\ list # {}
        /\ Within(first, 4 * n)
        /\ UNCHANGED <<growth, loaded>>
        /\ \/ /\ load
              /\ reg' = LoadBlock(reg[Rn], pre, up, writeback, Rn, list)
              /\ UNCHANGED memory
           \/ /\ ~load
              /\ memory' = StoreBlock(pre, up, Rn, list)
              /\ reg' = IF writeback THEN [reg EXCEPT ![Rn] = After(@, up, n)] ELSE reg
-----------------------------------------------------------------------------
(* A program uses single transfers while its stack is empty, stores on it  *)
(* with one kind of block and loads with the opposite kind.                *)
Single ==
    /\ frames = << >>
    /\ \E Rn, Rd \in Registers, offset \in Offsets,
          load, pre, up, writeback \in BOOLEAN :
         \/ \E byte \in BOOLEAN :
              ArmSingleDataTransfer(load, byte, pre, up, writeback, Rn, Rd, offset)
         \/ \E half, signed \in BOOLEAN :
              ArmHalfwordDT(load, half, signed, pre, up, writeback, Rn, Rd, offset)

Swap == /\ frames = << >>
        /\ \E byte \in BOOLEAN, Rn, Rd, Rm \in Registers :
              ArmSingleDataSwap(byte, Rn, Rd, Rm)

\* ThumbPushPopReg and ThumbMultipleLS call it in two of the four ways.
Push == \E list \in SUBSET Registers :
           /\ Len(frames) < MaxFrames
           /\ Stack \in list => Place(list, Stack) = 0
           /\ ArmBlockDataTransfer(FALSE, growth.pre, growth.up, TRUE, Stack, list)
           /\ frames' = <<[list |-> list, base |-> reg[Stack], top |-> reg'[Stack],
                           values |-> [r \in list |-> reg[r]]]>> \o frames

Pop == /\ frames # << >>
       /\ ArmBlockDataTransfer(TRUE, ~growth.pre, ~growth.up, TRUE, Stack, Head(frames).list)
       /\ frames' = Tail(frames)

\* The last frame read without changing the base.
Peek == /\ frames # << >>
        /\ ArmBlockDataTransfer(TRUE, ~growth.pre, ~growth.up, FALSE, Stack,
                                Head(frames).list \ {Stack})
        /\ UNCHANGED frames

\* Any other instruction.
Clobber == \E r \in Registers \ {Stack}, value \in Values :
              /\ reg' = [reg EXCEPT ![r] = value]
              /\ UNCHANGED <<memory, growth, frames, loaded>>

NextTransfer == Single \/ Swap \/ Push \/ Pop \/ Peek \/ Clobber

TransfersSpec == InitTransfers /\ [][NextTransfer]_transferVars
-----------------------------------------------------------------------------
ByteOf(value, k) == (value \div ByteValues ^ k) % ByteValues

(* A load gives the byte at its address lowest, whatever its width and     *)
(* alignment; an aligned one the bytes above it, and above those its sign  *)
(* or nothing; a word that is not aligned the other bytes of its word in   *)
(* turn.  A swap gives what was there before.  A halfword at an odd        *)
(* address brings along the two bytes that the rotation leaves above it,   *)
(* unless it is signed: then they are its sign, but ones as well if either *)
(* of them was not 0, and only if neither was and the halfword is positive *)
(* does the sign of its first byte replace all above, as it should.        *)
LoadsExact ==
    loaded # None =>
      LET a     == loaded.address
          value == loaded.value
          m     == loaded.from
          kind  == loaded.kind
          Ones  == ByteValues - 1
          Filled(from, byte) == \A k \in from .. 3 : ByteOf(value, k) = byte
          Negative(byte) == 2 * byte >= ByteValues
          Sign(byte) == IF Negative(byte) THEN Ones ELSE 0
      IN  /\ value \in Words
          /\ ByteOf(value, 0) = m[a]
          /\ kind = "byte" => Filled(1, 0)
          /\ kind = "signed byte" => Filled(1, Sign(m[a]))
          /\ kind \in {"half", "signed half"} /\ a % 2 = 0 =>
               /\ ByteOf(value, 1) = m[a + 1]
               /\ Filled(2, IF kind = "half" THEN 0 ELSE Sign(m[a + 1]))
          /\ kind = "half" /\ a % 2 = 1 =>
               /\ ByteOf(value, 1) = m[a + 1]
               /\ ByteOf(value, 2) = m[a + 2]
               /\ ByteOf(value, 3) = m[a - 1]
          /\ kind = "signed half" /\ a % 2 = 1 =>
               LET spoiled == Negative(m[a + 1]) \/ m[a + 2] # 0 \/ m[a - 1] # 0
               IN  /\ spoiled => ByteOf(value, 1) = m[a + 1] /\ Filled(2, Ones)
                   /\ ~spoiled /\ Negative(m[a]) => Filled(1, Ones)
                   /\ ~spoiled /\ ~Negative(m[a]) =>
                        ByteOf(value, 1) = m[a + 1] /\ Filled(2, 0)
          /\ kind = "word" =>
               \A k \in 0 .. 3 : ByteOf(value, k) = m[a - (a % 4) + ((a + k) % 4)]

(* What is on the stack can be taken off again, whichever way it grows,    *)
(* aligned or not and with the base itself on it, if it is the lowest of   *)
(* the list: the opposite kind of block brings back every register and the *)
(* base, for all of the frames.                                            *)
StackHolds ==
    \A k \in 1 .. Len(frames) :
      LET f == frames[k]
          r == LoadBlock(f.top, ~growth.pre, ~growth.up, TRUE, Stack, f.list)
      IN  /\ f.top = IF k = 1 THEN reg[Stack] ELSE frames[k - 1].base
          /\ r[Stack] = f.base
          /\ \A x \in f.list : r[x] = f.values[x]
=============================================================================
