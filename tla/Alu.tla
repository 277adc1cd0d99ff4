--------------------------------- MODULE Alu ---------------------------------
(***************************************************************************)
(* The arithmetic of the CPU: the shifter, the data processing and the     *)
(* multiplications of arm7tdmi/arm_opcodes.cpp, which the Thumb            *)
(* instructions call too, and the conditions of registers.cpp.             *)
(*                                                                         *)
(* Registers hold any words, so an operand is any word: between two        *)
(* instructions a load may replace them all.  What stays is the condition  *)
(* flags.  A word is a number below 2^WordBits; the code's bitwise         *)
(* formulas for overflow, which only look at bit 31, are about signs.      *)
(* Operands and results in R15 are part of the pipeline and left out, but  *)
(* for the status they restore.                                            *)
(***************************************************************************)
EXTENDS Integers

CONSTANTS
    WordBits,     \* 32
    Operands,     \* words that registers hold, below 2 ^ WordBits
    Amounts,      \* shift amounts a register holds in its lower byte
    Restored,     \* flags that an SPSR brings back or MSR writes
    MaxWords      \* bound of the history: words of a long number

VARIABLES
    flags,        \* n, z, c and v of CPSR
    number        \* history: the long numbers added or subtracted so far

aluVars == <<flags, number>>

Range == 2 ^ WordBits
Words == 0 .. Range - 1
Sign(x) == x >= Range \div 2
Flags == [n : BOOLEAN, z : BOOLEAN, c : BOOLEAN, v : BOOLEAN]
ShiftTypes == {"LSL", "LSR", "ASR", "ROR"}

ASSUME AluAssumption ==
    /\ WordBits \in 1 .. 32
    /\ Operands \subseteq Words
    /\ Amounts \subseteq 0 .. 255
    /\ Restored \subseteq Flags
    /\ MaxWords \in Nat \ {0}

-----------------------------------------------------------------------------
(* The shifter: each operator gives the shifted value and the carry out.   *)
Shifted(value, carry) == [value |-> value, carry |-> carry]

\* The bit that a shift by this amount, 1 to WordBits, moves out to the right.
LastOut(value, amount) == (value \div 2 ^ (amount - 1)) % 2 = 1

ShiftLeft(value, amount, carry) ==
    IF amount = 0 THEN Shifted(value, carry)
    ELSE IF amount < WordBits
    THEN LET almost == (value * 2 ^ (amount - 1)) % Range
         IN  Shifted((almost * 2) % Range, Sign(almost))
    ELSE IF amount = WordBits THEN Shifted(0, value % 2 = 1)
    ELSE Shifted(0, FALSE)

\* The sign's copies, the upper bits of this number.
UpperOnes(amount) == Range - 2 ^ (WordBits - amount)

ShiftRight(value, amount, arithmetic) ==
    Shifted(value \div 2 ^ amount
              + (IF arithmetic /\ Sign(value) THEN UpperOnes(amount) ELSE 0),
            LastOut(value, amount))

\* A shift by more than WordBits has a result of its own, but the code goes on
\* to shift that by amount - 1 and to make a mask by amount, which is
\* undefined: the machine shifts by the amount modulo WordBits, or to zero.
ShiftRightFar(value, amount, arithmetic) ==
    IF ~(arithmetic /\ Sign(value)) THEN {Shifted(0, FALSE)}
    ELSE {Shifted(IF amount % WordBits = 0 THEN 0 ELSE Range - 1, TRUE),
          Shifted(0, FALSE)}

RotateRight(value, amount) ==
    LET by == IF amount % WordBits = 0 THEN WordBits ELSE amount % WordBits
    IN  Shifted(value \div 2 ^ by + ((value * 2 ^ (WordBits - by)) % Range),
                LastOut(value, by))

RotateExtended(value, carry) ==
    Shifted(value \div 2 + (IF carry THEN Range \div 2 ELSE 0), value % 2 = 1)

(* Mutant of Shift: an immediate amount of 0 shifts by nothing.            *)
ShiftNoZeroAmount(value, type, amount, byRegister, carry) ==
    CASE type = "LSL" -> {ShiftLeft(value, amount, carry)}
      [] type \in {"LSR", "ASR"} ->
           IF amount > WordBits THEN ShiftRightFar(value, amount, type = "ASR")
           ELSE IF amount = 0 THEN {Shifted(value, carry)}
           ELSE {ShiftRight(value, amount, type = "ASR")}
      [] type = "ROR" ->
           IF amount > 0 THEN {RotateRight(value, amount)}
           ELSE IF byRegister THEN {Shifted(value, carry)}
           ELSE {RotateExtended(value, carry)}

-----------------------------------------------------------------------------
\* CPU::Shift.  An immediate amount of 0 stands for WordBits to the right.
Shift(value, type, amount, byRegister, carry) ==
    CASE type = "LSL" -> {ShiftLeft(value, amount, carry)}
      [] type \in {"LSR", "ASR"} ->
           IF amount > WordBits THEN ShiftRightFar(value, amount, type = "ASR")
           ELSE IF amount > 0 THEN {ShiftRight(value, amount, type = "ASR")}
           ELSE IF byRegister THEN {Shifted(value, carry)}
           ELSE {ShiftRight(value, WordBits, type = "ASR")}
      [] type = "ROR" ->
           IF amount > 0 THEN {RotateRight(value, amount)}
           ELSE IF byRegister THEN {Shifted(value, carry)}
           ELSE {RotateExtended(value, carry)}

\* RegisterSet::ConditionCheck
ConditionCheck(f, cond) ==
    CASE cond = "EQ" -> f.z
      [] cond = "NE" -> ~f.z
      [] cond = "CS" -> f.c
      [] cond = "CC" -> ~f.c
      [] cond = "MI" -> f.n
      [] cond = "PL" -> ~f.n
      [] cond = "VS" -> f.v
      [] cond = "VC" -> ~f.v
      [] cond = "HI" -> f.c /\ ~f.z
      [] cond = "LS" -> ~f.c \/ f.z
      [] cond = "GE" -> f.n = f.v
      [] cond = "LT" -> f.n # f.v
      [] cond = "GT" -> f.n = f.v /\ ~f.z
      [] cond = "LE" -> f.n # f.v \/ f.z
      [] cond = "AL" -> TRUE
      [] cond = "NV" -> FALSE
-----------------------------------------------------------------------------
(* The arithmetic of DataProcessing: result, carry and overflow.           *)
Computed(value, carry, overflow) ==
    [value |-> value, carry |-> carry, overflow |-> overflow]

Add(a, b) ==
    LET dest == (a + b) % Range
    IN  Computed(dest, a + b >= Range, Sign(a) = Sign(b) /\ Sign(a) # Sign(dest))

AddCarry(a, b, carry) ==
    LET total == a + b + (IF carry THEN 1 ELSE 0)
        first == (a + b) % Range
        dest  == total % Range
    IN  Computed(dest, total >= Range,
                 (Sign(a) = Sign(b) /\ Sign(first) # Sign(b))
                   # (~Sign(first) /\ Sign(dest)))

(* Mutant of Subtract: overflow as for an addition.                        *)
SubtractLikeAdd(a, b) ==
    LET dest == (a - b) % Range
    IN  Computed(dest, a >= b, Sign(a) = Sign(b) /\ Sign(b) # Sign(dest))

-----------------------------------------------------------------------------
Subtract(a, b) ==
    LET dest == (a - b) % Range
    IN  Computed(dest, a >= b, Sign(a) # Sign(b) /\ Sign(b) = Sign(dest))

(* Mutant of SubtractBorrow: the borrow is left out of the carry.          *)
SubtractBorrowOnce(a, b, carry) ==
    LET first == (a - b) % Range
        dest  == (first - (IF carry THEN 0 ELSE 1)) % Range
    IN  Computed(dest, a >= b,
                 (Sign(a) # Sign(b) /\ Sign(first) = Sign(b))
                   # (Sign(first) /\ ~Sign(dest)))
-----------------------------------------------------------------------------
SubtractBorrow(a, b, carry) ==
    LET borrow == IF carry THEN 0 ELSE 1
        first  == (a - b) % Range
        dest   == (first - borrow) % Range
    IN  Computed(dest, a >= b /\ first >= borrow,
                 (Sign(a) # Sign(b) /\ Sign(first) = Sign(b))
                   # (Sign(first) /\ ~Sign(dest)))

Compares    == {"CMP", "CMN"}
Arithmetics == {"SUB", "RSB", "ADD", "ADC", "SBC", "RSC"} \cup Compares

Compute(op, a, b, carry) ==
    CASE op \in {"ADD", "CMN"} -> Add(a, b)
      [] op \in {"SUB", "CMP"} -> Subtract(a, b)
      [] op = "RSB"            -> Subtract(b, a)
      [] op = "ADC"            -> AddCarry(a, b, carry)
      [] op = "SBC"            -> SubtractBorrow(a, b, carry)
      [] op = "RSC"            -> SubtractBorrow(b, a, carry)

SetFlags(f, value, carry) ==
    [f EXCEPT !.n = Sign(value), !.z = (value = 0), !.c = carry]
-----------------------------------------------------------------------------
(* The history: numbers x and y of several words are added or subtracted   *)
(* word by word, with the carry from one to the next, and give total.      *)
(* range is one more than the largest number of that many words, and exact *)
(* is false once V is no longer that of this operation.                    *)
NoNumber == [kind |-> "none", x |-> 0, y |-> 0, total |-> 0, words |-> 0,
             range |-> 1, exact |-> FALSE]

Kind(op) == IF op \in {"ADD", "CMN", "ADC"} THEN "sum" ELSE "difference"

Extended(op, a, b, value) ==
    LET x == IF op \in {"RSB", "RSC"} THEN b ELSE a
        y == IF op \in {"RSB", "RSC"} THEN a ELSE b
    IN  IF op \notin {"ADC", "SBC", "RSC"}
        THEN [kind |-> Kind(op), x |-> x, y |-> y, total |-> value,
              words |-> 1, range |-> Range, exact |-> TRUE]
        ELSE IF Kind(op) # number.kind \/ number.words = MaxWords THEN NoNumber
        ELSE [kind |-> Kind(op), x |-> number.x + x * number.range,
              y |-> number.y + y * number.range,
              total |-> number.total + value * number.range,
              words |-> number.words + 1, range |-> number.range * Range,
              exact |-> TRUE]

InitAlu == flags \in Flags /\ number = NoNumber     \* CPSR is not initialised

\* DataProcessing with the arithmetic operations.  V is written whether or
\* not the instruction has S.
DataProcessing(op, S, a, b) ==
    LET r == Compute(op, a, b, flags.c)
        f == [flags EXCEPT !.v = r.overflow]
    IN  IF S \/ op \in Compares
        THEN /\ flags' = SetFlags(f, r.value, r.carry)
             /\ number' = Extended(op, a, b, r.value)
        ELSE /\ flags' = f
             /\ number' = [number EXCEPT !.exact = FALSE]

\* The same with S and R15: the saved status comes back before the carry is
\* read and the flags are written, V and those of a comparison on top of it.
Return(op, f, a, b) ==
    LET r == Compute(op, a, b, f.c)
        g == [f EXCEPT !.v = r.overflow]
    IN  /\ flags' = IF op \in Compares THEN SetFlags(g, r.value, r.carry) ELSE g
        /\ number' = NoNumber

\* AND, EOR, ORR, BIC and MVN with S, TST and TEQ: any result, with the
\* carry of the shifter.  Without S they change no flag.  TST and TEQ with
\* R15 write theirs over those that come back.
Logical(f, value, carry) == /\ flags' = SetFlags(f, value, carry)
                            /\ number' = NoNumber

\* MOV with S.
Move(value, type, amount, byRegister) ==
    /\ \E s \in Shift(value, type, amount, byRegister, flags.c) :
          flags' = SetFlags(flags, s.value, s.carry)
    /\ number' = NoNumber

\* MOV and the like with S and R15, and MSR, which writes FlagsFromU4.
Restore(f) == flags' = f /\ number' = NoNumber

\* ArmMultiply and ArmMultiplyLong with S, of any product.
Multiply(negative, zero) ==
    /\ ~(negative /\ zero)
    /\ flags' = [flags EXCEPT !.n = negative, !.z = zero]
    /\ number' = NoNumber

(* The Thumb instructions that call DataProcessing.                        *)
ThumbMoveShiftedReg(op, offset, s) ==
    /\ op # 3                                   \* which ends the process
    /\ Move(s, <<"LSL", "LSR", "ASR">>[op + 1], offset, FALSE)

ThumbAddSubtract(op, s, n) == DataProcessing(IF op = 1 THEN "SUB" ELSE "ADD", TRUE, s, n)

ThumbMoveCompAddSubImm(op, d, offset) ==
    \/ op = 0 /\ Logical(flags, offset, flags.c)
    \/ op = 1 /\ DataProcessing("CMP", TRUE, d, offset)
    \/ op = 2 /\ DataProcessing("ADD", TRUE, d, offset)
    \/ op = 3 /\ DataProcessing("SUB", TRUE, d, offset)

\* The numbers of the operations are those of DPOps but for the shifts, NEG
\* and MUL; the logical ones have the carry of a shift by 0.
ThumbALUOps(op, d, s) ==
    \/ op = 2  /\ Move(d, "LSL", s % 256, TRUE)
    \/ op = 3  /\ Move(d, "LSR", s % 256, TRUE)
    \/ op = 4  /\ Move(d, "ASR", s % 256, TRUE)
    \/ op = 7  /\ Move(d, "ROR", s % 256, TRUE)
    \/ op = 9  /\ DataProcessing("RSB", TRUE, s, 0)
    \/ op = 13 /\ \E negative, zero \in BOOLEAN : Multiply(negative, zero)
    \/ op = 5  /\ DataProcessing("ADC", TRUE, d, s)
    \/ op = 6  /\ DataProcessing("SBC", TRUE, d, s)
    \/ op = 10 /\ DataProcessing("CMP", TRUE, d, s)
    \/ op = 11 /\ DataProcessing("CMN", TRUE, d, s)
    \/ /\ op \in {0, 1, 8, 12, 14, 15}
       /\ \E value \in Operands : Logical(flags, value, flags.c)

\* MOV changes no flag, and BX is part of RegisterSet.
ThumbHiRegOps(op, d, s) == \/ op = 0 /\ DataProcessing("ADD", FALSE, d, s)
                           \/ op = 1 /\ DataProcessing("CMP", TRUE, d, s)

Thumb == \E s \in Operands :
            \/ \E op \in 0 .. 3, offset \in 0 .. WordBits - 1 :
                  ThumbMoveShiftedReg(op, offset, s)
            \/ \E d \in Operands :
                 \/ \E op \in 0 .. 1 : ThumbAddSubtract(op, s, d)
                 \/ \E op \in 0 .. 3 : ThumbMoveCompAddSubImm(op, d, s)
                 \/ \E op \in 0 .. 15 : ThumbALUOps(op, d, s)
                 \/ \E op \in 0 .. 1 : ThumbHiRegOps(op, d, s)

NextAlu == \/ Thumb
           \/ \E op \in Arithmetics, S \in BOOLEAN, a, b \in Operands :
                 DataProcessing(op, S, a, b)
           \/ \E op \in Arithmetics, f \in Restored, a, b \in Operands :
                 Return(op, f, a, b)
           \/ \E f \in {flags} \cup Restored, value \in Operands, carry \in BOOLEAN :
                 Logical(f, value, carry)
           \/ \E value \in Operands, type \in ShiftTypes :
                 \/ \E amount \in Amounts : Move(value, type, amount, TRUE)
                 \/ \E amount \in 0 .. WordBits - 1 : Move(value, type, amount, FALSE)
           \/ \E f \in Restored : Restore(f)
           \/ \E negative, zero \in BOOLEAN : Multiply(negative, zero)

AluSpec == InitAlu /\ [][NextAlu]_aluVars
-----------------------------------------------------------------------------
(* The flags are truth values and the results are words.                   *)
AluTypeOK == /\ flags \in Flags
             /\ number.kind \in {"none", "sum", "difference"}
             /\ number.words \in 0 .. MaxWords
             /\ number.range \in Nat
             /\ {number.x, number.y, number.total} \subseteq 0 .. number.range - 1
             /\ number.exact \in BOOLEAN

Signed(x) == IF 2 * x >= number.range THEN x - number.range ELSE x
Overflown(x) == 2 * x >= number.range \/ 2 * x < -number.range

(* Addition and subtraction of numbers of several words, with ADC, SBC or  *)
(* RSC behind the first word, have the result of long arithmetic, and its  *)
(* carry, sign and overflow at the end.  No instruction without S between  *)
(* the words breaks the carry; only V is lost to it until the next word.   *)
LongArithmetic ==
    /\ number.kind = "sum" =>
         /\ number.total = (number.x + number.y) % number.range
         /\ flags.c <=> number.x + number.y >= number.range
         /\ number.exact =>
              (flags.v <=> Overflown(Signed(number.x) + Signed(number.y)))
    /\ number.kind = "difference" =>
         /\ number.total = (number.x - number.y) % number.range
         /\ flags.c <=> number.x >= number.y
         /\ number.exact =>
              (flags.v <=> Overflown(Signed(number.x) - Signed(number.y)))
    /\ number.kind # "none" => (flags.n <=> 2 * number.total >= number.range)

(* After a comparison or subtraction the conditions order its operands, as *)
(* numbers with and without sign, until the flags change; after one of     *)
(* several words, those that do not look at Z still do.                    *)
ConditionsDecide ==
    LET Holds(cond) == ConditionCheck(flags, cond)
        x == number.x
        y == number.y
    IN  number.kind = "difference" =>
          /\ Holds("CS") <=> x >= y
          /\ Holds("CC") <=> x < y
          /\ number.exact => /\ Holds("GE") <=> Signed(x) >= Signed(y)
                             /\ Holds("LT") <=> Signed(x) < Signed(y)
          /\ number.words = 1 => /\ Holds("EQ") <=> x = y
                                 /\ Holds("NE") <=> x # y
                                 /\ Holds("HI") <=> x > y
                                 /\ Holds("LS") <=> x <= y
          /\ number.words = 1 /\ number.exact =>
               /\ Holds("GT") <=> Signed(x) > Signed(y)
               /\ Holds("LE") <=> Signed(x) <= Signed(y)

Bit(x, k) == (x \div 2 ^ k) % 2 = 1
Lower(j, k) == IF j < k THEN j ELSE k

(* The reference for the shifter, bit by bit.                              *)
MovedBit(value, type, amount, k) ==
    \/ type = "LSL" /\ k >= amount /\ Bit(value, k - amount)
    \/ type = "LSR" /\ k + amount < WordBits /\ Bit(value, k + amount)
    \/ type = "ASR" /\ Bit(value, Lower(k + amount, WordBits - 1))
    \/ type = "ROR" /\ Bit(value, (k + amount) % WordBits)

LostBit(value, type, amount) ==
    \/ type = "LSL" /\ amount <= WordBits /\ Bit(value, WordBits - amount)
    \/ type = "LSR" /\ amount <= WordBits /\ Bit(value, amount - 1)
    \/ type = "ASR" /\ Bit(value, Lower(amount, WordBits) - 1)
    \/ type = "ROR" /\ Bit(value, (amount - 1) % WordBits)

(* Every shift moves each bit to its place and the last one lost to the    *)
(* carry, also by 0, by WordBits and by more, and with an immediate amount of *)
(* 0, which shifts by WordBits or rotates through the carry.  The exception   *)
(* is a negative number shifted by more than WordBits with ASR, where the     *)
(* code's shift is undefined.  Only the carry matters to it: it is checked *)
(* in the states without a number, where both values occur.                *)
ShiftsExact == number = NoNumber =>
    \A value \in Words, type \in ShiftTypes, byRegister \in BOOLEAN :
      \A amount \in IF byRegister THEN Amounts ELSE 0 .. WordBits - 1 :
        LET meant == IF ~byRegister /\ amount = 0 /\ type \in {"LSR", "ASR"}
                     THEN WordBits ELSE amount
            extended == ~byRegister /\ amount = 0 /\ type = "ROR"
        IN  \/ type = "ASR" /\ Sign(value) /\ amount > WordBits
            \/ \A s \in Shift(value, type, amount, byRegister, flags.c) :
                 IF extended
                 THEN /\ s.carry <=> Bit(value, 0)
                      /\ \A k \in 0 .. WordBits - 1 : Bit(s.value, k) <=>
                            IF k = WordBits - 1 THEN flags.c ELSE Bit(value, k + 1)
                 ELSE /\ s.carry <=> IF meant = 0 THEN flags.c
                                     ELSE LostBit(value, type, meant)
                      /\ s.value \in Words
                      /\ \A k \in 0 .. WordBits - 1 :
                            Bit(s.value, k) <=> MovedBit(value, type, meant, k)
=============================================================================
