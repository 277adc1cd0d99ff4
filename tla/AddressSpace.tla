---------------------------- MODULE AddressSpace ----------------------------
(***************************************************************************)
(* What the memory promises to the processor, the DMA channels and the     *)
(* emulator's own code: an address names a byte, some bytes have several   *)
(* addresses, a store changes the bytes it names and no other, a load      *)
(* answers what they hold.  An access that respects the alignment of its   *)
(* width and stays on memory that exists is always carried out.  One that  *)
(* does not may end the process, and among the registers it may miss.      *)
(***************************************************************************)
EXTENDS Integers, Sequences

CONSTANTS Windows, GuestWords, Keys

VARIABLES window, contents, keys, access, answer, stopped

vars == <<window, contents, keys, access, answer, stopped>>

Byte   == 0 .. 255
Widths == {1, 2, 4}
Reach  == {address + k : address \in window, k \in 0 .. 3}

Page(address)   == address \div 2 ^ 24
Offset(address) == address % 2 ^ 24

\* After how many bytes the memory of a page repeats.
Period(page) == CASE page = 2 -> 2 ^ 18
                  [] page = 3 -> 2 ^ 15
                  [] page = 6 -> 2 ^ 17
                  [] page \in {5, 7} -> 2 ^ 10
                  [] page = 14 -> 2 ^ 16
                  [] OTHER -> 2 ^ 24

ROM(address) == Page(address) \in 8 .. 13

\* The three copies of the ROM take two pages each.
SameByte(a, b) ==
    IF ROM(a) THEN ROM(b) /\ (a - b) % 2 ^ 25 = 0
    ELSE Page(a) = Page(b) /\ (a - b) % Period(Page(a)) = 0

\* Loads answer 0 there and stores are lost.
Nowhere(address) == \/ Page(address) = 1 \/ Page(address) >= 15
                    \/ Page(address) = 0 /\ Offset(address) >= 2 ^ 14

ReadOnly(address) == Page(address) = 0 \/ ROM(address)

\* The display has 96 of the 128 kilobytes, the registers a few of the page.
Hole(address) == \/ Page(address) = 6 /\ address % 2 ^ 17 >= 96 * 2 ^ 10
                 \/ Page(address) = 4 /\ Offset(address) >= 2304

Touched(address, width) == {address + k : k \in 0 .. width - 1}

\* The accesses the emulator may end on.
MayStop(address, width) == \/ address % width # 0
                           \/ \E a \in Touched(address, width) : Hole(a)

MayRefuse(address, width) ==
    MayStop(address, width) \/ (Page(address) = 4 /\ width = 1)

\* The bytes an access may leave out.
Missable(address, width) ==
    IF Page(address) = 4 /\ address % width # 0
    THEN SUBSET Touched(address, width) ELSE {{}}

KEYINPUT == 4 * 2 ^ 24 + 304

\* The keys are numbered by their bits; a held key is a 0.
Pressed(held) == [k \in 1 .. 4 |->
    IF k > 2 THEN 0
    ELSE IF k = 2 THEN 255 - (IF 8 \in held THEN 1 ELSE 0) - (IF 9 \in held THEN 2 ELSE 0)
    ELSE CHOOSE low \in Byte :
             \A bit \in 0 .. 7 : (low \div 2 ^ bit) % 2 = IF bit \in held THEN 0 ELSE 1]

\* The backup's bus has 8 bits.
Carried(address, width) == IF Page(address) = 14 THEN 1 ELSE width

Held(address, width) ==
    [k \in 1 .. 4 |-> IF k <= Carried(address, width) THEN contents[address + k - 1] ELSE 0]

Agrees(loaded, address, width, missed) ==
    \A k \in 1 .. 4 : address + k - 1 \notin missed => loaded[k] = Held(address, width)[k]
-----------------------------------------------------------------------------
Init == /\ window \in Windows
        /\ contents \in [Reach -> Byte]
        /\ \A a, b \in Reach : SameByte(a, b) => contents[a] = contents[b]
        /\ keys = {}
        /\ access = <<"none", 0, 0>>
        /\ answer = <<0, 0, 0, 0>>
        /\ stopped = FALSE

Load(address, width) ==
    /\ ~stopped
    /\ access' = <<"load", address, width>>
    /\ \/ /\ IF address = KEYINPUT THEN answer' = Pressed(keys)
             ELSE IF Nowhere(address) THEN answer' = <<0, 0, 0, 0>>
             ELSE \E missed \in Missable(address, width) :
                     answer' \in [1 .. 4 -> Byte] /\ Agrees(answer', address, width, missed)
          /\ UNCHANGED stopped
       \/ /\ MayStop(address, width)
          /\ stopped' = TRUE
          /\ UNCHANGED answer
    /\ UNCHANGED <<window, contents, keys>>

Overwritten(address, width, value, missed) ==
    LET Hits(b) == {k \in 1 .. Carried(address, width) :
                       address + k - 1 \notin missed /\ SameByte(b, address + k - 1)}
    IN  [b \in Reach |-> IF Hits(b) = {} THEN contents[b]
                         ELSE value[CHOOSE k \in Hits(b) : TRUE]]

Save(address, width, value) ==
    /\ ~stopped
    /\ access' = <<"store", address, width>>
    /\ \/ /\ IF Nowhere(address) \/ ReadOnly(address) THEN UNCHANGED contents
             ELSE \E missed \in Missable(address, width) :
                     contents' = Overwritten(address, width, value, missed)
          /\ UNCHANGED stopped
       \/ /\ MayRefuse(address, width)
          /\ stopped' = TRUE
          /\ UNCHANGED contents
    /\ UNCHANGED <<window, keys, answer>>

Press == /\ ~stopped
         /\ keys' \in Keys
         /\ UNCHANGED <<window, contents, access, answer, stopped>>

Next == \/ \E address \in window, width \in Widths :
              \/ Load(address, width)
              \/ \E value \in GuestWords : Save(address, width, value)
        \/ Press

Spec == Init /\ [][Next]_vars
=============================================================================
