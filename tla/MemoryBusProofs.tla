-------------------------- MODULE MemoryBusProofs --------------------------
(***************************************************************************)
(* The memory, for every program.                                          *)
(*                                                                         *)
(* Time: the waitstate counts are either those of the constructor or those *)
(* of some value of WAITCNT, which are never 0; that the two bytes of      *)
(* WAITCNT stay bytes is what makes the second case inductive.             *)
(*                                                                         *)
(* Place: which cells of which arrays an access uses, that two addresses   *)
(* have the same cell just when one mirrors the other, and from these that *)
(* Memory::Read and Write implement AddressSpace.tla.                      *)
(*                                                                         *)
(* The flash: what each store may do to its banks, and that while the file *)
(* is written it holds what they hold; from these that Flash implements    *)
(* CartBackup.tla.                                                         *)
(*                                                                         *)
(* The transfers: a word is its four bytes and no other number has them;   *)
(* a block keeps the bytes of its registers apart; and the blocks on a     *)
(* stack lie next to each other, wherever addresses wrap.                  *)
(***************************************************************************)
EXTENDS MemoryBus, Flash, Transfers, FiniteSetTheorems, SequenceTheorems, TLAPS

Counts == [nseq : Nat, seq : Nat]

Waits == /\ waits \in [Waitstates -> Counts]
         /\ waits # NoWaits =>
               \A ws \in Waitstates : waits[ws].nseq > 0 /\ waits[ws].seq > 0

WaitcntCells == {<<"ir", 4>>, <<"ir", 5>>}

WaitcntKept == /\ WaitcntCells \subseteq DOMAIN bytes
               /\ \A cell \in WaitcntCells : bytes[cell] \in 0 .. 255

BusInv == Waits /\ WaitcntKept
-----------------------------------------------------------------------------
LEMMA CellsDomain ==
    ASSUME NEW address \in Int, NEW width \in Widths
    PROVE  DOMAIN CellsOf(address, width) \subseteq 1 .. 4
<1> DEFINE parts == Parts(address, width)
           array == Array(Page(address))
<1>1. ASSUME NEW a, NEW w PROVE Register(a, w).width = w
  BY DEF Register
<1>2. CASE Len(parts) = 1
  <2>1. parts[1].width \in 1 .. 4
    <3>1. CASE Page(address) = 4
      BY <1>1, <1>2, <3>1 DEF Parts, Widths
    <3>2. CASE Page(address) # 4
      <4>1. parts[1].width = IF array = "sram" THEN 1 ELSE width
        BY <3>2 DEF Parts
      <4> QED BY <4>1 DEF Widths
    <3> QED BY <3>1, <3>2
  <2>2. DOMAIN CellsOf(address, width) = 1 .. parts[1].width
    BY <1>2 DEF CellsOf
  <2> QED BY <2>1, <2>2
<1>3. CASE Len(parts) # 1
  <2>1. parts = <<Register(address, 2), Register(address + 2, 2)>>
    BY <1>3 DEF Parts
  <2>2. parts[1].width = 2 /\ parts[2].width = 2
    BY <1>1, <2>1
  <2>3. DOMAIN CellsOf(address, width) = 1 .. 4
    BY <1>3, <2>2 DEF CellsOf
  <2> QED BY <2>3
<1> QED BY <1>2, <1>3

LEMMA UpdateCounts ==
    ASSUME NEW waitcnt \in Nat
    PROVE  /\ WaitstateControlUpdate(waitcnt) \in [Waitstates -> Counts]
           /\ \A ws \in Waitstates : /\ WaitstateControlUpdate(waitcnt)[ws].nseq > 0
                                     /\ WaitstateControlUpdate(waitcnt)[ws].seq > 0
<1>1. \A ws \in Waitstates : Field(waitcnt, At[ws], 4) \in 0 .. 3
  BY DEF Field, At, Waitstates
<1>2. \A n \in 0 .. 3 : NSEQ[n + 1] \in Nat
  BY DEF NSEQ
<1>3. \A ws \in Waitstates : Fast[ws] \in Nat
  BY DEF Fast, Waitstates
<1> QED BY <1>1, <1>2, <1>3 DEF WaitstateControlUpdate, Counts

LEMMA InitBus == Init => BusInv
<1> SUFFICES ASSUME Init PROVE BusInv
  OBVIOUS
<1>1. Waits
  BY DEF Init, Waits, NoWaits, Counts
<1>2. \A cell \in WaitcntCells : cell \in DOMAIN bytes /\ bytes[cell] = File(cell)
  BY DEF Init, WaitcntCells
<1>3. \A cell \in WaitcntCells : File(cell) = 0
  BY DEF WaitcntCells, File
<1> QED BY <1>1, <1>2, <1>3 DEF BusInv, WaitcntKept

\* A store leaves bytes in WAITCNT, and counts that follow from them.
LEMMA WriteBus ==
    ASSUME BusInv, window \subseteq Int,
           NEW address \in window, NEW width \in Widths, NEW value \in GuestWords,
           NEW seq \in Sequentialities, Write(address, width, value, seq)
    PROVE  BusInv'
<1> DEFINE cells == CellsOf(address, width)
<1>1. CASE UNCHANGED <<bytes, waits>>
  BY <1>1 DEF BusInv, Waits, WaitcntKept
<1>2. CASE ~ UNCHANGED <<bytes, waits>>
  <2>1. /\ bytes' = Stored(address, width, value)
        /\ \/ waits' = waits
           \/ waits' = WaitstateControlUpdate(Waitcnt(bytes'[<<"ir", 4>>],
                                                      bytes'[<<"ir", 5>>]))
    BY <1>2 DEF Write
  <2>2. DOMAIN cells \subseteq 1 .. 4
    BY CellsDomain
  <2>3. value \in [1 .. 4 -> 0 .. 255]
    BY GuestWordsAssumption
  <2>4. ASSUME NEW cell \in WaitcntCells
        PROVE  cell \in DOMAIN bytes' /\ bytes'[cell] \in 0 .. 255
    <3>1. cell \in DOMAIN bytes /\ bytes[cell] \in 0 .. 255
      BY DEF BusInv, WaitcntKept
    <3>2. /\ DOMAIN bytes' = DOMAIN bytes
          /\ bytes'[cell] = IF \E k \in DOMAIN cells : cells[k] = cell
                            THEN value[CHOOSE k \in DOMAIN cells : cells[k] = cell]
                            ELSE bytes[cell]
      BY <2>1, <3>1 DEF Stored
    <3> QED BY <2>2, <2>3, <3>1, <3>2
  <2>5. WaitcntKept'
    BY <2>4 DEF WaitcntKept
  <2>6. Waitcnt(bytes'[<<"ir", 4>>], bytes'[<<"ir", 5>>]) \in Nat
    <3>1. \A low, high \in 0 .. 255 : Waitcnt(low, high) \in Nat
      BY DEF Waitcnt
    <3>2. bytes'[<<"ir", 4>>] \in 0 .. 255 /\ bytes'[<<"ir", 5>>] \in 0 .. 255
      BY <2>4 DEF WaitcntCells
    <3> QED BY <3>1, <3>2
  <2>7. Waits'
    BY <2>1, <2>6, UpdateCounts DEF BusInv, Waits
  <2> QED BY <2>5, <2>7 DEF BusInv
<1> QED BY <1>1, <1>2

LEMMA StepBus == BusInv /\ window \subseteq Int /\ [Next]_vars => BusInv'
<1> SUFFICES ASSUME BusInv, window \subseteq Int, [Next]_vars PROVE BusInv'
  OBVIOUS
<1>1. CASE UNCHANGED <<bytes, waits>>
  BY <1>1 DEF BusInv, Waits, WaitcntKept
<1>2. CASE \E width \in Widths : ReadKeys(width)
  BY <1>1, <1>2 DEF ReadKeys
<1>3. CASE KeyUpdate
  BY <1>1, <1>3 DEF KeyUpdate
<1>4. ASSUME NEW address \in window, NEW width \in Widths, NEW seq \in Sequentialities,
             Read(address, width, seq)
      PROVE  BusInv'
  BY <1>1, <1>4 DEF Read
<1>5. ASSUME NEW address \in window, NEW width \in Widths, NEW seq \in Sequentialities,
             NEW value \in GuestWords, Write(address, width, value, seq)
      PROVE  BusInv'
  BY <1>5, WriteBus
<1>6. CASE UNCHANGED vars
  BY <1>1, <1>6 DEF vars
<1> QED BY <1>2, <1>3, <1>4, <1>5, <1>6 DEF Next
-----------------------------------------------------------------------------
LEMMA TimesFromCounts == Waits => AccessTimes
<1> SUFFICES ASSUME Waits PROVE AccessTimes
  OBVIOUS
<1>1. \A page \in 8 .. 14 : Waitstate(page) \in Waitstates
  BY DEF Waitstate, Waitstates
<1>2. \A page \in 8 .. 14 : /\ waits[Waitstate(page)].nseq \in Nat
                            /\ waits[Waitstate(page)].seq \in Nat
  BY <1>1 DEF Waits, Counts
<1>3. ASSUME NEW page \in Timed \ {14}, NEW seq \in Sequentialities \ {"FREE"}
      PROVE  Ticks(4, page, seq) = Ticks(2, page, seq) + Ticks(2, page, "SEQ")
  <2>1. CASE page \in {2, 5, 6}
    BY <2>1 DEF Ticks, Sequentialities
  <2>2. CASE page \in 8 .. 13
    <3>1. \A w \in Widths, s \in {"NSEQ", "SEQ"} :
             Ticks(w, page, s) = GamePakTicks(w, page, s)
      BY <2>2 DEF Ticks
    <3> QED BY <1>2, <2>2, <3>1 DEF GamePakTicks, Sequentialities, Widths
  <2> QED BY <2>1, <2>2 DEF Timed
<1>4. ASSUME waits # NoWaits, NEW page \in Timed, NEW width \in Widths,
             NEW seq \in Sequentialities \ {"FREE"}
      PROVE  Ticks(width, page, seq) > 0
  <2>1. CASE page \in {2, 5, 6}
    BY <2>1 DEF Ticks, Sequentialities
  <2>2. CASE page \in 8 .. 14
    <3>1. waits[Waitstate(page)].nseq > 0 /\ waits[Waitstate(page)].seq > 0
      BY <1>1, <1>4, <2>2 DEF Waits
    <3>2. CASE page = 14
      BY <3>1, <3>2 DEF Ticks, Waitstate
    <3>3. CASE page # 14
      <4>1. Ticks(width, page, seq) = GamePakTicks(width, page, seq)
        BY <2>2, <3>3 DEF Ticks
      <4> QED BY <1>2, <2>2, <3>1, <4>1 DEF GamePakTicks
    <3> QED BY <3>2, <3>3
  <2> QED BY <2>1, <2>2 DEF Timed
<1> QED BY <1>3, <1>4 DEF AccessTimes

(* Whatever a program loads and stores, words take two accesses on the     *)
(* 16-bit buses, and the clock moves with every access to the cartridge    *)
(* from the first store into WAITCNT on.                                   *)
THEOREM TimesHold == Spec => []AccessTimes
<1>1. Init => BusInv /\ window \subseteq Int
  BY InitBus, WindowsAssumption DEF Init
<1>2. BusInv /\ window \subseteq Int /\ [Next]_vars => (BusInv /\ window \subseteq Int)'
  <2>1. window \subseteq Int /\ [Next]_vars => window' \subseteq Int
    BY DEF Next, vars, ReadKeys, Read, Write, KeyUpdate
  <2> QED BY <2>1, StepBus
<1>3. BusInv => AccessTimes
  BY TimesFromCounts DEF BusInv
<1> QED BY <1>1, <1>2, <1>3, PTL DEF Spec
-----------------------------------------------------------------------------
(* The address map.  A register is in the set its number belongs to, where *)
(* every set counts from its own beginning; any other address is in the    *)
(* array of its page, at the place its mask leaves.                        *)
SetOf(r) == IF r \in 0 .. 87 THEN "lcd"
            ELSE IF r \in 96 .. 167 THEN "apu"
            ELSE IF r \in 176 .. 223 THEN "dma"
            ELSE IF r \in 512 .. 769 THEN "ir" ELSE "io"

Base(array) == IF array = "apu" THEN 96 ELSE IF array = "dma" THEN 176
               ELSE IF array = "ir" THEN 512 ELSE 0

Number(address) == address % 2 ^ 24

RegisterCell(r) == <<SetOf(r), r - Base(SetOf(r))>>

LEMMA Sets ==
    ASSUME NEW r \in Nat
    PROVE  /\ SetOf(r) = "io" => GetRegisterSet(r) = {}
           /\ SetOf(r) # "io" => GetRegisterSet(r) = {SetOf(r)}
           /\ SetOf(r) # "io" => RegisterSets[SetOf(r)][1] = Base(SetOf(r))
<1>1. DOMAIN RegisterSets = {"lcd", "dma", "ir", "apu"}
  BY DEF RegisterSets
<1>2. /\ RegisterSets["lcd"][1] = 0 /\ RegisterSets["lcd"][2] = 88
      /\ RegisterSets["dma"][1] = 176 /\ RegisterSets["dma"][2] = 224
      /\ RegisterSets["ir"][1] = 512 /\ RegisterSets["ir"][2] = 770
      /\ RegisterSets["apu"][1] = 96 /\ RegisterSets["apu"][2] = 168
  BY DEF RegisterSets
<1>3. \A set : set \in GetRegisterSet(r) <=>
          \/ set = "lcd" /\ r \in 0 .. 87
          \/ set = "dma" /\ r \in 176 .. 223
          \/ set = "ir" /\ r \in 512 .. 769
          \/ set = "apu" /\ r \in 96 .. 167
  BY <1>1, <1>2 DEF GetRegisterSet
<1>4. \A set : set \in GetRegisterSet(r) <=> set = SetOf(r) /\ set # "io"
  BY <1>3 DEF SetOf
<1>5. SetOf(r) \in {"lcd", "dma", "ir", "apu", "io"}
  BY DEF SetOf
<1> QED BY <1>2, <1>4, <1>5 DEF Base

LEMMA RegisterIs ==
    ASSUME NEW address \in Nat, NEW width
    PROVE  LET r == Number(address) IN
           Register(address, width) =
              [array |-> SetOf(r), index |-> r - Base(SetOf(r)), width |-> width]
<1> DEFINE r == Number(address)
<1>1. r \in Nat
  BY DEF Number
<1>2. CASE SetOf(r) = "io"
  BY <1>1, <1>2, Sets DEF Register, Base, Number
<1>3. CASE SetOf(r) # "io"
  <2>1. GetRegisterSet(r) = {SetOf(r)} /\ RegisterSets[SetOf(r)][1] = Base(SetOf(r))
    BY <1>1, <1>3, Sets
  <2>2. (CHOOSE x \in {SetOf(r)} : TRUE) = SetOf(r)
    OBVIOUS
  <2> QED BY <2>1, <2>2 DEF Register, Number
<1> QED BY <1>2, <1>3

\* Which registers fit, and how far the sets are apart.
LEMMA RegistersInRange ==
    ASSUME NEW r \in Nat
    PROVE  /\ r - Base(SetOf(r)) \in Nat
           /\ Size[SetOf(r)] \in Nat
           /\ r < 2304 => r - Base(SetOf(r)) < Size[SetOf(r)]
           /\ r >= 2304 => SetOf(r) = "io" /\ Size[SetOf(r)] = 2304
BY DEF SetOf, Base, Size

LEMMA SameRegister ==
    ASSUME NEW r \in Nat, NEW q \in Nat,
           RegisterCell(r) = RegisterCell(q)
    PROVE  r = q
BY DEF RegisterCell, SetOf, Base

LEMMA RegisterParts ==
    ASSUME NEW address \in Nat, Page(address) = 4, NEW width \in {1, 2}
    PROVE  LET r == Number(address) IN
           /\ PartsUsed(address, width) = {Register(address, width)}
           /\ DOMAIN CellsOf(address, width) = 1 .. width
           /\ \A k \in 1 .. width :
                 CellsOf(address, width)[k] = <<SetOf(r), r - Base(SetOf(r)) + (k - 1)>>
<1> DEFINE r == Number(address)
           parts == Parts(address, width)
           g == Register(address, width)
<1>1. parts = <<g>>
  BY DEF Parts
<1>2. g.array = SetOf(r) /\ g.index = r - Base(SetOf(r)) /\ g.width = width
  BY RegisterIs
<1>3. r - Base(SetOf(r)) \in Nat
  BY RegistersInRange DEF Number
<1> HIDE DEF parts, g, r
<1>4. Len(parts) = 1 /\ parts[1] = g /\ DOMAIN parts = {1}
  BY <1>1
<1>5. PartsUsed(address, width) = {g}
  BY <1>4 DEF PartsUsed, parts
<1>6. CellsOf(address, width) =
         [k \in 1 .. width |->
            IF k <= width THEN <<g.array, g.index + k - 1>>
            ELSE <<parts[2].array, parts[2].index + k - width - 1>>]
  BY <1>2, <1>4 DEF CellsOf, parts
<1>7. \A k \in 1 .. width :
         CellsOf(address, width)[k] = <<SetOf(r), r - Base(SetOf(r)) + (k - 1)>>
  BY <1>2, <1>3, <1>6
<1> QED BY <1>5, <1>6, <1>7 DEF g, r

LEMMA WordParts ==
    ASSUME NEW address \in Nat, Page(address) = 4
    PROVE  LET r == Number(address)
               q == Number(address + 2) IN
           /\ PartsUsed(address, 4) = {Register(address, 2), Register(address + 2, 2)}
           /\ DOMAIN CellsOf(address, 4) = 1 .. 4
           /\ \A k \in 1 .. 4 :
                 CellsOf(address, 4)[k] =
                    IF k <= 2 THEN <<SetOf(r), r - Base(SetOf(r)) + (k - 1)>>
                              ELSE <<SetOf(q), q - Base(SetOf(q)) + (k - 3)>>
<1> DEFINE r == Number(address)
           q == Number(address + 2)
           parts == Parts(address, 4)
           g == Register(address, 2)
           h == Register(address + 2, 2)
<1>1. parts = <<g, h>>
  BY DEF Parts
<1>2. /\ g.array = SetOf(r) /\ g.index = r - Base(SetOf(r)) /\ g.width = 2
      /\ h.array = SetOf(q) /\ h.index = q - Base(SetOf(q)) /\ h.width = 2
  BY RegisterIs
<1>3. r - Base(SetOf(r)) \in Nat /\ q - Base(SetOf(q)) \in Nat
  BY RegistersInRange DEF Number
<1> HIDE DEF parts, g, h, r, q
<1>4. Len(parts) = 2 /\ parts[1] = g /\ parts[2] = h /\ DOMAIN parts = {1, 2}
  BY <1>1
<1>5. PartsUsed(address, 4) = {g, h}
  BY <1>4 DEF PartsUsed, parts
<1>6. CellsOf(address, 4) =
         [k \in 1 .. 2 + 2 |->
            IF k <= 2 THEN <<g.array, g.index + k - 1>> ELSE <<h.array, h.index + k - 2 - 1>>]
  BY <1>2, <1>4 DEF CellsOf, parts
<1>7. \A k \in 1 .. 4 :
         CellsOf(address, 4)[k] =
            IF k <= 2 THEN <<SetOf(r), r - Base(SetOf(r)) + (k - 1)>>
                      ELSE <<SetOf(q), q - Base(SetOf(q)) + (k - 3)>>
  BY <1>2, <1>3, <1>6
<1> QED BY <1>5, <1>6, <1>7 DEF g, h, r, q

\* Of the memory outside the registers' page.
InArray(address) == Page(address) # 4 /\ ~Absent(address)

LEMMA Pages ==
    ASSUME NEW address \in Nat, InArray(address)
    PROVE  LET p == Page(address)
               x == Array(p) IN
           /\ p \in {0, 2, 3} \cup 5 .. 14
           /\ x \in {"bios", "wramb", "wramc", "pram", "vram", "oam", "rom", "sram"}
           /\ x = "sram" <=> p = 14
           /\ x = "rom" <=> p \in 8 .. 13
           /\ x = "bios" <=> p = 0
           /\ x = "wramb" <=> p = 2
           /\ x = "wramc" <=> p = 3
           /\ x = "pram" <=> p = 5
           /\ x = "vram" <=> p = 6
           /\ x = "oam" <=> p = 7
           /\ p = 0 => address < 2 ^ 14
<1> DEFINE p == Page(address)
<1>1. p \in Nat
  BY DEF Page
<1>2. p \in {0, 2, 3} \cup 5 .. 14
  BY <1>1 DEF InArray, Absent
<1>3. p = 0 => address < 2 ^ 14
  BY DEF InArray, Absent, Size
<1> HIDE DEF p
<1>4. Array(p) = IF p = 0 THEN "bios" ELSE IF p = 2 THEN "wramb"
                 ELSE IF p = 3 THEN "wramc" ELSE IF p = 5 THEN "pram"
                 ELSE IF p = 6 THEN "vram" ELSE IF p = 7 THEN "oam"
                 ELSE IF p = 14 THEN "sram" ELSE "rom"
  BY <1>2 DEF Array
<1> QED BY <1>2, <1>3, <1>4 DEF p

LEMMA Masks ==
    /\ Mask("bios") = 2 ^ 14 /\ Size["bios"] = 2 ^ 14
    /\ Mask("wramb") = 2 ^ 18 /\ Size["wramb"] = 2 ^ 18
    /\ Mask("wramc") = 2 ^ 15 /\ Size["wramc"] = 2 ^ 15
    /\ Mask("pram") = 2 ^ 10 /\ Size["pram"] = 2 ^ 10
    /\ Mask("vram") = 2 ^ 17 /\ Size["vram"] = 98304
    /\ Mask("oam") = 2 ^ 10 /\ Size["oam"] = 2 ^ 10
    /\ Mask("rom") = 2 ^ 25 /\ Size["rom"] = 2 ^ 25
    /\ Mask("sram") = 2 ^ 16 /\ Size["sram"] = 2 ^ 16
BY DEF Mask, Size

LEMMA MemoryParts ==
    ASSUME NEW address \in Nat, InArray(address), NEW width \in Widths
    PROVE  LET x == Array(Page(address))
               i == address % Mask(x)
               n == IF x = "sram" THEN 1 ELSE width IN
           /\ i \in Nat /\ i < Mask(x) /\ Mask(x) \in Nat /\ Size[x] \in Nat
           /\ PartsUsed(address, width) = {[array |-> x, index |-> i, width |-> n]}
           /\ DOMAIN CellsOf(address, width) = 1 .. n
           /\ \A k \in 1 .. n : CellsOf(address, width)[k] = <<x, i + (k - 1)>>
<1> DEFINE x == Array(Page(address))
           i == address % Mask(x)
           n == IF x = "sram" THEN 1 ELSE width
           g == [array |-> x, index |-> i, width |-> n]
           parts == Parts(address, width)
<1>1. x \in {"bios", "wramb", "wramc", "pram", "vram", "oam", "rom", "sram"}
  BY Pages
<1>2. Mask(x) \in Nat /\ Mask(x) > 0 /\ Size[x] \in Nat
  BY <1>1, Masks
<1>3. i \in Nat /\ i < Mask(x)
  BY <1>2
<1>4. parts = <<g>>
  BY DEF Parts, InArray
<1>5. n \in {1, 2, 4}
  BY DEF Widths
<1>6. g.array = x /\ g.index = i /\ g.width = n
  OBVIOUS
<1> HIDE DEF parts, g, i, n, x
<1>7. Len(parts) = 1 /\ parts[1] = g /\ DOMAIN parts = {1}
  BY <1>4
<1>8. PartsUsed(address, width) = {g}
  BY <1>7 DEF PartsUsed, parts
<1>9. CellsOf(address, width) =
         [k \in 1 .. n |->
            IF k <= n THEN <<x, i + k - 1>>
            ELSE <<parts[2].array, parts[2].index + k - n - 1>>]
  BY <1>6, <1>7 DEF CellsOf, parts
<1>10. \A k \in 1 .. n : CellsOf(address, width)[k] = <<x, i + (k - 1)>>
  BY <1>3, <1>5, <1>9
<1>11. DOMAIN CellsOf(address, width) = 1 .. n
  BY <1>9
<1> QED BY <1>2, <1>3, <1>8, <1>10, <1>11 DEF g, i, n, x

(* Two addresses have the same cell just when the promise counts them as   *)
(* the same byte.                                                          *)
LEMMA BackedRegister ==
    ASSUME NEW a \in Nat, Page(a) = 4
    PROVE  /\ CellOf(a) = RegisterCell(Number(a))
           /\ Backed(a) <=> Number(a) < 2304
<1> DEFINE r == Number(a)
<1>1. r \in Nat
  BY DEF Number
<1>2. CellOf(a) = <<SetOf(r), r - Base(SetOf(r)) + (1 - 1)>>
  BY RegisterParts DEF CellOf
<1>3. r - Base(SetOf(r)) \in Nat
  BY <1>1, RegistersInRange
<1>4. Backed(a) <=> Fits(Register(a, 1))
  BY RegisterParts, RegisterIs DEF Backed, Absent
<1>5. Fits(Register(a, 1)) <=> r - Base(SetOf(r)) + 1 <= Size[SetOf(r)]
  BY RegisterIs DEF Fits
<1> HIDE DEF r
<1>6. r - Base(SetOf(r)) + 1 <= Size[SetOf(r)] <=> r < 2304
  BY <1>1, RegistersInRange DEF Base
<1> QED BY <1>2, <1>3, <1>4, <1>5, <1>6 DEF RegisterCell, r

LEMMA BackedMemory ==
    ASSUME NEW a \in Nat, Page(a) # 4
    PROVE  LET x == Array(Page(a)) IN
           /\ Backed(a) => InArray(a)
           /\ InArray(a) => /\ CellOf(a) = <<x, a % Mask(x)>>
                            /\ Backed(a) <=> a % Mask(x) < Size[x]
<1> DEFINE x == Array(Page(a))
           i == a % Mask(x)
<1>1. Backed(a) => InArray(a)
  BY DEF Backed, InArray
<1>2. ASSUME InArray(a)
      PROVE  CellOf(a) = <<x, i>> /\ (Backed(a) <=> i < Size[x])
  <2>1. /\ i \in Nat /\ Size[x] \in Nat
        /\ PartsUsed(a, 1) = {[array |-> x, index |-> i, width |-> 1]}
        /\ CellsOf(a, 1)[1] = <<x, i + (1 - 1)>>
    BY <1>2, MemoryParts DEF Widths
  <2> DEFINE g == [array |-> x, index |-> i, width |-> 1]
  <2>4. g.array = x /\ g.index = i /\ g.width = 1 /\ PartsUsed(a, 1) = {g}
    BY <2>1
  <2> HIDE DEF i, x, g
  <2>2. CellOf(a) = <<x, i>>
    BY <2>1 DEF CellOf
  <2>3. Backed(a) <=> i + 1 <= Size[x]
    BY <1>2, <2>4 DEF Backed, Fits, InArray
  <2> QED BY <2>1, <2>2, <2>3
<1> QED BY <1>1, <1>2

LEMMA Promised ==
    ASSUME NEW a, NEW b
    PROVE  /\ Space!Page(a) = Page(a) /\ Space!Offset(a) = Number(a)
           /\ Space!ROM(a) <=> Page(a) \in 8 .. 13
           /\ Space!SameByte(a, b) <=>
                IF Page(a) \in 8 .. 13 THEN Page(b) \in 8 .. 13 /\ (a - b) % 2 ^ 25 = 0
                ELSE Page(a) = Page(b) /\ (a - b) % Space!Period(Page(a)) = 0
BY DEF Space!Page, Page, Space!Offset, Number, Space!ROM, Space!SameByte

LEMMA Periods ==
    /\ Space!Period(0) = 2 ^ 24 /\ Space!Period(4) = 2 ^ 24
    /\ Space!Period(2) = 2 ^ 18 /\ Space!Period(3) = 2 ^ 15
    /\ Space!Period(5) = 2 ^ 10 /\ Space!Period(7) = 2 ^ 10
    /\ Space!Period(6) = 2 ^ 17 /\ Space!Period(14) = 2 ^ 16
BY DEF Space!Period

LEMMA Congruent ==
    ASSUME NEW a \in Nat, NEW b \in Nat
    PROVE  /\ (a - b) % 2 ^ 10 = 0 <=> a % 2 ^ 10 = b % 2 ^ 10
           /\ (a - b) % 2 ^ 15 = 0 <=> a % 2 ^ 15 = b % 2 ^ 15
           /\ (a - b) % 2 ^ 16 = 0 <=> a % 2 ^ 16 = b % 2 ^ 16
           /\ (a - b) % 2 ^ 17 = 0 <=> a % 2 ^ 17 = b % 2 ^ 17
           /\ (a - b) % 2 ^ 18 = 0 <=> a % 2 ^ 18 = b % 2 ^ 18
           /\ (a - b) % 2 ^ 25 = 0 <=> a % 2 ^ 25 = b % 2 ^ 25
<1>1. (a - b) % 2 ^ 10 = 0 <=> a % 2 ^ 10 = b % 2 ^ 10
  BY SMT
<1>2. (a - b) % 2 ^ 15 = 0 <=> a % 2 ^ 15 = b % 2 ^ 15
  BY SMT
<1>3. (a - b) % 2 ^ 16 = 0 <=> a % 2 ^ 16 = b % 2 ^ 16
  BY SMT
<1>4. (a - b) % 2 ^ 17 = 0 <=> a % 2 ^ 17 = b % 2 ^ 17
  BY SMT
<1>5. (a - b) % 2 ^ 18 = 0 <=> a % 2 ^ 18 = b % 2 ^ 18
  BY SMT
<1>6. (a - b) % 2 ^ 25 = 0 <=> a % 2 ^ 25 = b % 2 ^ 25
  BY SMT
<1> QED BY <1>1, <1>2, <1>3, <1>4, <1>5, <1>6

\* What two addresses of the same array have in common.
LEMMA SamePlace ==
    ASSUME NEW a \in Nat, NEW b \in Nat, InArray(a), InArray(b)
    PROVE  Space!SameByte(a, b) <=>
             /\ Array(Page(a)) = Array(Page(b))
             /\ a % Mask(Array(Page(a))) = b % Mask(Array(Page(b)))
<1> DEFINE x == Array(Page(a))
           y == Array(Page(b))
           p == Page(a)
           q == Page(b)
<1>1. /\ x \in {"bios", "wramb", "wramc", "pram", "vram", "oam", "rom", "sram"}
      /\ y \in {"bios", "wramb", "wramc", "pram", "vram", "oam", "rom", "sram"}
      /\ p \in {0, 2, 3} \cup 5 .. 14 /\ q \in {0, 2, 3} \cup 5 .. 14
      /\ x = "sram" <=> p = 14
      /\ x = "rom" <=> p \in 8 .. 13
      /\ x = "bios" <=> p = 0
      /\ x = "wramb" <=> p = 2
      /\ x = "wramc" <=> p = 3
      /\ x = "pram" <=> p = 5
      /\ x = "vram" <=> p = 6
      /\ x = "oam" <=> p = 7
      /\ y = "sram" <=> q = 14
      /\ y = "rom" <=> q \in 8 .. 13
      /\ y = "bios" <=> q = 0
      /\ y = "wramb" <=> q = 2
      /\ y = "wramc" <=> q = 3
      /\ y = "pram" <=> q = 5
      /\ y = "vram" <=> q = 6
      /\ y = "oam" <=> q = 7
  BY Pages
<1>2. Space!SameByte(a, b) <=>
        IF p \in 8 .. 13 THEN q \in 8 .. 13 /\ (a - b) % 2 ^ 25 = 0
        ELSE p = q /\ (a - b) % Space!Period(p) = 0
  BY Promised
<1>3. p = 0 /\ q = 0 => ((a - b) % 2 ^ 24 = 0 <=> a % 2 ^ 14 = b % 2 ^ 14)
  <2>1. p = 0 /\ q = 0 => a < 2 ^ 14 /\ b < 2 ^ 14
    BY <1>1, Pages
  <2>2. a < 2 ^ 14 /\ b < 2 ^ 14 => ((a - b) % 2 ^ 24 = 0 <=> a % 2 ^ 14 = b % 2 ^ 14)
    BY SMT
  <2> QED BY <2>1, <2>2
<1>6. p = q => x = y
  OBVIOUS
<1> HIDE DEF x, y, p, q
<1>4. CASE x # y
  <2>1. (p \in 8 .. 13) => ~(q \in 8 .. 13)
    BY <1>1, <1>4
  <2>2. p # q
    BY <1>4, <1>6
  <2>3. ~Space!SameByte(a, b)
    BY <1>2, <2>1, <2>2, Zenon
  <2> QED BY <1>4, <2>3 DEF x, y
<1>5. CASE x = y
  <2>1. CASE x = "rom"
    <3>1. p \in 8 .. 13 /\ q \in 8 .. 13 /\ Mask(x) = 2 ^ 25 /\ Mask(y) = 2 ^ 25
      BY <1>1, <1>5, <2>1, Masks
    <3> QED BY <1>2, <1>5, <3>1, Congruent DEF x, y
  <2>2. CASE x = "bios"
    <3>1. p = 0 /\ q = 0 /\ Mask(x) = 2 ^ 14 /\ Mask(y) = 2 ^ 14
      BY <1>1, <1>5, <2>2, Masks
    <3> QED BY <1>2, <1>3, <1>5, <3>1, Periods DEF x, y
  <2>3. CASE x = "wramb"
    <3>1. p = 2 /\ q = 2 /\ Mask(x) = 2 ^ 18 /\ Mask(y) = 2 ^ 18
      BY <1>1, <1>5, <2>3, Masks
    <3> QED BY <1>2, <1>5, <3>1, Periods, Congruent DEF x, y
  <2>4. CASE x = "wramc"
    <3>1. p = 3 /\ q = 3 /\ Mask(x) = 2 ^ 15 /\ Mask(y) = 2 ^ 15
      BY <1>1, <1>5, <2>4, Masks
    <3> QED BY <1>2, <1>5, <3>1, Periods, Congruent DEF x, y
  <2>5. CASE x = "pram"
    <3>1. p = 5 /\ q = 5 /\ Mask(x) = 2 ^ 10 /\ Mask(y) = 2 ^ 10
      BY <1>1, <1>5, <2>5, Masks
    <3> QED BY <1>2, <1>5, <3>1, Periods, Congruent DEF x, y
  <2>6. CASE x = "vram"
    <3>1. p = 6 /\ q = 6 /\ Mask(x) = 2 ^ 17 /\ Mask(y) = 2 ^ 17
      BY <1>1, <1>5, <2>6, Masks
    <3> QED BY <1>2, <1>5, <3>1, Periods, Congruent DEF x, y
  <2>7. CASE x = "oam"
    <3>1. p = 7 /\ q = 7 /\ Mask(x) = 2 ^ 10 /\ Mask(y) = 2 ^ 10
      BY <1>1, <1>5, <2>7, Masks
    <3> QED BY <1>2, <1>5, <3>1, Periods, Congruent DEF x, y
  <2>8. CASE x = "sram"
    <3>1. p = 14 /\ q = 14 /\ Mask(x) = 2 ^ 16 /\ Mask(y) = 2 ^ 16
      BY <1>1, <1>5, <2>8, Masks
    <3> QED BY <1>2, <1>5, <3>1, Periods, Congruent DEF x, y
  <2> QED BY <1>1, <2>1, <2>2, <2>3, <2>4, <2>5, <2>6, <2>7, <2>8
<1> QED BY <1>4, <1>5

LEMMA SameRegisterByte ==
    ASSUME NEW a \in Nat, NEW b \in Nat, Page(a) = 4
    PROVE  Space!SameByte(a, b) <=> a = b
<1>1. Space!SameByte(a, b) <=> Page(b) = 4 /\ (a - b) % 2 ^ 24 = 0
  BY Promised, Periods
<1> QED BY <1>1 DEF Page

LEMMA SetNames ==
    ASSUME NEW r \in Nat
    PROVE  RegisterCell(r)[1] \in {"lcd", "apu", "dma", "ir", "io"}
BY DEF RegisterCell, SetOf

LEMMA SameCell ==
    ASSUME NEW a \in Nat, NEW b \in Nat, Backed(a), Backed(b)
    PROVE  CellOf(a) = CellOf(b) <=> Space!SameByte(a, b)
<1>1. CASE Page(a) = 4 /\ Page(b) = 4
  <2>1. Number(a) \in Nat /\ Number(b) \in Nat
    BY DEF Number
  <2>2. CellOf(a) = CellOf(b) => Number(a) = Number(b)
    BY <1>1, <2>1, BackedRegister, SameRegister
  <2>3. Number(a) = Number(b) <=> a = b
    BY <1>1 DEF Number, Page
  <2> QED BY <1>1, <2>2, <2>3, SameRegisterByte
<1>2. CASE Page(a) # 4 /\ Page(b) # 4
  BY <1>2, BackedMemory, SamePlace
<1>3. CASE Page(a) = 4 /\ Page(b) # 4
  <2>1. CellOf(a)[1] \in {"lcd", "apu", "dma", "ir", "io"}
    BY <1>3, BackedRegister, SetNames DEF Number
  <2>2. CellOf(b)[1] = Array(Page(b)) /\ InArray(b)
    BY <1>3, BackedMemory
  <2>3. CellOf(a) # CellOf(b)
    BY <2>1, <2>2, Pages
  <2> QED BY <1>3, <2>3, SameRegisterByte
<1>4. CASE Page(a) # 4 /\ Page(b) = 4
  <2>1. CellOf(b)[1] \in {"lcd", "apu", "dma", "ir", "io"}
    BY <1>4, BackedRegister, SetNames DEF Number
  <2>2. CellOf(a)[1] = Array(Page(a)) /\ InArray(a)
    BY <1>4, BackedMemory
  <2>3. CellOf(a) # CellOf(b)
    BY <2>1, <2>2, Pages
  <2>4. ~Space!SameByte(a, b)
    BY <1>4, Promised
  <2> QED BY <2>3, <2>4
<1> QED BY <1>1, <1>2, <1>3, <1>4

\* A mirror of a byte that exists exists.
LEMMA SameBacked ==
    ASSUME NEW a \in Nat, NEW b \in Nat, Backed(a), Space!SameByte(a, b)
    PROVE  Backed(b)
<1>1. CASE Page(a) = 4
  BY <1>1, SameRegisterByte
<1>2. CASE Page(a) # 4
  <2>1. InArray(a)
    BY <1>2, BackedMemory
  <2>2. CASE Page(a) = 0
    <3>1. Page(b) = 0 /\ (a - b) % 2 ^ 24 = 0
      BY <2>2, Promised, Periods
    <3>2. a = b
      BY <2>2, <3>1 DEF Page
    <3> QED BY <3>2
  <2>3. CASE Page(a) # 0
    <3>1. Page(b) \in {2, 3} \cup 5 .. 14
      BY <2>1, <2>3, Pages, Promised
    <3>2. InArray(b)
      BY <3>1 DEF InArray, Absent
    <3>3. /\ Array(Page(a)) = Array(Page(b))
          /\ a % Mask(Array(Page(a))) = b % Mask(Array(Page(b)))
      BY <2>1, <3>2, SamePlace
    <3> QED BY <1>2, <2>1, <3>1, <3>2, <3>3, BackedMemory
  <2> QED BY <2>2, <2>3
<1> QED BY <1>1, <1>2

LEMMA SameBytes ==
    ASSUME NEW a \in Nat, NEW b \in Nat, Space!SameByte(a, b)
    PROVE  Space!SameByte(b, a) /\ (Backed(a) <=> Backed(b))
<1>1. Space!SameByte(b, a)
  <2>1. \A m \in {2 ^ 24, 2 ^ 18, 2 ^ 15, 2 ^ 17, 2 ^ 10, 2 ^ 16, 2 ^ 25} :
           (a - b) % m = 0 => (b - a) % m = 0
    BY SMT
  <2>2. Space!Period(Page(a)) \in {2 ^ 24, 2 ^ 18, 2 ^ 15, 2 ^ 17, 2 ^ 10, 2 ^ 16}
    BY DEF Space!Period
  <2> QED BY <2>1, <2>2, Promised
<1> QED BY <1>1, SameBacked

-----------------------------------------------------------------------------
(* Where an access that is carried out goes: to the cells of the addresses *)
(* it names, except that a half of registers that is not aligned may run   *)
(* into cells that are no address's.                                       *)
Carried(address, width) == Space!Carried(address, width)

Exact(address, width, k) == CellsOf(address, width)[k] = CellOf(address + k - 1)

Fitting(address, width) == /\ ~Absent(address)
                           /\ \A part \in PartsUsed(address, width) : Fits(part)

\* The cell c is where the register's byte t is, or no register's at all.
RegisterByte(c, t) == /\ c[1] \in {"lcd", "apu", "dma", "ir", "io"}
                      /\ c[2] \in Nat /\ c[2] < Size[c[1]]
                      /\ \A s \in Nat : c = RegisterCell(s) => s = t

LEMMA RegisterBound ==
    ASSUME NEW r \in Nat, NEW n \in {1, 2}, r - Base(SetOf(r)) + n <= Size[SetOf(r)]
    PROVE  r + n <= 2304
BY DEF SetOf, Base, Size

LEMMA RegisterFits ==
    ASSUME NEW r \in Nat, NEW n \in {1, 2}, NEW j \in 0 .. 1, j < n,
           r - Base(SetOf(r)) + n <= Size[SetOf(r)], NEW c,
           c = <<SetOf(r), r - Base(SetOf(r)) + j>>
    PROVE  /\ r + j < 2304
           /\ RegisterByte(c, r + j)
           /\ r % 2 = 0 \/ n = 1 => c = RegisterCell(r + j)
<1>1. \A s \in Nat : Base(SetOf(s)) \in Nat
  BY DEF Base
<1>2. r + j < 2304 /\ r - Base(SetOf(r)) + j < Size[SetOf(r)] /\ r - Base(SetOf(r)) + j \in Nat
  BY DEF SetOf, Base, Size
<1>3. ASSUME r % 2 = 0 \/ n = 1
      PROVE  <<SetOf(r), r - Base(SetOf(r)) + j>> = RegisterCell(r + j)
  <2>1. SetOf(r + j) = SetOf(r)
    BY <1>2, <1>3 DEF SetOf
  <2>2. (r + j) - Base(SetOf(r)) = r - Base(SetOf(r)) + j
    BY <1>1
  <2> QED BY <2>1, <2>2 DEF RegisterCell
<1>4. ASSUME NEW s \in Nat, <<SetOf(r), r - Base(SetOf(r)) + j>> = RegisterCell(s)
      PROVE  s = r + j
  <2> DEFINE base == Base(SetOf(r))
  <2>1. SetOf(r) = SetOf(s) /\ base \in Nat
    BY <1>1, <1>4 DEF RegisterCell
  <2>2. r - base + j = s - base
    BY <1>4, <2>1 DEF RegisterCell
  <2> HIDE DEF base
  <2> QED BY <2>1, <2>2
<1>5. SetOf(r) \in {"lcd", "apu", "dma", "ir", "io"}
  BY DEF SetOf
<1>6. c[1] = SetOf(r) /\ c[2] = r - Base(SetOf(r)) + j
  OBVIOUS
<1>7. RegisterByte(c, r + j)
  BY <1>2, <1>4, <1>5, <1>6 DEF RegisterByte
<1> QED BY <1>2, <1>3, <1>7

\* The k-th byte of an access to registers.
LEMMA RegisterCells ==
    ASSUME NEW a \in Nat, Page(a) = 4, NEW w \in Widths, Fitting(a, w)
    PROVE  LET r == Number(a) IN
           /\ r + w <= 2304
           /\ DOMAIN CellsOf(a, w) = 1 .. w
           /\ \A k \in 1 .. w :
                 /\ RegisterByte(CellsOf(a, w)[k], r + (k - 1))
                 /\ a % w = 0 => CellsOf(a, w)[k] = RegisterCell(r + (k - 1))
                 /\ \A j \in 1 .. w : CellsOf(a, w)[j] = CellsOf(a, w)[k] => j = k
<1> DEFINE r == Number(a)
           q == Number(a + 2)
           cells == CellsOf(a, w)
<1>1. r \in Nat /\ q \in Nat /\ r % 2 = a % 2 /\ (r < 2304 => q = r + 2)
  BY DEF Number
<1>3. CASE w \in {1, 2}
  <2>1. r - Base(SetOf(r)) + w <= Size[SetOf(r)]
    <3>1. Register(a, w) \in PartsUsed(a, w)
      BY <1>3, RegisterParts
    <3> QED BY <3>1, RegisterIs DEF Fitting, Fits
  <2>2. /\ DOMAIN cells = 1 .. w
        /\ \A k \in 1 .. w : cells[k] = <<SetOf(r), r - Base(SetOf(r)) + (k - 1)>>
    BY <1>3, RegisterParts
  <2> HIDE DEF r, q, cells
  <2>4. ASSUME NEW k \in 1 .. w
        PROVE  /\ r + (k - 1) < 2304
               /\ RegisterByte(cells[k], r + (k - 1))
               /\ a % w = 0 => cells[k] = RegisterCell(r + (k - 1))
    <3>1. k - 1 \in 0 .. 1 /\ k - 1 < w
      BY <1>3
    <3>2. cells[k] = <<SetOf(r), r - Base(SetOf(r)) + (k - 1)>>
      BY <2>2
    <3>3. a % w = 0 => r % 2 = 0 \/ w = 1
      BY <1>1, <1>3
    <3> QED BY <1>1, <1>3, <2>1, <3>1, <3>2, <3>3, RegisterFits
  <2>3. r + w <= 2304
    <3>1. r + (w - 1) < 2304
      BY <1>3, <2>4
    <3> QED BY <1>1, <1>3, <3>1
  <2>5. \A j, k \in 1 .. w : cells[j] = cells[k] => j = k
    <3> DEFINE e == r - Base(SetOf(r))
    <3>1. e \in Nat
      BY <1>1, RegistersInRange
    <3>2. \A k \in 1 .. w : cells[k][2] = e + (k - 1)
      BY <2>2
    <3> HIDE DEF e
    <3>3. \A j, k \in 1 .. w : e + (j - 1) = e + (k - 1) => j = k
      BY <1>3, <3>1
    <3> QED BY <3>2, <3>3
  <2> QED BY <2>2, <2>3, <2>4, <2>5 DEF r, cells
<1>4. CASE w = 4
  <2>1. /\ r - Base(SetOf(r)) + 2 <= Size[SetOf(r)]
        /\ q - Base(SetOf(q)) + 2 <= Size[SetOf(q)]
    <3>1. /\ Register(a, 2) \in PartsUsed(a, w)
          /\ Register(a + 2, 2) \in PartsUsed(a, w)
      BY <1>4, WordParts
    <3> QED BY <3>1, RegisterIs DEF Fitting, Fits
  <2>2. /\ DOMAIN cells = 1 .. w
        /\ \A k \in 1 .. 4 :
              cells[k] = IF k <= 2 THEN <<SetOf(r), r - Base(SetOf(r)) + (k - 1)>>
                         ELSE <<SetOf(q), q - Base(SetOf(q)) + (k - 3)>>
    BY <1>4, WordParts
  <2> HIDE DEF r, q, cells
  <2>3. r + 1 < 2304 /\ q + 1 < 2304 /\ q = r + 2
    <3>1. r + 2 <= 2304 /\ q + 2 <= 2304
      BY <1>1, <2>1, RegisterBound
    <3> QED BY <1>1, <3>1
  <2>5. ASSUME NEW k \in 1 .. 4
        PROVE  /\ RegisterByte(cells[k], r + (k - 1))
               /\ a % w = 0 => cells[k] = RegisterCell(r + (k - 1))
    <3> DEFINE s == IF k <= 2 THEN r ELSE q
               j == IF k <= 2 THEN k - 1 ELSE k - 3
    <3>1. s \in Nat /\ j \in 0 .. 1 /\ s + j = r + (k - 1) /\ s % 2 = a % 2
      BY <1>1, <2>3
    <3>2. cells[k] = <<SetOf(s), s - Base(SetOf(s)) + j>>
      BY <2>2
    <3>3. s - Base(SetOf(s)) + 2 <= Size[SetOf(s)]
      BY <2>1
    <3> HIDE DEF s, j
    <3>4. /\ RegisterByte(cells[k], s + j)
          /\ s % 2 = 0 => cells[k] = RegisterCell(s + j)
      BY <3>1, <3>2, <3>3, RegisterFits
    <3>5. a % w = 0 => s % 2 = 0
      BY <1>4, <3>1
    <3> QED BY <3>1, <3>4, <3>5
  <2>6. \A j, k \in 1 .. 4 : cells[j] = cells[k] => j = k
    <3> DEFINE e == r - Base(SetOf(r))
               f == q - Base(SetOf(q))
    <3>1. e \in Nat /\ f \in Nat
      BY <1>1, RegistersInRange
    <3>2. SetOf(r) = SetOf(q) => f = e + 2
      BY <1>1, <2>3 DEF Base
    <3>3. \A k \in 1 .. 4 : /\ cells[k][1] = IF k <= 2 THEN SetOf(r) ELSE SetOf(q)
                            /\ cells[k][2] = IF k <= 2 THEN e + (k - 1) ELSE f + (k - 3)
      BY <2>2
    <3> HIDE DEF e, f
    <3> QED BY <3>1, <3>2, <3>3
  <2>7. r + w <= 2304
    BY <1>1, <1>4, <2>3
  <2> QED BY <1>4, <2>2, <2>5, <2>6, <2>7 DEF r, cells
<1> QED BY <1>3, <1>4 DEF Widths

\* The next bytes of an array are those of the next addresses.
LEMMA MemoryNext ==
    ASSUME NEW a \in Nat, InArray(a), NEW j \in 0 .. 3,
           (a % Mask(Array(Page(a)))) + j < Mask(Array(Page(a)))
    PROVE  /\ Page(a + j) # 4 /\ InArray(a + j)
           /\ Array(Page(a + j)) = Array(Page(a))
           /\ (a + j) % Mask(Array(Page(a))) = (a % Mask(Array(Page(a)))) + j
<1> DEFINE x == Array(Page(a))
           p == Page(a)
           b == a + j
<1>1. /\ x \in {"bios", "wramb", "wramc", "pram", "vram", "oam", "rom", "sram"}
      /\ p \in {0, 2, 3} \cup 5 .. 14
      /\ x = "sram" <=> p = 14
      /\ x = "rom" <=> p \in 8 .. 13
      /\ x = "bios" <=> p = 0
      /\ x = "wramb" <=> p = 2
      /\ x = "wramc" <=> p = 3
      /\ x = "pram" <=> p = 5
      /\ x = "vram" <=> p = 6
      /\ x = "oam" <=> p = 7
      /\ p = 0 => a < 2 ^ 14
  BY Pages
<1>2. ASSUME Page(b) = p, p # 0, b % Mask(x) = (a % Mask(x)) + j
      PROVE  /\ Page(b) # 4 /\ InArray(b) /\ Array(Page(b)) = x
             /\ b % Mask(x) = (a % Mask(x)) + j
  BY <1>1, <1>2 DEF InArray, Absent
<1>3. (a % Mask(x)) + j < Mask(x)
  OBVIOUS
<1>4. p = a \div 2 ^ 24 /\ Page(b) = b \div 2 ^ 24 /\ b = a + j
  BY DEF Page
<1> HIDE DEF x, p, b
<1>5. CASE x = "bios"
  <2>1. Mask(x) = 2 ^ 14 /\ p = 0 /\ a < 2 ^ 14
    BY <1>1, <1>5, Masks
  <2>2. a + j < 2 ^ 14 /\ Page(b) = 0 /\ b % 2 ^ 14 = (a % 2 ^ 14) + j
    BY <1>3, <1>4, <2>1, SMT
  <2>3. ~Absent(b)
    BY <1>4, <2>2 DEF Absent, Size
  <2> QED BY <1>4, <2>1, <2>2, <2>3 DEF InArray, x, p, b
<1>6. CASE x = "rom"
  <2>1. Mask(x) = 2 ^ 25 /\ p \in 8 .. 13
    BY <1>1, <1>6, Masks
  <2>2. Page(b) \in 8 .. 13 /\ b % 2 ^ 25 = (a % 2 ^ 25) + j
    BY <1>3, <1>4, <2>1, SMT
  <2>3. InArray(b) /\ Array(Page(b)) = "rom"
    BY <2>2 DEF InArray, Absent, Array
  <2> QED BY <1>6, <2>1, <2>2, <2>3 DEF x, p, b
<1>7. CASE x = "wramb"
  <2>1. Mask(x) = 2 ^ 18 /\ p = 2
    BY <1>1, <1>7, Masks
  <2>2. Page(b) = p /\ b % 2 ^ 18 = (a % 2 ^ 18) + j
    BY <1>3, <1>4, <2>1, SMT
  <2> QED BY <1>2, <2>1, <2>2 DEF x, b
<1>8. CASE x = "wramc"
  <2>1. Mask(x) = 2 ^ 15 /\ p = 3
    BY <1>1, <1>8, Masks
  <2>2. Page(b) = p /\ b % 2 ^ 15 = (a % 2 ^ 15) + j
    BY <1>3, <1>4, <2>1, SMT
  <2> QED BY <1>2, <2>1, <2>2 DEF x, b
<1>9. CASE x \in {"pram", "oam"}
  <2>1. Mask(x) = 2 ^ 10 /\ p \in {5, 7}
    BY <1>1, <1>9, Masks
  <2>2. Page(b) = p /\ b % 2 ^ 10 = (a % 2 ^ 10) + j
    BY <1>3, <1>4, <2>1, SMT
  <2> QED BY <1>2, <2>1, <2>2 DEF x, b
<1>10. CASE x = "vram"
  <2>1. Mask(x) = 2 ^ 17 /\ p = 6
    BY <1>1, <1>10, Masks
  <2>2. Page(b) = p /\ b % 2 ^ 17 = (a % 2 ^ 17) + j
    BY <1>3, <1>4, <2>1, SMT
  <2> QED BY <1>2, <2>1, <2>2 DEF x, b
<1>11. CASE x = "sram"
  <2>1. Mask(x) = 2 ^ 16 /\ p = 14
    BY <1>1, <1>11, Masks
  <2>2. Page(b) = p /\ b % 2 ^ 16 = (a % 2 ^ 16) + j
    BY <1>3, <1>4, <2>1, SMT
  <2> QED BY <1>2, <2>1, <2>2 DEF x, b
<1> QED BY <1>1, <1>5, <1>6, <1>7, <1>8, <1>9, <1>10, <1>11

\* The k-th byte of any other access.
LEMMA MemoryCells ==
    ASSUME NEW a \in Nat, Page(a) # 4, NEW w \in Widths, Fitting(a, w)
    PROVE  LET n == Carried(a, w) IN
           /\ DOMAIN CellsOf(a, w) = 1 .. n
           /\ \A k \in 1 .. n :
                 /\ Page(a + (k - 1)) # 4
                 /\ Backed(a + (k - 1))
                 /\ CellsOf(a, w)[k] = CellOf(a + (k - 1))
                 /\ CellsOf(a, w)[k][2] \in Nat
                 /\ CellsOf(a, w)[k][2] < Size[CellsOf(a, w)[k][1]]
                 /\ \A j \in 1 .. n : CellsOf(a, w)[j] = CellsOf(a, w)[k] => j = k
<1> DEFINE x == Array(Page(a))
           i == a % Mask(x)
           n == IF x = "sram" THEN 1 ELSE w
           g == [array |-> x, index |-> i, width |-> n]
           cells == CellsOf(a, w)
<1>1. InArray(a) /\ Page(a) \in Nat
  BY DEF InArray, Fitting, Page
<1>2. Carried(a, w) = n
  BY <1>1, Pages DEF Carried, Space!Carried, Space!Page, Page
<1>3. /\ i \in Nat /\ Size[x] \in Nat /\ Mask(x) \in Nat
      /\ PartsUsed(a, w) = {g}
      /\ DOMAIN cells = 1 .. n
      /\ \A k \in 1 .. n : cells[k] = <<x, i + (k - 1)>>
  BY <1>1, MemoryParts
<1>4. g.array = x /\ g.index = i /\ g.width = n
  OBVIOUS
<1>5. n \in {1, 2, 4}
  BY DEF Widths
<1>6. Size[x] <= Mask(x)
  BY <1>1, Pages, Masks
<1>10. x = Array(Page(a)) /\ i = a % Mask(Array(Page(a)))
  OBVIOUS
<1> HIDE DEF x, i, n, g, cells
<1>7. i + n <= Size[x]
  BY <1>3, <1>4 DEF Fitting, Fits
<1>8. ASSUME NEW k \in 1 .. n
      PROVE  /\ Page(a + (k - 1)) # 4
             /\ Backed(a + (k - 1))
             /\ cells[k] = CellOf(a + (k - 1))
             /\ cells[k][1] = x /\ cells[k][2] = i + (k - 1)
             /\ cells[k][2] \in Nat
             /\ cells[k][2] < Size[x]
  <2> DEFINE j == k - 1
             b == a + j
  <2>1. j \in 0 .. 3 /\ i + j \in Nat /\ i + j < Size[x] /\ i + j < Mask(x) /\ b \in Nat
    <3>1. j \in 0 .. 3 /\ j < n /\ n \in Nat
      BY <1>5
    <3>2. i \in Nat /\ Size[x] \in Nat /\ Mask(x) \in Nat
      BY <1>3
    <3> HIDE DEF j
    <3> QED BY <1>6, <1>7, <3>1, <3>2
  <2>2. cells[k] = <<x, i + j>>
    BY <1>3
  <2> HIDE DEF j
  <2>3. /\ Page(b) # 4 /\ InArray(b) /\ Array(Page(b)) = x /\ b % Mask(x) = i + j
    BY <1>1, <1>10, <2>1, MemoryNext
  <2> HIDE DEF b
  <2>4. CellOf(b) = <<x, i + j>> /\ Backed(b)
    BY <2>1, <2>3, BackedMemory
  <2>5. cells[k][1] = x /\ cells[k][2] = i + j
    BY <2>2
  <2> QED BY <2>1, <2>2, <2>3, <2>4, <2>5 DEF b, j
<1>9. ASSUME NEW j \in 1 .. n, NEW k \in 1 .. n, cells[j] = cells[k]
      PROVE  j = k
  <2>1. i + (j - 1) = i + (k - 1)
    BY <1>8, <1>9
  <2> QED BY <1>3, <1>5, <2>1
<1> QED BY <1>2, <1>3, <1>8, <1>9 DEF cells

LEMMA Cells ==
    ASSUME NEW a \in Nat, NEW w \in Widths, Fitting(a, w)
    PROVE  LET n == Carried(a, w) IN
           /\ n \in {1, 2, 4} /\ n <= w /\ DOMAIN CellsOf(a, w) = 1 .. n
           /\ \A k \in 1 .. n :
                 /\ Backed(a + (k - 1))
                 /\ CellsOf(a, w)[k][2] \in Nat
                 /\ CellsOf(a, w)[k][2] < Size[CellsOf(a, w)[k][1]]
                 /\ Page(a) # 4 \/ a % w = 0 => Exact(a, w, k)
                 /\ \A b \in Nat : Backed(b) =>
                       (CellsOf(a, w)[k] = CellOf(b)
                          <=> Exact(a, w, k) /\ Space!SameByte(b, a + (k - 1)))
                 /\ \A j \in 1 .. n : CellsOf(a, w)[j] = CellsOf(a, w)[k] => j = k
<1> DEFINE n == Carried(a, w)
           cells == CellsOf(a, w)
<1>1. n = IF Page(a) = 14 THEN 1 ELSE w
  BY DEF Carried, Space!Carried, Space!Page, Page
<1>2. n \in {1, 2, 4} /\ n <= w
  BY <1>1 DEF Widths
<1> HIDE DEF n
<1>3. CASE Page(a) = 4
  <2> DEFINE r == Number(a)
  <2>1. /\ r \in Nat /\ r + w <= 2304 /\ n = w
        /\ DOMAIN cells = 1 .. n
        /\ \A k \in 1 .. n :
              /\ RegisterByte(cells[k], r + (k - 1))
              /\ a % w = 0 => cells[k] = RegisterCell(r + (k - 1))
              /\ \A j \in 1 .. n : cells[j] = cells[k] => j = k
    BY <1>1, <1>3, RegisterCells DEF Number
  <2>2. ASSUME NEW k \in 1 .. n
        PROVE  LET c == a + (k - 1) IN
               c \in Nat /\ Page(c) = 4 /\ Number(c) = r + (k - 1) /\ Number(c) < 2304
    <3>1. k - 1 \in 0 .. 3 /\ k - 1 < w
      BY <1>2, <2>1
    <3>2. \A j \in 0 .. 3 : r + w <= 2304 /\ j < w =>
             a + j \in Nat /\ Page(a + j) = 4 /\ Number(a + j) = r + j /\ Number(a + j) < 2304
      BY <1>3 DEF Page, Number, Widths
    <3> QED BY <2>1, <3>1, <3>2
  <2> HIDE DEF r, cells
  <2>3. ASSUME NEW k \in 1 .. n
        PROVE  /\ Backed(a + (k - 1))
               /\ cells[k][2] \in Nat /\ cells[k][2] < Size[cells[k][1]]
               /\ a % w = 0 => Exact(a, w, k)
    <3>1. CellOf(a + (k - 1)) = RegisterCell(r + (k - 1)) /\ Backed(a + (k - 1))
      BY <2>2, BackedRegister
    <3> QED BY <2>1, <3>1 DEF Exact, RegisterByte, cells
  <2>4. ASSUME NEW k \in 1 .. n, NEW b \in Nat, Backed(b)
        PROVE  cells[k] = CellOf(b) <=> Exact(a, w, k) /\ Space!SameByte(b, a + (k - 1))
    <3> DEFINE c == a + (k - 1)
    <3>1. c \in Nat /\ Page(c) = 4 /\ Number(c) = r + (k - 1) /\ Backed(c)
      BY <2>2, <2>3
    <3>2. Exact(a, w, k) <=> cells[k] = CellOf(c)
      BY DEF Exact, cells
    <3>3. Space!SameByte(b, c) <=> CellOf(b) = CellOf(c)
      BY <2>4, <3>1, SameCell
    <3>4. cells[k] = CellOf(b) => b = c
      <4>1. CASE Page(b) = 4
        <5>1. CellOf(b) = RegisterCell(Number(b)) /\ Number(b) \in Nat
          BY <4>1, BackedRegister DEF Number
        <5>2. cells[k] = CellOf(b) => Number(b) = Number(c)
          BY <2>1, <3>1, <5>1 DEF RegisterByte
        <5>3. Number(b) = Number(c) => b = c
          BY <3>1, <4>1 DEF Number, Page
        <5> QED BY <5>2, <5>3
      <4>2. CASE Page(b) # 4
        <5>1. InArray(b) /\ CellOf(b) = <<Array(Page(b)), b % Mask(Array(Page(b)))>>
          BY <2>4, <4>2, BackedMemory
        <5>2. CellOf(b)[1] \notin {"lcd", "apu", "dma", "ir", "io"}
          BY <5>1, Pages
        <5> QED BY <2>1, <5>2 DEF RegisterByte
      <4> QED BY <4>1, <4>2
    <3> HIDE DEF c
    <3> QED BY <3>2, <3>3, <3>4 DEF c
  <2> QED BY <1>2, <1>3, <2>1, <2>3, <2>4 DEF n, cells
<1>4. CASE Page(a) # 4
  <2>1. /\ DOMAIN cells = 1 .. n
        /\ \A k \in 1 .. n :
              /\ Page(a + (k - 1)) # 4
              /\ Backed(a + (k - 1))
              /\ Exact(a, w, k)
              /\ cells[k][2] \in Nat
              /\ cells[k][2] < Size[cells[k][1]]
              /\ \A j \in 1 .. n : cells[j] = cells[k] => j = k
    BY <1>4, MemoryCells DEF Exact, n
  <2>2. \A k \in 1 .. n : a + (k - 1) \in Nat
    BY <1>2
  <2>3. ASSUME NEW k \in 1 .. n, NEW b \in Nat, Backed(b)
        PROVE  cells[k] = CellOf(b) <=> Exact(a, w, k) /\ Space!SameByte(b, a + (k - 1))
    <3>1. Space!SameByte(b, a + (k - 1)) <=> CellOf(b) = CellOf(a + (k - 1))
      BY <2>1, <2>2, <2>3, SameCell
    <3> QED BY <2>1, <3>1 DEF Exact
  <2> HIDE DEF cells
  <2> QED BY <1>2, <1>4, <2>1, <2>3 DEF n, cells
<1> QED BY <1>3, <1>4

\* An access that is not carried out is one that may end the process.
LEMMA Strays ==
    ASSUME NEW a \in Nat, NEW w \in Widths, ~Absent(a), ~Fitting(a, w)
    PROVE  Space!MayStop(a, w)
<1> SUFFICES ASSUME a % w = 0
             PROVE  \E c \in Space!Touched(a, w) : Space!Hole(c)
  BY DEF Space!MayStop
<1>1. a \in Space!Touched(a, w)
  BY DEF Space!Touched, Widths
<1>2. PICK part \in PartsUsed(a, w) : ~Fits(part)
  BY DEF Fitting
<1>3. CASE Page(a) = 4
  <2> DEFINE r == Number(a)
             q == Number(a + 2)
  <2>1. r \in Nat /\ q \in Nat
    BY DEF Number
  <2>2. ASSUME NEW s \in Nat, NEW n \in {1, 2}, s % n = 0, s < 2304
        PROVE  s - Base(SetOf(s)) + n <= Size[SetOf(s)]
    BY <2>2 DEF SetOf, Base, Size
  <2>3. r >= 2304 => Space!Hole(a)
    BY <1>3, Promised DEF Space!Hole
  <2>4. CASE w \in {1, 2}
    <3>1. part = Register(a, w)
      BY <1>2, <1>3, <2>4, RegisterParts
    <3>2. ~(r - Base(SetOf(r)) + w <= Size[SetOf(r)])
      BY <1>2, <3>1, RegisterIs DEF Fits
    <3>3. r % w = 0
      BY <2>4 DEF Number
    <3>4. r >= 2304
      BY <2>1, <2>2, <2>4, <3>2, <3>3
    <3> QED BY <1>1, <2>3, <3>4
  <2>5. CASE w = 4
    <3>1. part = Register(a, 2) \/ part = Register(a + 2, 2)
      BY <1>2, <1>3, <2>5, WordParts
    <3>2. \/ ~(r - Base(SetOf(r)) + 2 <= Size[SetOf(r)])
          \/ ~(q - Base(SetOf(q)) + 2 <= Size[SetOf(q)])
      BY <1>2, <3>1, RegisterIs DEF Fits
    <3>3. r % 2 = 0 /\ q % 2 = 0 /\ Page(a + 2) = 4
      BY <1>3, <2>5 DEF Number, Page
    <3>4. r >= 2304 \/ q >= 2304
      BY <2>1, <2>2, <3>2, <3>3
    <3>5. q >= 2304 => Space!Hole(a + 2)
      BY <3>3, Promised DEF Space!Hole
    <3>6. a + 2 \in Space!Touched(a, w)
      BY <2>5 DEF Space!Touched
    <3> QED BY <1>1, <2>3, <3>4, <3>5, <3>6
  <2> QED BY <2>4, <2>5 DEF Widths
<1>4. CASE Page(a) # 4
  <2> DEFINE x == Array(Page(a))
             i == a % Mask(x)
             n == IF x = "sram" THEN 1 ELSE w
             g == [array |-> x, index |-> i, width |-> n]
  <2>1. InArray(a)
    BY <1>4 DEF InArray
  <2>2. i \in Nat /\ i < Mask(x) /\ Mask(x) \in Nat /\ PartsUsed(a, w) = {g}
    BY <2>1, MemoryParts
  <2>3. g.array = x /\ g.index = i /\ g.width = n
    OBVIOUS
  <2>6. /\ x \in {"bios", "wramb", "wramc", "pram", "vram", "oam", "rom", "sram"}
        /\ x = "vram" <=> Page(a) = 6
    BY <2>1, Pages
  <2>7. i = a % Mask(x) /\ n = IF x = "sram" THEN 1 ELSE w
    OBVIOUS
  <2> HIDE DEF x, i, n, g
  <2>4. ~(i + n <= Size[x])
    BY <1>2, <2>2, <2>3 DEF Fits
  <2>5. i + n <= Mask(x)
    <3>1. CASE x = "sram"
      BY <2>2, <2>7, <3>1
    <3>2. CASE x # "sram"
      <4>1. Mask(x) \in {2 ^ 10, 2 ^ 14, 2 ^ 15, 2 ^ 17, 2 ^ 18, 2 ^ 25}
        BY <2>6, <3>2, Masks
      <4>2. \A m \in {2 ^ 10, 2 ^ 14, 2 ^ 15, 2 ^ 17, 2 ^ 18, 2 ^ 25}, v \in {1, 2, 4} :
               a % v = 0 => (a % m) + v <= m
        BY SMT
      <4> QED BY <2>7, <3>2, <4>1, <4>2 DEF Widths
    <3> QED BY <3>1, <3>2
  <2>8. x = "vram"
    BY <2>4, <2>5, <2>6, Masks
  <2>9. a % 2 ^ 17 >= 98304
    <3>1. Mask(x) = 2 ^ 17 /\ Size[x] = 98304 /\ n = w
      BY <2>7, <2>8, Masks
    <3>2. \A v \in {1, 2, 4} : a % v = 0 /\ ~((a % 2 ^ 17) + v <= 98304) => a % 2 ^ 17 >= 98304
      BY SMT
    <3> QED BY <2>4, <2>7, <3>1, <3>2 DEF Widths
  <2>10. Space!Hole(a)
    BY <2>6, <2>8, <2>9, Promised DEF Space!Hole
  <2> QED BY <1>1, <2>10
<1> QED BY <1>3, <1>4

LEMMA Wide ==
    ASSUME NEW n \in {1, 2, 4}, NEW f \in [1 .. n -> 0 .. 255]
    PROVE  Widened(f) = [k \in 1 .. 4 |-> IF k <= n THEN f[k] ELSE 0]
<1>1. f \in Seq({f[k] : k \in 1 .. n}) /\ Len(f) = n
  OBVIOUS
<1>2. Nought \in Seq({0}) /\ Len(Nought) = 4 /\ \A k \in 1 .. 4 : Nought[k] = 0
  BY DEF Nought
<1> DEFINE rest == SubSeq(Nought, n + 1, 4)
<1>3. rest \in Seq({0}) /\ Len(rest) = 4 - n /\ \A k \in 1 .. 4 - n : rest[k] = 0
  BY <1>2
<1> HIDE DEF rest
<1> DEFINE whole == f \o rest
<1>4. /\ whole \in Seq({0} \cup {f[k] : k \in 1 .. n}) /\ Len(whole) = 4
      /\ \A k \in 1 .. 4 : whole[k] = IF k <= n THEN f[k] ELSE rest[k - n]
  BY <1>1, <1>3
<1>5. whole = Widened(f)
  BY <1>1 DEF Widened, rest
<1> HIDE DEF whole
<1>6. \A k \in 1 .. 4 : whole[k] = IF k <= n THEN f[k] ELSE 0
  BY <1>3, <1>4
<1>7. whole = [k \in 1 .. 4 |-> whole[k]]
  BY <1>4
<1> QED BY <1>5, <1>6, <1>7

\* The eight lower keys: their byte is the only one with these bits.
LEMMA LowKeys ==
    ASSUME NEW held
    PROVE  Widened(GetKeyStatus(held)) = Space!Pressed(held)
<1> DEFINE d(k) == IF k \in held THEN 0 ELSE 1
           low == GetKeyStatus(held)[1]
           high == GetKeyStatus(held)[2]
<1>1. low = d(0) + 2 * d(1) + 4 * d(2) + 8 * d(3) + 16 * d(4) + 32 * d(5)
              + 64 * d(6) + 128 * d(7)
  BY DEF GetKeyStatus, KeyBit
<1>2. high = d(8) + 2 * d(9) + 252
  BY DEF GetKeyStatus, KeyBit
<1>3. \A k : d(k) \in {0, 1}
  OBVIOUS
<1>4. \A m \in 0 .. 255 :
         (\A bit \in 0 .. 7 : (m \div 2 ^ bit) % 2 = d(bit)) <=> m = low
  <2> DEFINE e0 == d(0) e1 == d(1) e2 == d(2) e3 == d(3)
             e4 == d(4) e5 == d(5) e6 == d(6) e7 == d(7)
  <2> SUFFICES ASSUME NEW m \in 0 .. 255
               PROVE  (\A bit \in 0 .. 7 : (m \div 2 ^ bit) % 2 = d(bit)) <=> m = low
    OBVIOUS
  <2>1. (\A bit \in 0 .. 7 : (m \div 2 ^ bit) % 2 = d(bit)) <=>
           /\ m % 2 = e0 /\ (m \div 2) % 2 = e1 /\ (m \div 4) % 2 = e2
           /\ (m \div 8) % 2 = e3 /\ (m \div 16) % 2 = e4 /\ (m \div 32) % 2 = e5
           /\ (m \div 64) % 2 = e6 /\ (m \div 128) % 2 = e7
    <3> HIDE DEF d
    <3>1. \A bit : bit \in 0 .. 7 <=> bit \in {0, 1, 2, 3, 4, 5, 6, 7}
      OBVIOUS
    <3>2. /\ (m \div 2 ^ 0) % 2 = m % 2 /\ (m \div 2 ^ 1) % 2 = (m \div 2) % 2
          /\ (m \div 2 ^ 2) % 2 = (m \div 4) % 2 /\ (m \div 2 ^ 3) % 2 = (m \div 8) % 2
          /\ (m \div 2 ^ 4) % 2 = (m \div 16) % 2 /\ (m \div 2 ^ 5) % 2 = (m \div 32) % 2
          /\ (m \div 2 ^ 6) % 2 = (m \div 64) % 2 /\ (m \div 2 ^ 7) % 2 = (m \div 128) % 2
      BY SMT
    <3> QED BY <3>1, <3>2
  <2>2. /\ e0 \in {0, 1} /\ e1 \in {0, 1} /\ e2 \in {0, 1} /\ e3 \in {0, 1}
        /\ e4 \in {0, 1} /\ e5 \in {0, 1} /\ e6 \in {0, 1} /\ e7 \in {0, 1}
    BY <1>3
  <2>3. low = e0 + 2 * e1 + 4 * e2 + 8 * e3 + 16 * e4 + 32 * e5 + 64 * e6 + 128 * e7
    BY <1>1
  <2> HIDE DEF e0, e1, e2, e3, e4, e5, e6, e7, low
  <2>4. ( /\ m % 2 = e0 /\ (m \div 2) % 2 = e1 /\ (m \div 4) % 2 = e2
          /\ (m \div 8) % 2 = e3 /\ (m \div 16) % 2 = e4 /\ (m \div 32) % 2 = e5
          /\ (m \div 64) % 2 = e6 /\ (m \div 128) % 2 = e7 )
        <=> m = e0 + 2 * e1 + 4 * e2 + 8 * e3 + 16 * e4 + 32 * e5 + 64 * e6 + 128 * e7
    BY <2>2, SMT
  <2> QED BY <2>1, <2>3, <2>4
<1>5. low \in 0 .. 255 /\ high = 255 - (IF 8 \in held THEN 1 ELSE 0) - (IF 9 \in held THEN 2 ELSE 0)
  BY <1>1, <1>2
<1>6. (CHOOSE m \in Space!Byte :
          \A bit \in 0 .. 7 : (m \div 2 ^ bit) % 2 = IF bit \in held THEN 0 ELSE 1) = low
  BY <1>4, <1>5 DEF Space!Byte
<1>7. GetKeyStatus(held) \in [1 .. 2 -> 0 .. 255]
  <2>1. GetKeyStatus(held) = <<low, high>> /\ high \in 0 .. 255
    BY <1>5 DEF GetKeyStatus
  <2> HIDE DEF low, high
  <2> QED BY <1>5, <2>1
<1>8. Widened(GetKeyStatus(held)) =
         [k \in 1 .. 4 |-> IF k <= 2 THEN GetKeyStatus(held)[k] ELSE 0]
  BY <1>7, Wide
<1> HIDE DEF low, high
<1>9. \A k \in 1 .. 4 :
         (IF k <= 2 THEN GetKeyStatus(held)[k] ELSE 0) =
            IF k > 2 THEN 0
            ELSE IF k = 2 THEN 255 - (IF 8 \in held THEN 1 ELSE 0) - (IF 9 \in held THEN 2 ELSE 0)
            ELSE low
  BY <1>5 DEF low, high
<1> QED BY <1>6, <1>8, <1>9 DEF Space!Pressed
-----------------------------------------------------------------------------
(* The refinement.  A step of the bus changes the contents of the address  *)
(* space as the promise has it: every byte of the window has its cell in   *)
(* the arrays, and what an access leaves out are the bytes whose cells it  *)
(* does not reach.                                                         *)
Arrays == /\ window \in Windows
          /\ DOMAIN bytes = WaitcntCells \cup CellsInUse(window)
          /\ \A cell \in DOMAIN bytes : bytes[cell] \in 0 .. 255

Mapped == [a \in Reach |-> IF a \in DOMAIN Home THEN bytes[Home[a]] ELSE 0]

LEMMA ReachIs ==
    ASSUME window \in Windows, NEW a \in Reach
    PROVE  /\ a \in Nat
           /\ a \in DOMAIN Home <=> Backed(a)
           /\ Backed(a) => Home[a] = CellOf(a) /\ CellOf(a) \in CellsInUse(window)
<1>1. PICK b \in window, k \in 0 .. 3 : a = b + k
  BY DEF Reach
<1>2. b \in Nat
  BY WindowsAssumption
<1>3. a \in Nat
  BY <1>1, <1>2
<1>4. a \in {w + j : w \in UNION Windows, j \in 0 .. 3}
  <2>1. b \in UNION Windows
    OBVIOUS
  <2> DEFINE plus(c, j) == c + j
  <2>2. a = plus(b, k)
    BY <1>1
  <2> HIDE DEF plus
  <2>3. a \in {plus(w, j) : w \in UNION Windows, j \in 0 .. 3}
    BY <2>1, <2>2
  <2> QED BY <2>3 DEF plus
<1>5. (a \in DOMAIN Home <=> Backed(a)) /\ (Backed(a) => Home[a] = CellOf(a))
  BY <1>4 DEF Home
<1>6. ASSUME Backed(a) PROVE CellOf(a) \in CellsInUse(window)
  <2>1. Fitting(a, 1)
    BY <1>6 DEF Backed, Fitting
  <2>2. 1 \in DOMAIN CellsOf(a, 1) /\ CellsOf(a, 1)[1][2] < Size[CellsOf(a, 1)[1][1]]
    <3>1. 1 \in 1 .. Carried(a, 1) /\ 1 \in Widths
      BY DEF Carried, Space!Carried, Widths
    <3> QED BY <1>3, <2>1, <3>1, Cells
  <2>3. CellOf(a) \in Touched(a, 1) /\ CellOf(a)[2] < Size[CellOf(a)[1]]
    BY <2>2 DEF Touched, CellOf
  <2>4. a \in {c \in {d + j : d \in window, j \in 0 .. 3} : ~Absent(c)} /\ 1 \in Widths
    <3>1. 1 \in Widths
      BY DEF Widths
    <3>2. ~Absent(a)
      BY <1>6 DEF Backed
    <3> DEFINE plus(d, j) == d + j
    <3>3. a = plus(b, k)
      BY <1>1
    <3> HIDE DEF plus
    <3>4. a \in {plus(d, j) : d \in window, j \in 0 .. 3}
      BY <3>3
    <3>5. a \in {d + j : d \in window, j \in 0 .. 3}
      BY <3>4 DEF plus
    <3> DEFINE S == {d + j : d \in window, j \in 0 .. 3}
    <3>6. a \in S
      BY <3>5
    <3> HIDE DEF S
    <3>7. a \in {c \in S : ~Absent(c)}
      BY <3>2, <3>6
    <3> QED BY <3>1, <3>7 DEF S
  <2> QED BY <2>3, <2>4 DEF CellsInUse
<1> QED BY <1>3, <1>5, <1>6

LEMMA MappedIs ==
    ASSUME Arrays
    PROVE  /\ Mapped = [a \in Reach |-> IF Backed(a) THEN bytes[CellOf(a)] ELSE 0]
           /\ Mapped \in [Reach -> Space!Byte]
           /\ \A a \in Reach : Backed(a) => CellOf(a) \in DOMAIN bytes
<1>1. \A a \in Reach : (a \in DOMAIN Home <=> Backed(a)) /\ (Backed(a) => Home[a] = CellOf(a))
  BY ReachIs DEF Arrays
<1>2. \A a \in Reach : Backed(a) => CellOf(a) \in DOMAIN bytes
  BY ReachIs DEF Arrays
<1>3. Mapped = [a \in Reach |-> IF Backed(a) THEN bytes[CellOf(a)] ELSE 0]
  BY <1>1 DEF Mapped
<1>4. \A a \in Reach : (IF Backed(a) THEN bytes[CellOf(a)] ELSE 0) \in Space!Byte
  BY <1>2 DEF Arrays, Space!Byte
<1> QED BY <1>2, <1>3, <1>4

\* Every cell is a place in an array.
LEMMA CellNumbers ==
    ASSUME NEW a \in Nat, ~Absent(a), NEW w \in Widths, NEW cell \in Touched(a, w)
    PROVE  cell[2] \in Nat
<1>1. PICK k \in DOMAIN CellsOf(a, w) : cell = CellsOf(a, w)[k]
  BY DEF Touched
<1>2. CASE Page(a) = 4 /\ w = 4
  <2> DEFINE e == Number(a) - Base(SetOf(Number(a)))
             f == Number(a + 2) - Base(SetOf(Number(a + 2)))
  <2>1. e \in Nat /\ f \in Nat
    BY RegistersInRange DEF Number
  <2>2. k \in 1 .. 4 /\ cell[2] = IF k <= 2 THEN e + (k - 1) ELSE f + (k - 3)
    BY <1>1, <1>2, WordParts
  <2> HIDE DEF e, f
  <2> QED BY <2>1, <2>2
<1>3. CASE Page(a) = 4 /\ w # 4
  <2> DEFINE e == Number(a) - Base(SetOf(Number(a)))
  <2>1. e \in Nat
    BY RegistersInRange DEF Number
  <2>2. k \in 1 .. w /\ cell[2] = e + (k - 1)
    BY <1>1, <1>3, RegisterParts DEF Widths
  <2> HIDE DEF e
  <2> QED BY <2>1, <2>2 DEF Widths
<1>4. CASE Page(a) # 4
  <2> DEFINE i == a % Mask(Array(Page(a)))
             n == IF Array(Page(a)) = "sram" THEN 1 ELSE w
  <2>3. /\ i \in Nat /\ DOMAIN CellsOf(a, w) = 1 .. n
        /\ \A j \in 1 .. n : CellsOf(a, w)[j] = <<Array(Page(a)), i + (j - 1)>>
    BY <1>4, MemoryParts DEF InArray
  <2>1. i \in Nat /\ k \in 1 .. n /\ cell[2] = i + (k - 1)
    BY <1>1, <2>3
  <2>2. n \in Nat
    BY DEF Widths
  <2> HIDE DEF i, n
  <2> QED BY <2>1, <2>2
<1> QED BY <1>2, <1>3, <1>4

LEMMA InitArrays == Init => Arrays
<1> SUFFICES ASSUME Init PROVE Arrays
  OBVIOUS
<1>1. window \in Windows /\ bytes = [cell \in WaitcntCells \cup CellsInUse(window) |-> File(cell)]
  BY DEF Init, WaitcntCells
<1>2. \A cell \in WaitcntCells : File(cell) = 0
  BY DEF WaitcntCells, File
<1>3. ASSUME NEW cell \in CellsInUse(window) PROVE File(cell) \in 0 .. 255
  <2>1. PICK a \in {b \in {c + k : c \in window, k \in 0 .. 3} : ~Absent(b)}, w \in Widths :
           cell \in Touched(a, w)
    BY DEF CellsInUse
  <2>2. a \in Nat
    <3>1. PICK b \in window, k \in 0 .. 3 : a = b + k
      BY <2>1
    <3>2. b \in Nat
      BY <1>1, WindowsAssumption
    <3> QED BY <3>1, <3>2
  <2>3. cell[2] \in Nat
    BY <2>1, <2>2, CellNumbers
  <2> QED BY <2>3 DEF File
<1> QED BY <1>1, <1>2, <1>3 DEF Arrays

LEMMA InitMaps == Init => Space!Init
<1> SUFFICES ASSUME Init PROVE Space!Init
  OBVIOUS
<1>1. Arrays
  BY InitArrays
<1>2. Reach = Space!Reach
  BY DEF Reach, Space!Reach
<1>3. ASSUME NEW a \in Reach, NEW b \in Reach, Space!SameByte(a, b)
      PROVE  Mapped[a] = Mapped[b]
  <2>1. a \in Nat /\ b \in Nat
    BY <1>1, ReachIs DEF Arrays
  <2>2. Backed(a) <=> Backed(b)
    BY <1>3, <2>1, SameBytes
  <2>3. Backed(a) => CellOf(a) = CellOf(b)
    BY <1>3, <2>1, <2>2, SameCell
  <2> QED BY <1>1, <2>2, <2>3, MappedIs
<1>4. Mapped \in [Space!Reach -> Space!Byte]
  BY <1>1, <1>2, MappedIs
<1>5. /\ window \in Windows /\ keys = {} /\ access = <<"none", 0, 0>>
      /\ answer = <<0, 0, 0, 0>> /\ stopped = FALSE
  BY DEF Init, Nought
<1> QED BY <1>2, <1>3, <1>4, <1>5 DEF Space!Init, Mapped

LEMMA Unstored ==
    ASSUME UNCHANGED <<window, bytes>>
    PROVE  UNCHANGED Mapped /\ (Arrays => Arrays')
<1>1. UNCHANGED Mapped
  BY DEF Mapped, Reach, Home
<1>2. Arrays => Arrays'
  BY DEF Arrays
<1> QED BY <1>1, <1>2

LEMMA NowhereIs ==
    ASSUME NEW a \in Nat
    PROVE  /\ Space!Nowhere(a) <=> Absent(a)
           /\ Space!ReadOnly(a) <=> ReadOnly(a)
           /\ Space!KEYINPUT = KEYINPUT
<1>1. Page(a) = 0 => Number(a) = a
  BY DEF Page, Number
<1>2. Space!Nowhere(a) <=> Absent(a)
  BY <1>1, Promised DEF Space!Nowhere, Absent, Size
<1>3. Space!ReadOnly(a) <=> ReadOnly(a)
  BY Promised DEF Space!ReadOnly, ReadOnly
<1> QED BY <1>2, <1>3 DEF Space!KEYINPUT, KEYINPUT

\* What an access misses.
Missed(a, w) == {a + (k - 1) : k \in {j \in 1 .. Carried(a, w) : ~Exact(a, w, j)}}

LEMMA MissedIs ==
    ASSUME NEW a \in Nat, NEW w \in Widths, Fitting(a, w)
    PROVE  /\ Missed(a, w) \in Space!Missable(a, w)
           /\ \A k \in 1 .. Carried(a, w) :
                 a + (k - 1) \notin Missed(a, w) <=> Exact(a, w, k)
<1> DEFINE n == Carried(a, w)
<1>1. n \in {1, 2, 4} /\ n <= w
  BY Cells
<1> HIDE DEF n
<1>2. \A k \in 1 .. n : a + (k - 1) \in Missed(a, w) <=> ~Exact(a, w, k)
  <2>1. \A j, k \in 1 .. n : a + (j - 1) = a + (k - 1) => j = k
    BY <1>1
  <2> QED BY <2>1 DEF Missed, n
<1>3. Missed(a, w) \subseteq Space!Touched(a, w)
  <2> SUFFICES ASSUME NEW k \in 1 .. n PROVE a + (k - 1) \in {a + j : j \in 0 .. w - 1}
    BY DEF Missed, Space!Touched, n
  <2>1. k - 1 \in 0 .. w - 1
    BY <1>1 DEF Widths
  <2> QED BY <2>1
<1>4. ASSUME Page(a) # 4 \/ a % w = 0 PROVE Missed(a, w) = {}
  <2>1. \A k \in 1 .. n : Exact(a, w, k)
    BY <1>4, Cells DEF n
  <2> QED BY <2>1 DEF Missed, n
<1>5. Space!Page(a) = Page(a)
  BY Promised
<1>6. Missed(a, w) \in Space!Missable(a, w)
  BY <1>3, <1>4, <1>5 DEF Space!Missable
<1> QED BY <1>2, <1>6 DEF n

\* The cells of an access from the window are among those in use.
LEMMA InUse ==
    ASSUME window \in Windows, NEW a \in window, NEW w \in Widths, Fitting(a, w),
           NEW k \in 1 .. Carried(a, w)
    PROVE  /\ CellsOf(a, w)[k] \in CellsInUse(window)
           /\ a + (k - 1) \in Reach
<1>1. a \in Nat
  BY WindowsAssumption
<1>2. /\ k \in 1 .. 4 /\ DOMAIN CellsOf(a, w) = 1 .. Carried(a, w)
      /\ CellsOf(a, w)[k][2] < Size[CellsOf(a, w)[k][1]]
  BY <1>1, Cells
<1> DEFINE plus(d, j) == d + j
<1>3. a = plus(a, 0) /\ a + (k - 1) = plus(a, k - 1) /\ 0 \in 0 .. 3 /\ k - 1 \in 0 .. 3
  BY <1>1, <1>2
<1> HIDE DEF plus
<1>4. /\ a \in {plus(d, j) : d \in window, j \in 0 .. 3}
      /\ a + (k - 1) \in {plus(d, j) : d \in window, j \in 0 .. 3}
  BY <1>3
<1>5. /\ a \in {d + j : d \in window, j \in 0 .. 3}
      /\ a + (k - 1) \in {d + j : d \in window, j \in 0 .. 3}
  BY <1>4 DEF plus
<1>6. a \in {c \in {d + j : d \in window, j \in 0 .. 3} : ~Absent(c)}
  BY <1>5 DEF Fitting
<1>7. CellsOf(a, w)[k] \in Touched(a, w)
  BY <1>2 DEF Touched
<1>8. a + (k - 1) \in Reach
  BY <1>5 DEF Reach
<1> QED BY <1>2, <1>6, <1>7, <1>8 DEF CellsInUse

LEMMA LoadMaps ==
    ASSUME Arrays, NEW a \in window, NEW w \in Widths, NEW seq \in Sequentialities,
           Read(a, w, seq)
    PROVE  Arrays' /\ Space!Load(a, w)
<1>1. a \in Nat
  BY WindowsAssumption DEF Arrays
<1>2. /\ ~stopped /\ a # KEYINPUT /\ access' = <<"load", a, w>>
      /\ UNCHANGED <<window, bytes, keys>>
  BY DEF Read
<1>3. UNCHANGED Mapped /\ Arrays'
  BY <1>2, Unstored
<1>4. CASE Absent(a)
  <2>1. answer' = <<0, 0, 0, 0>> /\ UNCHANGED stopped
    BY <1>4 DEF Read, Nought
  <2> QED BY <1>1, <1>2, <1>3, <1>4, <2>1, NowhereIs DEF Space!Load, Mapped
<1>5. CASE ~Absent(a) /\ ~Fitting(a, w)
  <2>1. stopped' = TRUE /\ UNCHANGED answer
    BY <1>5 DEF Read, Fitting
  <2>2. Space!MayStop(a, w)
    BY <1>1, <1>5, Strays
  <2> QED BY <1>2, <1>3, <2>1, <2>2 DEF Space!Load, Mapped
<1>6. CASE Fitting(a, w)
  <2> DEFINE n == Carried(a, w)
             cells == CellsOf(a, w)
             f == [k \in 1 .. n |-> bytes[cells[k]]]
  <2>1. n \in {1, 2, 4} /\ DOMAIN cells = 1 .. n
    BY <1>1, <1>6, Cells
  <2>2. answer' = Widened(f) /\ UNCHANGED stopped
    BY <1>6, <2>1 DEF Read, Fitting
  <2>4. f \in [1 .. n -> 0 .. 255]
    BY <1>6, InUse DEF Arrays
  <2>3. answer' = [k \in 1 .. 4 |-> IF k <= n THEN f[k] ELSE 0]
    <3> HIDE DEF f, n
    <3> QED BY <2>1, <2>2, <2>4, Wide
  <2> HIDE DEF n, f
  <2>5. answer' \in [1 .. 4 -> Space!Byte]
    BY <2>1, <2>3, <2>4 DEF Space!Byte
  <2>6. ASSUME NEW k \in 1 .. 4, a + (k - 1) \notin Missed(a, w)
        PROVE  answer'[k] = IF k <= n THEN Mapped[a + (k - 1)] ELSE 0
    <3>1. CASE k <= n
      <4>1. k \in 1 .. n
        BY <2>1, <3>1
      <4>2. Exact(a, w, k) /\ Backed(a + (k - 1)) /\ a + (k - 1) \in Reach
        BY <1>1, <1>6, <2>6, <4>1, MissedIs, Cells, InUse DEF Arrays, n
      <4>3. Mapped[a + (k - 1)] = bytes[cells[k]]
        BY <4>2, MappedIs DEF Exact
      <4> QED BY <2>3, <3>1, <4>1, <4>3 DEF f
    <3>2. CASE ~(k <= n)
      BY <2>3, <3>2
    <3> QED BY <3>1, <3>2
  <2>7. Space!Agrees(answer', a, w, Missed(a, w))
    <3>1. \A k \in 1 .. 4 :
             Space!Held(a, w)[k] = IF k <= n THEN Mapped[a + (k - 1)] ELSE 0
      BY DEF Space!Held, Mapped, n, Carried
    <3> QED BY <2>6, <3>1 DEF Space!Agrees
  <2>8. Missed(a, w) \in Space!Missable(a, w)
    BY <1>1, <1>6, MissedIs
  <2>9. ~Space!Nowhere(a) /\ a # Space!KEYINPUT
    BY <1>1, <1>2, <1>6, NowhereIs DEF Fitting
  <2> QED BY <1>2, <1>3, <2>2, <2>5, <2>7, <2>8, <2>9 DEF Space!Load, Mapped
<1> QED BY <1>3, <1>4, <1>5, <1>6

\* A key's bits are read without the arrays.
LEMMA KeysMap ==
    ASSUME Arrays, NEW w \in Widths, ReadKeys(w)
    PROVE  Arrays' /\ KEYINPUT \in window /\ Space!Load(KEYINPUT, w)
<1>1. /\ ~stopped /\ KEYINPUT \in window /\ access' = <<"load", KEYINPUT, w>>
      /\ answer' = Widened(GetKeyStatus(keys))
      /\ UNCHANGED <<window, bytes, keys, stopped>>
  BY DEF ReadKeys
<1>2. UNCHANGED Mapped /\ Arrays'
  BY <1>1, Unstored
<1>3. answer' = Space!Pressed(keys) /\ KEYINPUT = Space!KEYINPUT
  BY <1>1, LowKeys DEF KEYINPUT, Space!KEYINPUT
<1> QED BY <1>1, <1>2, <1>3 DEF Space!Load, Mapped

\* A store that is carried out, byte by byte.
LEMMA StoredMaps ==
    ASSUME Arrays, Arrays', NEW a \in window, NEW w \in Widths, NEW value \in GuestWords,
           Fitting(a, w), UNCHANGED window, bytes' = Stored(a, w, value)
    PROVE  Mapped' = Space!Overwritten(a, w, value, Missed(a, w))
<1> DEFINE n == Carried(a, w)
           cells == CellsOf(a, w)
           Hits(b) == {k \in 1 .. n : a + (k - 1) \notin Missed(a, w)
                                        /\ Space!SameByte(b, a + (k - 1))}
<1>1. a \in Nat
  BY WindowsAssumption DEF Arrays
<1>2. n \in {1, 2, 4} /\ DOMAIN cells = 1 .. n
  BY <1>1, Cells
<1>8. \A k \in 1 .. n : Backed(a + (k - 1))
  BY <1>1, Cells
<1> HIDE DEF n
<1>3. \A k \in 1 .. n : a + (k - 1) \in Nat /\ Backed(a + (k - 1))
  BY <1>1, <1>2, <1>8
<1>4. /\ Mapped = [b \in Reach |-> IF Backed(b) THEN bytes[CellOf(b)] ELSE 0]
      /\ \A b \in Reach : b \in Nat /\ (Backed(b) => CellOf(b) \in DOMAIN bytes)
  BY MappedIs, ReachIs DEF Arrays
<1>5. Mapped' = [b \in Reach |-> IF Backed(b) THEN bytes'[CellOf(b)] ELSE 0]
  <2>1. \A b \in Reach : (b \in DOMAIN Home <=> Backed(b)) /\ (Backed(b) => Home[b] = CellOf(b))
    BY ReachIs DEF Arrays
  <2>2. Mapped' = [b \in Reach |-> IF b \in DOMAIN Home THEN bytes'[Home[b]] ELSE 0]
    BY DEF Mapped, Reach, Home
  <2> QED BY <2>1, <2>2
<1>6. Space!Overwritten(a, w, value, Missed(a, w)) =
         [b \in Reach |-> IF Hits(b) = {} THEN Mapped[b]
                          ELSE value[CHOOSE k \in Hits(b) : TRUE]]
  BY DEF Space!Overwritten, Space!Reach, Reach, Mapped, n, Carried
<1>7. ASSUME NEW b \in Reach
      PROVE  (IF Backed(b) THEN bytes'[CellOf(b)] ELSE 0) =
                (IF Hits(b) = {} THEN Mapped[b] ELSE value[CHOOSE k \in Hits(b) : TRUE])
  <2>1. b \in Nat
    BY <1>4
  <2>2. CASE ~Backed(b)
    <3>1. Hits(b) = {}
      <4> SUFFICES ASSUME NEW k \in 1 .. n, Space!SameByte(b, a + (k - 1)) PROVE FALSE
        OBVIOUS
      <4> QED BY <1>3, <2>1, <2>2, SameBytes
    <3> QED BY <1>4, <2>2, <3>1
  <2>3. CASE Backed(b)
    <3>1. \A k \in 1 .. n : k \in Hits(b) <=> cells[k] = CellOf(b)
      <4>1. \A k \in 1 .. n : a + (k - 1) \notin Missed(a, w) <=> Exact(a, w, k)
        BY <1>1, MissedIs DEF n
      <4>2. \A k \in 1 .. n : cells[k] = CellOf(b) <=>
                                 Exact(a, w, k) /\ Space!SameByte(b, a + (k - 1))
        BY <1>1, <2>1, <2>3, Cells DEF n
      <4> QED BY <4>1, <4>2
    <3>2. bytes'[CellOf(b)] =
             IF \E k \in DOMAIN cells : cells[k] = CellOf(b)
             THEN value[CHOOSE k \in DOMAIN cells : cells[k] = CellOf(b)]
             ELSE bytes[CellOf(b)]
      BY <1>4, <2>3 DEF Stored
    <3> HIDE DEF cells
    <3>3. CASE Hits(b) = {}
      <4>1. ~ \E k \in DOMAIN cells : cells[k] = CellOf(b)
        BY <1>2, <3>1, <3>3
      <4> HIDE DEF Hits
      <4> QED BY <1>4, <2>3, <3>2, <3>3, <4>1
    <3>4. CASE Hits(b) # {}
      <4>1. PICK k \in 1 .. n : k \in Hits(b)
        BY <3>4
      <4>2. \A j \in 1 .. n : cells[j] = CellOf(b) => j = k
        BY <1>1, <3>1, <4>1, Cells DEF n, cells
      <4>3. Hits(b) \subseteq 1 .. n
        OBVIOUS
      <4> HIDE DEF Hits
      <4>4. (CHOOSE j \in Hits(b) : TRUE) = k
        BY <3>1, <4>1, <4>2, <4>3
      <4>5. (CHOOSE j \in DOMAIN cells : cells[j] = CellOf(b)) = k
        BY <1>2, <3>1, <4>1, <4>2
      <4>6. \E j \in DOMAIN cells : cells[j] = CellOf(b)
        BY <1>2, <3>1, <4>1
      <4> QED BY <2>3, <3>2, <3>4, <4>4, <4>5, <4>6
    <3> QED BY <3>3, <3>4
  <2> QED BY <2>2, <2>3
<1> HIDE DEF Hits
<1> QED BY <1>5, <1>6, <1>7

LEMMA SaveMaps ==
    ASSUME Arrays, NEW a \in window, NEW w \in Widths, NEW seq \in Sequentialities,
           NEW value \in GuestWords, Write(a, w, value, seq)
    PROVE  Arrays' /\ Space!Save(a, w, value)
<1>1. a \in Nat
  BY WindowsAssumption DEF Arrays
<1>2. /\ ~stopped /\ access' = <<"store", a, w>>
      /\ UNCHANGED <<window, keys, answer>>
  BY DEF Write
<1>3. (Space!Nowhere(a) \/ Space!ReadOnly(a)) <=> (Absent(a) \/ ReadOnly(a))
  BY <1>1, NowhereIs
<1>4. CASE Absent(a) \/ ReadOnly(a)
  <2>1. UNCHANGED <<bytes, stopped>>
    BY <1>4 DEF Write
  <2>2. UNCHANGED Mapped /\ Arrays'
    BY <1>2, <2>1, Unstored
  <2> QED BY <1>2, <1>3, <1>4, <2>1, <2>2 DEF Space!Save, Mapped
<1>5. CASE ~(Absent(a) \/ ReadOnly(a)) /\ \E part \in PartsUsed(a, w) : ~Fits(part) \/ Refused(part)
  <2>1. stopped' = TRUE /\ UNCHANGED bytes
    BY <1>5 DEF Write
  <2>2. UNCHANGED Mapped /\ Arrays'
    BY <1>2, <2>1, Unstored
  <2>3. Space!MayRefuse(a, w)
    <3>1. CASE ~Fitting(a, w)
      BY <1>1, <1>5, <3>1, Strays DEF Space!MayRefuse
    <3>2. CASE Fitting(a, w)
      <4>1. PICK part \in PartsUsed(a, w) : Refused(part)
        BY <1>5, <3>2 DEF Fitting
      <4>2. part.width = 1 /\ part.array \in {"dma", "lcd"}
        BY <4>1 DEF Refused
      <4>3. Page(a) = 4
        <5> SUFFICES ASSUME Page(a) # 4 PROVE FALSE
          OBVIOUS
        <5> DEFINE x == Array(Page(a))
                   g == [array |-> x, index |-> a % Mask(x),
                         width |-> IF x = "sram" THEN 1 ELSE w]
        <5>1. InArray(a)
          BY <1>5 DEF InArray
        <5>2. PartsUsed(a, w) = {g}
          BY <1>1, <5>1, MemoryParts
        <5>3. g.array = x
          OBVIOUS
        <5>4. x \notin {"dma", "lcd"}
          BY <1>1, <5>1, Pages
        <5> HIDE DEF g, x
        <5> QED BY <4>2, <5>2, <5>3, <5>4
      <4>4. w = 1
        <5>1. CASE w = 4
          <6>1. part = Register(a, 2) \/ part = Register(a + 2, 2)
            BY <1>1, <4>3, <5>1, WordParts
          <6>2. part.width = 2
            BY <1>1, <6>1, RegisterIs
          <6> QED BY <4>2, <6>2
        <5>2. CASE w \in {1, 2}
          <6>1. part = Register(a, w)
            BY <1>1, <4>3, <5>2, RegisterParts
          <6>2. part.width = w
            BY <1>1, <6>1, RegisterIs
          <6> QED BY <4>2, <6>2
        <5> QED BY <5>1, <5>2 DEF Widths
      <4> QED BY <4>3, <4>4, Promised DEF Space!MayRefuse
    <3> QED BY <3>1, <3>2
  <2> QED BY <1>2, <2>1, <2>2, <2>3 DEF Space!Save, Mapped
<1>6. CASE /\ ~(Absent(a) \/ ReadOnly(a))
           /\ \A part \in PartsUsed(a, w) : Fits(part) /\ ~Refused(part)
  <2>1. Fitting(a, w)
    BY <1>6 DEF Fitting
  <2>2. bytes' = Stored(a, w, value) /\ UNCHANGED stopped
    BY <1>6 DEF Write
  <2>3. Arrays'
    <3>1. DOMAIN bytes' = DOMAIN bytes
      BY <2>2 DEF Stored
    <3>2. ASSUME NEW cell \in DOMAIN bytes PROVE bytes'[cell] \in 0 .. 255
      <4> DEFINE cells == CellsOf(a, w)
      <4>1. bytes'[cell] = IF \E k \in DOMAIN cells : cells[k] = cell
                           THEN value[CHOOSE k \in DOMAIN cells : cells[k] = cell]
                           ELSE bytes[cell]
        BY <2>2 DEF Stored
      <4>2. DOMAIN cells \subseteq 1 .. 4
        BY <1>1, CellsDomain
      <4>3. value \in [1 .. 4 -> 0 .. 255]
        BY GuestWordsAssumption
      <4> HIDE DEF cells
      <4> QED BY <4>1, <4>2, <4>3 DEF Arrays
    <3> QED BY <1>2, <3>1, <3>2 DEF Arrays
  <2>4. Mapped' = Space!Overwritten(a, w, value, Missed(a, w))
    BY <1>2, <2>1, <2>2, <2>3, StoredMaps
  <2>5. Missed(a, w) \in Space!Missable(a, w)
    BY <1>1, <2>1, MissedIs
  <2> QED BY <1>2, <1>3, <1>6, <2>2, <2>3, <2>4, <2>5 DEF Space!Save, Mapped
<1> QED BY <1>4, <1>5, <1>6

LEMMA StepMaps ==
    ASSUME Arrays, [Next]_vars
    PROVE  Arrays' /\ [Space!Next]_(Space!vars)
<1>1. ASSUME NEW width \in Widths, ReadKeys(width)
      PROVE  Arrays' /\ Space!Next
  BY <1>1, KeysMap DEF Space!Next, Space!Widths, Widths
<1>2. ASSUME NEW address \in window, NEW width \in Widths, NEW seq \in Sequentialities,
             Read(address, width, seq)
      PROVE  Arrays' /\ Space!Next
  BY <1>2, LoadMaps DEF Space!Next, Space!Widths, Widths
<1>3. ASSUME NEW address \in window, NEW width \in Widths, NEW seq \in Sequentialities,
             NEW value \in GuestWords, Write(address, width, value, seq)
      PROVE  Arrays' /\ Space!Next
  BY <1>3, SaveMaps DEF Space!Next, Space!Widths, Widths
<1>4. ASSUME KeyUpdate PROVE Arrays' /\ Space!Next
  <2>1. UNCHANGED Mapped /\ Arrays'
    BY <1>4, Unstored DEF KeyUpdate
  <2>2. Space!Press
    BY <1>4, <2>1 DEF KeyUpdate, Space!Press, Mapped
  <2> QED BY <2>1, <2>2 DEF Space!Next
<1>5. ASSUME UNCHANGED vars PROVE Arrays' /\ UNCHANGED (Space!vars)
  <2>1. UNCHANGED Mapped /\ Arrays'
    BY <1>5, Unstored DEF vars
  <2> QED BY <1>5, <2>1 DEF vars, Space!vars, Mapped
<1> QED BY <1>1, <1>2, <1>3, <1>4, <1>5 DEF Next

(* The bus is the memory that AddressSpace.tla promises, whichever         *)
(* addresses a program uses: the masks and the register sets give every    *)
(* byte a cell that it shares with its mirrors and with nothing else, a    *)
(* store through Memory::Write reaches the cells of the bytes it names and *)
(* no other, a load through Memory::Read answers theirs, and no aligned    *)
(* access to memory that exists ends the process, except for a store of a  *)
(* single byte in a register.                                              *)
THEOREM Refinement == Spec => ImplementsAddressSpace
<1>1. Init => Arrays /\ Space!Init
  BY InitArrays, InitMaps
<1>2. Arrays /\ [Next]_vars => Arrays' /\ [Space!Next]_(Space!vars)
  BY StepMaps
<1> QED BY <1>1, <1>2, PTL DEF Spec, Space!Spec, ImplementsAddressSpace
-----------------------------------------------------------------------------
(* The flash.  Save and the constructor go through the file by position;   *)
(* that each position is the place of one byte is a matter of counting.    *)
N == Cardinality(Addresses)

Upto(a) == {x \in Addresses : x <= a}
Rank(a) == Cardinality(Upto(a))

LEMMA RankIs ==
    /\ N \in Nat
    /\ \A a \in Addresses : Rank(a) \in 1 .. N
    /\ \A a, b \in Addresses : a < b => Rank(a) < Rank(b)
<1>1. N \in Nat
  BY FlashAssumption, FS_CardinalityType DEF N
<1>2. ASSUME NEW a \in Addresses
      PROVE  IsFiniteSet(Upto(a)) /\ Rank(a) \in 1 .. N
  <2>1. Upto(a) \in SUBSET Addresses
    BY DEF Upto
  <2>2. IsFiniteSet(Upto(a)) /\ Rank(a) <= N
    BY <2>1, FlashAssumption, FS_Subset DEF Rank, N
  <2>3. a \in Upto(a)
    BY FlashAssumption DEF Upto
  <2>4. Rank(a) \in Nat /\ Rank(a) # 0
    BY <2>2, <2>3, FS_CardinalityType, FS_EmptySet DEF Rank
  <2> QED BY <1>1, <2>2, <2>4
<1>3. ASSUME NEW a \in Addresses, NEW b \in Addresses, a < b
      PROVE  Rank(a) < Rank(b)
  <2>0. Addresses \subseteq Nat
    BY FlashAssumption
  <2>1. Upto(a) \in SUBSET Upto(b) /\ b \in Upto(b) /\ b \notin Upto(a)
    <3>1. \A x \in Addresses : x <= a => x <= b
      BY <1>3, <2>0
    <3>2. b <= b /\ ~(b <= a)
      BY <1>3, <2>0
    <3> QED BY <3>1, <3>2 DEF Upto
  <2>2. Rank(a) <= Rank(b) /\ Rank(a) # Rank(b)
    BY <1>2, <2>1, FS_Subset DEF Rank
  <2> QED BY <1>1, <1>2, <2>2
<1> QED BY <1>1, <1>2, <1>3

LEMMA RankOnto == \A n \in 1 .. N : \E a \in Addresses : Rank(a) = n
<1> DEFINE f == [a \in Addresses |-> Rank(a)]
<1>1. f \in [Addresses -> 1 .. N]
  BY RankIs
<1>2. \A a, b \in Addresses : f[a] = f[b] => a = b
  <2> SUFFICES ASSUME NEW a \in Addresses, NEW b \in Addresses, a # b
               PROVE  Rank(a) # Rank(b)
    OBVIOUS
  <2>1. a < b \/ b < a
    BY FlashAssumption
  <2> QED BY <2>1, RankIs
<1>3. f \in Injection(Addresses, 1 .. N)
  BY <1>1, <1>2 DEF Injection, IsInjective
<1>4. IsFiniteSet(1 .. N) /\ Cardinality(1 .. N) = N
  BY RankIs, FS_Interval
<1>5. f \in Surjection(Addresses, 1 .. N)
  <2> HIDE DEF f
  <2> QED BY <1>3, <1>4, FS_Injection DEF N
<1> QED BY <1>5 DEF Surjection

LEMMA BanksAre ==
    \/ Banks = {0} /\ FileSize = N
    \/ Banks = {0, 1} /\ FileSize = 2 * N
<1>1. Cardinality({0}) = 1
  BY FS_Singleton
<1>2. 0 .. 1 = {0, 1} /\ Cardinality(0 .. 1) = 2
  <2>1. Cardinality({0} \cup {1}) = 2
    BY <1>1, FS_Singleton, FS_AddElement
  <2>2. 0 .. 1 = {0} \cup {1}
    OBVIOUS
  <2> QED BY <2>1, <2>2
<1>3. CASE ChipSize = "Double"
  BY <1>2, <1>3, RankIs DEF Banks, FileSize, N
<1>4. CASE ChipSize # "Double"
  BY <1>1, <1>4, RankIs DEF Banks, FileSize, N
<1> QED BY <1>3, <1>4

LEMMA PositionIs ==
    \A a \in Addresses : /\ Position(0, a) = Rank(a)
                         /\ Position(1, a) = N + Rank(a)
BY RankIs DEF Position, Rank, Upto, N

LEMMA Positions ==
    /\ FileSize \in Nat
    /\ \A b \in Banks, a \in Addresses : Position(b, a) \in 1 .. FileSize
    /\ \A b, c \in Banks, a, d \in Addresses :
          Position(b, a) = Position(c, d) => b = c /\ a = d
<1>1. \A a, d \in Addresses : Rank(a) = Rank(d) => a = d
  <2> SUFFICES ASSUME NEW a \in Addresses, NEW d \in Addresses, a # d
               PROVE  Rank(a) # Rank(d)
    OBVIOUS
  <2>1. a < d \/ d < a
    BY FlashAssumption
  <2> QED BY <2>1, RankIs
<1>2. FileSize \in Nat
  BY BanksAre, RankIs
<1>3. ASSUME NEW b \in Banks, NEW a \in Addresses
      PROVE  Position(b, a) \in 1 .. FileSize
  BY BanksAre, RankIs, PositionIs
<1>4. ASSUME NEW b \in Banks, NEW c \in Banks, NEW a \in Addresses, NEW d \in Addresses,
             Position(b, a) = Position(c, d)
      PROVE  b = c /\ a = d
  <2>1. b \in {0, 1} /\ c \in {0, 1}
    BY BanksAre
  <2>2. Rank(a) \in 1 .. N /\ Rank(d) \in 1 .. N /\ N \in Nat
    BY RankIs
  <2>3. b = c
    BY <1>4, <2>1, <2>2, PositionIs
  <2>4. Rank(a) = Rank(d)
    BY <1>4, <2>1, <2>2, <2>3, PositionIs
  <2> QED BY <1>1, <2>3, <2>4
<1> QED BY <1>2, <1>3, <1>4

LEMMA CellIs ==
    \A n \in 1 .. FileSize :
       /\ CellAt(n) \in Banks \X Addresses
       /\ Position(CellAt(n)[1], CellAt(n)[2]) = n
<1> SUFFICES ASSUME NEW n \in 1 .. FileSize
             PROVE  \E cell \in Banks \X Addresses : Position(cell[1], cell[2]) = n
  BY DEF CellAt
<1>1. CASE n <= N
  <2>1. n \in 1 .. N /\ 0 \in Banks
    BY <1>1, RankIs, BanksAre
  <2>2. PICK a \in Addresses : Rank(a) = n
    BY <2>1, RankOnto
  <2>3. <<0, a>> \in Banks \X Addresses /\ Position(0, a) = n
    BY <2>1, <2>2, PositionIs
  <2> QED BY <2>3
<1>2. CASE n > N
  <2>1. n - N \in 1 .. N /\ 1 \in Banks
    BY <1>2, RankIs, BanksAre
  <2>2. PICK a \in Addresses : Rank(a) = n - N
    BY <2>1, RankOnto
  <2>3. <<1, a>> \in Banks \X Addresses /\ Position(1, a) = n
    BY <2>1, <2>2, PositionIs, RankIs
  <2> QED BY <2>3
<1> QED BY <1>1, <1>2, RankIs, BanksAre
-----------------------------------------------------------------------------
Bank == [Addresses -> Byte]

\* The records of Fields, whatever their states and banks are.
Chips(S, B) == [state : S, currentBank : 0 .. 1, idMode : BOOLEAN, eraseEnable : BOOLEAN,
                bank : B]

\* The ways in which the handlers change them.
WithState(f, s)      == [f EXCEPT !.state = s]
WithId(f, i, s)      == [f EXCEPT !.idMode = i, !.state = s]
WithErase(f, s)      == [f EXCEPT !.eraseEnable = TRUE, !.state = s]
WithCurrent(f, c, s) == [f EXCEPT !.currentBank = c, !.state = s]
WithBank(f, m, s)    == [f EXCEPT !.bank = m, !.state = s]
WithByte(f, a, v)    ==
    [f EXCEPT !.bank[f.currentBank][a] = v, !.state = "INIT0"]
WithBlank(f, m, s)   == [f EXCEPT !.bank = m, !.eraseEnable = FALSE, !.state = s]

\* The fields that the promises are about.
Shown(f, s, c, m) == f.state = s /\ f.currentBank = c /\ f.bank = m

LEMMA ChipKept ==
    ASSUME NEW S, NEW B, NEW f \in Chips(S, B), NEW s \in S
    PROVE  /\ WithState(f, s) \in Chips(S, B)
           /\ Shown(WithState(f, s), s, f.currentBank, f.bank)
           /\ \A i \in BOOLEAN : /\ WithId(f, i, s) \in Chips(S, B)
                                 /\ Shown(WithId(f, i, s), s, f.currentBank, f.bank)
           /\ WithErase(f, s) \in Chips(S, B)
           /\ Shown(WithErase(f, s), s, f.currentBank, f.bank)
           /\ \A c \in 0 .. 1 : /\ WithCurrent(f, c, s) \in Chips(S, B)
                                /\ Shown(WithCurrent(f, c, s), s, c, f.bank)
<1>1. WithState(f, s) \in Chips(S, B) /\ Shown(WithState(f, s), s, f.currentBank, f.bank)
  BY DEF Chips, WithState, Shown
<1>2. ASSUME NEW i \in BOOLEAN
      PROVE  /\ WithId(f, i, s) \in Chips(S, B)
             /\ Shown(WithId(f, i, s), s, f.currentBank, f.bank)
  BY DEF Chips, WithId, Shown
<1>3. WithErase(f, s) \in Chips(S, B) /\ Shown(WithErase(f, s), s, f.currentBank, f.bank)
  BY DEF Chips, WithErase, Shown
<1>4. ASSUME NEW c \in 0 .. 1
      PROVE  WithCurrent(f, c, s) \in Chips(S, B) /\ Shown(WithCurrent(f, c, s), s, c, f.bank)
  BY DEF Chips, WithCurrent, Shown
<1> QED BY <1>1, <1>2, <1>3, <1>4

LEMMA ChipChanged ==
    ASSUME NEW S, NEW B, NEW f \in Chips(S, B), NEW s \in S, NEW m \in B
    PROVE  /\ WithBank(f, m, s) \in Chips(S, B)
           /\ Shown(WithBank(f, m, s), s, f.currentBank, m)
           /\ WithBlank(f, m, s) \in Chips(S, B)
           /\ Shown(WithBlank(f, m, s), s, f.currentBank, m)
<1>1. WithBank(f, m, s) \in Chips(S, B) /\ Shown(WithBank(f, m, s), s, f.currentBank, m)
  BY DEF Chips, WithBank, Shown
<1>2. WithBlank(f, m, s) \in Chips(S, B) /\ Shown(WithBlank(f, m, s), s, f.currentBank, m)
  BY DEF Chips, WithBlank, Shown
<1> QED BY <1>1, <1>2

TwoBanks == [0 .. 1 -> Bank]

LEMMA FieldsAre == Fields = Chips(States, TwoBanks)
BY DEF Fields, Chips, TwoBanks, Bank

LEMMA FieldsKept ==
    ASSUME NEW f \in Fields, NEW s \in States
    PROVE  /\ WithState(f, s) \in Fields
           /\ Shown(WithState(f, s), s, f.currentBank, f.bank)
           /\ \A i \in BOOLEAN : /\ WithId(f, i, s) \in Fields
                                 /\ Shown(WithId(f, i, s), s, f.currentBank, f.bank)
           /\ WithErase(f, s) \in Fields
           /\ Shown(WithErase(f, s), s, f.currentBank, f.bank)
           /\ \A c \in 0 .. 1 : /\ WithCurrent(f, c, s) \in Fields
                                /\ Shown(WithCurrent(f, c, s), s, c, f.bank)
BY FieldsAre, ChipKept

LEMMA FieldsChanged ==
    ASSUME NEW f \in Fields, NEW s \in States, NEW m \in TwoBanks
    PROVE  /\ WithBank(f, m, s) \in Fields
           /\ Shown(WithBank(f, m, s), s, f.currentBank, m)
           /\ WithBlank(f, m, s) \in Fields
           /\ Shown(WithBlank(f, m, s), s, f.currentBank, m)
BY FieldsAre, ChipChanged

LEMMA ChipIs ==
    \A f \in Fields : f.currentBank \in 0 .. 1 /\ f.bank \in TwoBanks /\ f.state \in States
<1>1. ASSUME NEW S, NEW B, NEW f \in Chips(S, B)
      PROVE  f.currentBank \in 0 .. 1 /\ f.bank \in B /\ f.state \in S
  BY DEF Chips
<1> QED BY <1>1, FieldsAre

LEMMA FreshIs == Fresh \in Bank
BY DEF Fresh, Bank, Byte

LEMMA LoadIs ==
    ASSUME NEW data \in Seq(Byte)
    PROVE  /\ Load(data) \in Fields
           /\ Load(data).currentBank = 0
           /\ \A b \in Banks, a \in Addresses :
                 Load(data).bank[b][a] = IF Position(b, a) <= Len(data)
                                          THEN data[Position(b, a)] ELSE Fresh[a]
<1>1. \A b \in 0 .. 1, a \in Addresses :
         (IF b \in Banks /\ Position(b, a) <= Len(data)
          THEN data[Position(b, a)] ELSE Fresh[a]) \in Byte
  <2> SUFFICES ASSUME NEW b \in 0 .. 1, NEW a \in Addresses, b \in Banks,
                      Position(b, a) <= Len(data)
               PROVE  data[Position(b, a)] \in Byte
    BY FreshIs DEF Bank
  <2>1. Position(b, a) \in 1 .. FileSize /\ FileSize \in Nat
    BY Positions
  <2>2. Position(b, a) \in 1 .. Len(data)
    BY <2>1
  <2> QED BY <2>2
<1>2. Banks \subseteq 0 .. 1
  BY DEF Banks
<1>3. Load(data).bank =
        [b \in 0 .. 1 |-> [a \in Addresses |->
           IF b \in Banks /\ Position(b, a) <= Len(data)
           THEN data[Position(b, a)] ELSE Fresh[a]]]
  BY DEF Load
<1>4. Load(data).bank \in [0 .. 1 -> [Addresses -> Byte]]
  BY <1>1, <1>3
<1>5. Load(data) \in Fields
  <2>1. ASSUME NEW m \in TwoBanks
        PROVE  [state |-> "INIT0", currentBank |-> 0, idMode |-> FALSE,
                eraseEnable |-> FALSE, bank |-> m] \in Chips(States, TwoBanks)
    BY DEF Chips, States
  <2>2. Load(data) = [state |-> "INIT0", currentBank |-> 0, idMode |-> FALSE,
                       eraseEnable |-> FALSE, bank |-> Load(data).bank]
    BY <1>3 DEF Load
  <2>3. Load(data).bank \in TwoBanks
    BY <1>4 DEF TwoBanks, Bank
  <2> QED BY <2>1, <2>2, <2>3, FieldsAre
<1>6. Load(data).currentBank = 0
  BY DEF Load
<1>7. ASSUME NEW b \in Banks, NEW a \in Addresses
      PROVE  Load(data).bank[b][a] = IF Position(b, a) <= Len(data)
                                      THEN data[Position(b, a)] ELSE Fresh[a]
  BY <1>2, <1>3
<1> QED BY <1>5, <1>6, <1>7

\* What a store may do to the banks.
Programmed(f, g, a, v) ==
    /\ g.currentBank = f.currentBank
    /\ g.bank = [f.bank EXCEPT ![f.currentBank][a] = v]

SectorErased(f, g, a) ==
    /\ g.currentBank = f.currentBank
    /\ g.bank = [f.bank EXCEPT ![f.currentBank] =
                    [x \in Addresses |-> IF Sector(x) = Sector(a) THEN Erased ELSE @[x]]]

ChipErased(f, g) ==
    /\ g.currentBank = f.currentBank
    /\ g.bank = [b \in 0 .. 1 |-> [a \in Addresses |-> Erased]]

LEMMA Constant ==
    /\ CHIP_ID_ENABLE = 144 /\ CHIP_ID_DISABLE = 240 /\ ERASE = 128 /\ ERASE_CHIP = 16
    /\ ERASE_SECTOR = 48 /\ WRITE_SINGLE = 160 /\ BANK_SWITCH = 176
BY DEF CHIP_ID_ENABLE, CHIP_ID_DISABLE, ERASE, ERASE_CHIP, ERASE_SECTOR, WRITE_SINGLE,
       BANK_SWITCH

LEMMA ChipErasedIs ==
    ASSUME NEW f \in Fields
    PROVE  /\ EraseChip(f) \in Fields /\ EraseChip(f).state = "INIT0"
           /\ ChipErased(f, EraseChip(f))
<1> DEFINE m == [b \in 0 .. 1 |-> [a \in Addresses |-> Erased]]
<1>1. m \in TwoBanks
  BY DEF TwoBanks, Bank, Byte, Erased
<1>2. EraseChip(f) = WithBlank(f, m, "INIT0")
  BY DEF EraseChip, WithBlank
<1>3. "INIT0" \in States
  BY DEF States
<1>4. EraseChip(f) \in Fields /\ Shown(EraseChip(f), "INIT0", f.currentBank, m)
  <2> HIDE DEF m
  <2> QED BY <1>1, <1>2, <1>3, FieldsChanged
<1> QED BY <1>4 DEF ChipErased, Shown

LEMMA SectorErasedIs ==
    ASSUME NEW f \in Fields, NEW a \in Addresses
    PROVE  LET g == EraseSector(f, Sector(a))
           IN  g \in Fields /\ g.state = "INIT0" /\ SectorErased(f, g, a)
<1> DEFINE part == [x \in Addresses |-> IF Sector(x) = Sector(a) THEN Erased
                                        ELSE f.bank[f.currentBank][x]]
           m == [f.bank EXCEPT ![f.currentBank] = part]
           g == EraseSector(f, Sector(a))
<1>1. f.bank \in TwoBanks /\ f.currentBank \in 0 .. 1
  BY ChipIs
<1>2. part \in Bank
  BY <1>1 DEF TwoBanks, Bank, Byte, Erased
<1>3. m \in TwoBanks
  BY <1>1, <1>2 DEF TwoBanks
<1>4. g = WithBank(f, m, "INIT0")
  <2>1. ASSUME NEW S, NEW B, NEW h \in Chips(S, B)
        PROVE  [h EXCEPT !.bank[h.currentBank] =
                  [x \in Addresses |-> IF Sector(x) = Sector(a) THEN Erased ELSE @[x]],
                  !.state = "INIT0"]
               = [h EXCEPT !.bank = [h.bank EXCEPT ![h.currentBank] =
                    [x \in Addresses |-> IF Sector(x) = Sector(a) THEN Erased
                                         ELSE h.bank[h.currentBank][x]]],
                    !.state = "INIT0"]
    BY DEF Chips
  <2> QED BY <2>1, FieldsAre DEF EraseSector, WithBank
<1>5. "INIT0" \in States
  BY DEF States
<1>6. g \in Fields /\ Shown(g, "INIT0", f.currentBank, m)
  <2> HIDE DEF m, g
  <2> QED BY <1>3, <1>4, <1>5, FieldsChanged
<1>7. m = [f.bank EXCEPT ![f.currentBank] =
              [x \in Addresses |-> IF Sector(x) = Sector(a) THEN Erased ELSE @[x]]]
  BY <1>1 DEF TwoBanks
<1> QED BY <1>6, <1>7 DEF SectorErased, Shown

LEMMA ProgrammedIs ==
    ASSUME NEW f \in Fields, NEW a \in Addresses, NEW v \in Byte
    PROVE  LET g == WithByte(f, a, v)
           IN  g \in Fields /\ g.state = "INIT0" /\ Programmed(f, g, a, v)
<1> DEFINE g == WithByte(f, a, v)
           m == [f.bank EXCEPT ![f.currentBank][a] = v]
<1>1. f.bank \in TwoBanks /\ f.currentBank \in 0 .. 1
  BY ChipIs
<1>2. [f.bank[f.currentBank] EXCEPT ![a] = v] \in Bank
  BY <1>1 DEF TwoBanks, Bank
<1>3. m \in TwoBanks
  BY <1>1, <1>2 DEF TwoBanks
<1>4. g = WithBank(f, m, "INIT0")
  <2>1. ASSUME NEW S, NEW B, NEW h \in Chips(S, B)
        PROVE  [h EXCEPT !.bank[h.currentBank][a] = v, !.state = "INIT0"]
               = [h EXCEPT !.bank = [h.bank EXCEPT ![h.currentBank][a] = v],
                           !.state = "INIT0"]
    BY DEF Chips
  <2> QED BY <2>1, FieldsAre DEF WithBank, WithByte
<1>5. "INIT0" \in States
  BY DEF States
<1>6. g \in Fields /\ Shown(g, "INIT0", f.currentBank, m)
  <2> HIDE DEF m, g
  <2> QED BY <1>3, <1>4, <1>5, FieldsChanged
<1> QED BY <1>6 DEF Programmed, Shown
-----------------------------------------------------------------------------
(* What the stores of the program mean to the device, store by store.      *)
First1  == <<21845, 170>>
Second1 == <<10922, 85>>

Pairs == Nat \X Nat

LEMMA Alike ==
    \A a, b, c, d, x, y, z :
       /\ Len(<< >>) = 0 /\ Len(<<a>>) = 1 /\ Len(<<a, b>>) = 2
       /\ Len(<<a, b, c>>) = 3 /\ Len(<<a, b, c, d>>) = 4
       /\ <<a, b, c>>[3] = c /\ <<a, b, c, d>>[4] = d
       /\ <<a>> = <<x>> <=> a = x
       /\ <<a, b>> = <<x, y>> <=> a = x /\ b = y
       /\ <<a, b, c>> = <<x, y, z>> <=> a = x /\ b = y /\ c = z
       /\ <<a, b, c, d>> = <<x, y, z, d>> <=> a = x /\ b = y /\ c = z
OBVIOUS

\* A command that changes neither the memory nor the bank selected.
Quiet(c) == /\ ~Device!Programs(c) /\ ~Device!Selects(c)
            /\ ~Device!ErasesSector(c) /\ ~Device!ErasesChip(c)

Starts(s) == s[1] \in Addresses /\ s[1] % SectorSize = 0

LEMMA Spelled ==
    /\ Device!Unlocked = <<First1, Second1>>
    /\ \A op : Device!Named(op) = <<First1, Second1, <<21845, op>>>>
    /\ First1 \in Pairs /\ Second1 \in Pairs
    /\ \A op \in Nat : <<21845, op>> \in Pairs
BY DEF Device!Unlocked, Device!Named, First1, Second1, Pairs

LEMMA BegunIs ==
    \A c : Device!Begun(c) <=> \/ c = <<First1>> \/ c = <<First1, Second1>>
                               \/ c = Device!Named(160) \/ c = Device!Named(176)
BY Spelled, Constant DEF Device!Begun, First1

LEMMA Longer ==
    ASSUME NEW s \in Pairs, NEW t \in Pairs
    PROVE  /\ Append(<<First1>>, s) = <<First1, s>>
           /\ Append(<<First1, Second1>>, s) = <<First1, Second1, s>>
           /\ Append(<<First1, Second1, t>>, s) = <<First1, Second1, t, s>>
<1>1. First1 \in Pairs /\ Second1 \in Pairs
  BY Spelled
<1>2. ASSUME NEW x \in Seq(Pairs), NEW y \in Seq(Pairs), Len(x) = Len(y),
             \A i \in 1 .. Len(y) : x[i] = y[i]
      PROVE  x = y
  BY <1>2, SeqEqual
<1>3. ASSUME NEW x \in Seq(Pairs), NEW e \in Pairs
      PROVE  /\ Append(x, e) \in Seq(Pairs) /\ Len(Append(x, e)) = Len(x) + 1
             /\ Len(x) \in Nat /\ Append(x, e)[Len(x) + 1] = e
             /\ \A i \in 1 .. Len(x) : Append(x, e)[i] = x[i]
  OBVIOUS
<1>4. Append(<<First1>>, s) = <<First1, s>>
  <2> DEFINE x == Append(<<First1>>, s)
             y == <<First1, s>>
  <2>1. <<First1>> \in Seq(Pairs) /\ y \in Seq(Pairs) /\ Len(<<First1>>) = 1 /\ Len(y) = 2
        /\ <<First1>>[1] = First1
        /\ y[1] = First1 /\ y[2] = s
    BY <1>1
  <2>2. x \in Seq(Pairs) /\ Len(x) = 2
        /\ x[1] = First1 /\ x[2] = s
    BY <1>3, <2>1
  <2> HIDE DEF x, y
  <2>3. x = y
    BY <1>2, <2>1, <2>2
  <2> QED BY <2>3 DEF x, y
<1>5. Append(<<First1, Second1>>, s) = <<First1, Second1, s>>
  <2> DEFINE x == Append(<<First1, Second1>>, s)
             y == <<First1, Second1, s>>
  <2>1. /\ <<First1, Second1>> \in Seq(Pairs) /\ Len(<<First1, Second1>>) = 2
        /\ y \in Seq(Pairs) /\ Len(y) = 3
        /\ <<First1, Second1>>[1] = First1 /\ <<First1, Second1>>[2] = Second1
        /\ y[1] = First1 /\ y[2] = Second1 /\ y[3] = s
    BY <1>1
  <2>2. x \in Seq(Pairs) /\ Len(x) = 3
        /\ x[1] = First1 /\ x[2] = Second1 /\ x[3] = s
    BY <1>3, <2>1
  <2> HIDE DEF x, y
  <2>3. x = y
    BY <1>2, <2>1, <2>2
  <2> QED BY <2>3 DEF x, y
<1>6. Append(<<First1, Second1, t>>, s) = <<First1, Second1, t, s>>
  <2> DEFINE x == Append(<<First1, Second1, t>>, s)
             y == <<First1, Second1, t, s>>
  <2>1. /\ <<First1, Second1, t>> \in Seq(Pairs) /\ Len(<<First1, Second1, t>>) = 3
        /\ y \in Seq(Pairs) /\ Len(y) = 4
        /\ <<First1, Second1, t>>[1] = First1 /\ <<First1, Second1, t>>[2] = Second1
        /\ <<First1, Second1, t>>[3] = t
        /\ y[1] = First1 /\ y[2] = Second1 /\ y[3] = t /\ y[4] = s
    BY <1>1
  <2>2. x \in Seq(Pairs) /\ Len(x) = 4
        /\ x[1] = First1 /\ x[2] = Second1 /\ x[3] = t /\ x[4] = s
    BY <1>3, <2>1
  <2> HIDE DEF x, y
  <2>3. x = y
    BY <1>2, <2>1, <2>2
  <2> QED BY <2>3 DEF x, y
<1> QED BY <1>4, <1>5, <1>6

LEMMA LongerPairs ==
    \A s \in Pairs :
       /\ Append(<<First1>>, s) = <<First1, s>>
       /\ Append(<<First1, Second1>>, s) = <<First1, Second1, s>>
       /\ \A t \in Pairs : Append(<<First1, Second1, t>>, s) = <<First1, Second1, t, s>>
BY Longer

\* A store is a pair of its two parts.
LEMMA StoreIs ==
    \A s \in Addresses \X Byte :
       s \in Pairs /\ s[1] \in Addresses /\ s[2] \in Byte /\ s = <<s[1], s[2]>>
<1>1. Addresses \subseteq Nat /\ Byte \subseteq Nat
  BY FlashAssumption DEF Byte
<1>2. ASSUME NEW A, NEW B, NEW s \in A \X B
      PROVE  s[1] \in A /\ s[2] \in B /\ s = <<s[1], s[2]>>
  OBVIOUS
<1> QED BY <1>1, <1>2 DEF Pairs

LEMMA Nothing == Quiet(<< >>) /\ ~Device!Begun(<< >>)
<1>1. \A op : << >> # Device!Named(op)
  BY Spelled
<1>2. Quiet(<< >>)
  <2>1. Len(<< >>) = 0
    OBVIOUS
  <2> QED BY <1>1, <2>1 DEF Quiet, Device!Programs, Device!Selects, Device!ErasesSector,
                            Device!ErasesChip
<1> QED BY <1>1, <1>2, BegunIs

LEMMA Short ==
    ASSUME NEW a, NEW b
    PROVE  /\ Quiet(<<a>>) /\ ~Device!Complete(<<a>>)
           /\ Quiet(<<a, b>>) /\ ~Device!Complete(<<a, b>>)
<1>1. ASSUME NEW c, Len(c) \in 0 .. 2
      PROVE  Quiet(c) /\ ~Device!Complete(c)
  <2>1. \A op : c # Device!Named(op)
    BY <1>1, Spelled, Alike
  <2>2. Quiet(c)
    BY <1>1, <2>1
       DEF Quiet, Device!Programs, Device!Selects, Device!ErasesSector, Device!ErasesChip
  <2> QED BY <2>1, <2>2 DEF Device!Complete, Quiet
<1>2. Len(<<a>>) \in 0 .. 2 /\ Len(<<a, b>>) \in 0 .. 2
  OBVIOUS
<1> QED BY <1>1, <1>2

LEMMA Third ==
    ASSUME NEW s \in Pairs
    PROVE  LET c == <<First1, Second1, s>>
           IN  /\ ~Device!Programs(c) /\ ~Device!Selects(c)
               /\ Device!ErasesSector(c) <=> Starts(s) /\ s[2] = 48
               /\ Device!ErasesChip(c) <=> s = <<21845, 16>>
               /\ Device!Begun(c) <=> s = <<21845, 160>> \/ s = <<21845, 176>>
               /\ Device!Complete(c) <=>
                     \/ Starts(s) /\ s[2] = 48
                     \/ \E op \in {16, 144, 240, 128} : s = <<21845, op>>
<1> DEFINE c == <<First1, Second1, s>>
<1>1. Len(c) = 3 /\ c[3] = s
  OBVIOUS
<1>2. \A op : c = Device!Named(op) <=> s = <<21845, op>>
  BY Spelled, Alike
<1>3. c = Append(Device!Unlocked, c[3])
  BY <1>1, Spelled, LongerPairs
<1> HIDE DEF c
<1>4. ~Device!Programs(c) /\ ~Device!Selects(c)
  BY <1>1 DEF Device!Programs, Device!Selects
<1>5. Device!ErasesSector(c) <=> Starts(s) /\ s[2] = 48
  BY <1>1, <1>3, Constant DEF Device!ErasesSector, Starts
<1>6. Device!ErasesChip(c) <=> s = <<21845, 16>>
  BY <1>2, Constant DEF Device!ErasesChip
<1>7. Device!Begun(c) <=> s = <<21845, 160>> \/ s = <<21845, 176>>
  <2>1. c # <<First1>> /\ c # <<First1, Second1>>
    BY <1>1, Alike
  <2> QED BY <1>2, <2>1, BegunIs
<1>8. Device!Complete(c) <=>
         \/ Starts(s) /\ s[2] = 48
         \/ \E op \in {16, 144, 240, 128} : s = <<21845, op>>
  BY <1>2, <1>4, <1>5, <1>6, Constant DEF Device!Complete
<1> QED BY <1>4, <1>5, <1>6, <1>7, <1>8 DEF c

LEMMA Fourth ==
    ASSUME NEW t \in Pairs, NEW s \in Pairs
    PROVE  LET c == <<First1, Second1, t, s>>
           IN  /\ ~Device!Begun(c) /\ ~Device!ErasesSector(c) /\ ~Device!ErasesChip(c)
               /\ Device!Programs(c) <=> t = <<21845, 160>>
               /\ Device!Selects(c) <=> t = <<21845, 176>>
               /\ c[4] = s
<1> DEFINE c == <<First1, Second1, t, s>>
<1>1. Len(c) = 4 /\ c[4] = s
  OBVIOUS
<1>2. ASSUME NEW op \in Nat
      PROVE  c = Append(Device!Named(op), c[4]) <=> t = <<21845, op>>
  <2> DEFINE u == <<21845, op>>
  <2>1. u \in Pairs /\ Device!Named(op) = <<First1, Second1, u>>
    BY Spelled
  <2> HIDE DEF u
  <2>2. Append(Device!Named(op), c[4]) = <<First1, Second1, u, s>>
    BY <1>1, <2>1, LongerPairs
  <2>3. c = <<First1, Second1, u, s>> <=> t = u
    OBVIOUS
  <2> HIDE DEF c
  <2>4. c = Append(Device!Named(op), c[4]) <=> t = u
    BY <2>2, <2>3
  <2> QED BY <2>4 DEF u
<1> HIDE DEF c
<1>3. \A op : c # Device!Named(op)
  BY <1>1, Spelled, Alike
<1>4. ~Device!Begun(c)
  BY <1>1, <1>3, BegunIs, Alike
<1>5. ~Device!ErasesSector(c) /\ ~Device!ErasesChip(c)
  BY <1>1, <1>3 DEF Device!ErasesSector, Device!ErasesChip
<1>6. Device!Programs(c) <=> t = <<21845, 160>>
  BY <1>1, <1>2, Constant DEF Device!Programs
<1>7. Device!Selects(c) <=> t = <<21845, 176>>
  BY <1>1, <1>2, Constant DEF Device!Selects
<1> QED BY <1>1, <1>4, <1>5, <1>6, <1>7 DEF c

\* The flash has heard of a command what its state tells.
Heard(f, c) ==
    /\ f.state = "INIT0" => ~Device!Begun(c)
    /\ f.state = "INIT1" => c = <<First1>>
    /\ f.state = "OPERATION" => c = <<First1, Second1>>
    /\ f.state = "ACCEPT_WRITE" => c = Device!Named(160)
    /\ f.state = "ACCEPT_BANK_SWITCH" => c = Device!Named(176)

LEMMA HearFirst ==
    ASSUME NEW c, ~Device!Begun(c), NEW s \in Pairs
    PROVE  Device!Hear(c, s) = IF s = First1 THEN <<First1>> ELSE << >>
<1>1. Device!Begun(<<s>>) <=> s = First1
  <2>1. \A op : <<s>> # Device!Named(op)
    BY Spelled, Alike
  <2>2. <<s>> # <<First1, Second1>> /\ (<<s>> = <<First1>> <=> s = First1)
    OBVIOUS
  <2> QED BY <2>1, <2>2, BegunIs
<1>2. ~Device!Complete(<<s>>)
  BY Short
<1>3. c # Device!Unlocked
  BY BegunIs, Spelled
<1>4. CASE s = First1
  <2>1. <<s>> = <<First1>> /\ Device!Begun(<<s>>)
    BY <1>1, <1>4
  <2> QED BY <1>4, <2>1 DEF Device!Hear
<1>5. CASE s # First1
  BY <1>1, <1>2, <1>3, <1>5 DEF Device!Hear
<1> QED BY <1>4, <1>5

LEMMA HearSecond ==
    ASSUME NEW s \in Pairs
    PROVE  Device!Hear(<<First1>>, s) = IF s = Second1 THEN <<First1, Second1>> ELSE << >>
<1> DEFINE c == <<First1>>
           d == <<First1, s>>
<1>1. Append(c, s) = d
  BY LongerPairs
<1>2. Device!Begun(c)
  BY BegunIs
<1>3. Device!Begun(d) <=> s = Second1
  <2>1. \A op : d # Device!Named(op)
    BY Spelled, Alike
  <2>2. d # <<First1>> /\ (d = <<First1, Second1>> <=> s = Second1)
    OBVIOUS
  <2> QED BY <2>1, <2>2, BegunIs
<1>4. ~Device!Complete(d)
  BY Short
<1>5. c # Device!Unlocked
  BY Spelled
<1>6. s = Second1 => d = <<First1, Second1>>
  OBVIOUS
<1> HIDE DEF c, d
<1>7. Device!Hear(c, s) = IF s = Second1 THEN <<First1, Second1>> ELSE << >>
  BY <1>1, <1>2, <1>3, <1>4, <1>5, <1>6 DEF Device!Hear
<1> QED BY <1>7 DEF c

LEMMA HearThird ==
    ASSUME NEW s \in Pairs
    PROVE  LET c == <<First1, Second1, s>>
               d == Device!Hear(<<First1, Second1>>, s)
           IN  /\ Device!Begun(c) \/ Device!Complete(c) => d = c
               /\ ~(Device!Begun(c) \/ Device!Complete(c)) =>
                     d = IF s[1] = 21845 /\ s[2] # 48 THEN <<First1, Second1>> ELSE << >>
<1> DEFINE b == <<First1, Second1>>
           c == <<First1, Second1, s>>
<1>1. Append(b, s) = c
  BY LongerPairs
<1>2. Device!Begun(b) /\ b = Device!Unlocked
  BY BegunIs, Spelled
<1>3. ERASE_SECTOR = 48
  BY Constant
<1> HIDE DEF b, c
<1>4. /\ Device!Begun(c) \/ Device!Complete(c) => Device!Hear(b, s) = c
      /\ ~(Device!Begun(c) \/ Device!Complete(c)) =>
            Device!Hear(b, s) = IF s[1] = 21845 /\ s[2] # 48 THEN b ELSE << >>
  BY <1>1, <1>2, <1>3 DEF Device!Hear
<1> QED BY <1>4 DEF b, c

LEMMA HearFourth ==
    ASSUME NEW op \in {160, 176}, NEW s \in Pairs
    PROVE  Device!Hear(Device!Named(op), s) = <<First1, Second1, <<21845, op>>, s>>
<1> DEFINE t == <<21845, op>>
           b == Device!Named(op)
           c == <<First1, Second1, t, s>>
<1>1. t \in Pairs /\ b = <<First1, Second1, t>>
  BY Spelled
<1>2. Append(b, s) = c
  BY <1>1, LongerPairs
<1>3. Device!Begun(b)
  BY BegunIs
<1>4. Device!Complete(c)
  BY <1>1, Fourth DEF Device!Complete
<1> HIDE DEF b, c
<1>5. Device!Hear(b, s) = c
  BY <1>2, <1>3, <1>4 DEF Device!Hear
<1> QED BY <1>5 DEF b, c

\* A store that completes no command, or one with no effect on the memory.
Idle(f, g, d) == Quiet(d) /\ g.bank = f.bank /\ g.currentBank = f.currentBank

\* What a store does to the flash is what has been said with it.
Done(f, g, d, s) ==
    \/ Idle(f, g, d)
    \/ /\ Device!ErasesChip(d) /\ ~Device!Programs(d) /\ ~Device!Selects(d)
       /\ ~Device!ErasesSector(d) /\ ChipErased(f, g)
    \/ /\ Device!ErasesSector(d) /\ ~Device!Programs(d) /\ ~Device!Selects(d)
       /\ ~Device!ErasesChip(d) /\ d[3] = s /\ SectorErased(f, g, s[1])
    \/ /\ Device!Programs(d) /\ ~Device!ErasesSector(d) /\ ~Device!Selects(d)
       /\ ~Device!ErasesChip(d) /\ d[4] = s /\ Programmed(f, g, s[1], s[2])
    \/ /\ Device!Selects(d) /\ ~Device!ErasesSector(d) /\ ~Device!Programs(d)
       /\ ~Device!ErasesChip(d) /\ d[4] = s /\ g.bank = f.bank
       /\ g.currentBank = IF s[2] \in {0, 1} THEN s[2] ELSE f.currentBank

\* A store in the state f, of which c has been heard.
Obeys(f, c, s) ==
    LET g == WriteFlash(f, s[1], s[2])
        d == Device!Hear(c, s)
    IN  g \in Fields /\ Heard(g, d) /\ Done(f, g, d, s)

LEMMA StateKept ==
    ASSUME NEW f \in Fields, NEW t \in States, NEW c, NEW s, Quiet(Device!Hear(c, s)),
           \/ WriteFlash(f, s[1], s[2]) = WithState(f, t)
           \/ \E i \in BOOLEAN : WriteFlash(f, s[1], s[2]) = WithId(f, i, t)
           \/ WriteFlash(f, s[1], s[2]) = WithErase(f, t)
           \/ WriteFlash(f, s[1], s[2]) = f /\ f.state = t,
           \A g : g.state = t => Heard(g, Device!Hear(c, s))
    PROVE  Obeys(f, c, s)
<1> DEFINE g == WriteFlash(f, s[1], s[2])
<1>1. g \in Fields /\ Shown(g, t, f.currentBank, f.bank)
  <2>1. CASE g = WithState(f, t)
    <3> HIDE DEF g
    <3> QED BY <2>1, FieldsKept
  <2>2. CASE \E i \in BOOLEAN : g = WithId(f, i, t)
    <3> HIDE DEF g
    <3> QED BY <2>2, FieldsKept
  <2>3. CASE g = WithErase(f, t)
    <3> HIDE DEF g
    <3> QED BY <2>3, FieldsKept
  <2>4. CASE g = f /\ f.state = t
    <3> HIDE DEF g
    <3> QED BY <2>4 DEF Shown
  <2> QED BY <2>1, <2>2, <2>3, <2>4
<1>2. Heard(g, Device!Hear(c, s))
  BY <1>1 DEF Shown
<1>3. Idle(f, g, Device!Hear(c, s))
  BY <1>1 DEF Idle, Shown
<1> QED BY <1>1, <1>2, <1>3 DEF Obeys, Done

LEMMA ObeysFirst ==
    ASSUME NEW f \in Fields, f.state = "INIT0", NEW c, Heard(f, c),
           NEW s \in Pairs
    PROVE  Obeys(f, c, s)
<1>1. ~Device!Begun(c)
  BY DEF Heard
<1>2. CASE s = First1
  <2>1. WriteFlash(f, s[1], s[2]) = WithState(f, "INIT1")
    BY <1>2 DEF WriteFlash, WithState, First1
  <2>2. Device!Hear(c, s) = <<First1>>
    BY <1>1, <1>2, HearFirst
  <2>3. \A g : g.state = "INIT1" => Heard(g, <<First1>>)
    BY DEF Heard
  <2>4. "INIT1" \in States /\ Quiet(<<First1>>)
    BY Short DEF States
  <2> QED BY <2>1, <2>2, <2>3, <2>4, StateKept
<1>3. CASE s # First1
  <2>1. ~(s[2] = 170 /\ s[1] = 21845)
    BY <1>3 DEF First1, Pairs
  <2>2. WriteFlash(f, s[1], s[2]) = f
    BY <2>1 DEF WriteFlash
  <2>3. Device!Hear(c, s) = << >>
    BY <1>1, <1>3, HearFirst
  <2>4. \A g : g.state = "INIT0" => Heard(g, << >>)
    BY Nothing DEF Heard
  <2>5. "INIT0" \in States /\ Quiet(<< >>)
    BY Nothing DEF States
  <2> QED BY <2>2, <2>3, <2>4, <2>5, StateKept
<1> QED BY <1>2, <1>3

LEMMA ObeysSecond ==
    ASSUME NEW f \in Fields, f.state = "INIT1", NEW c, Heard(f, c),
           NEW s \in Pairs
    PROVE  Obeys(f, c, s)
<1>1. c = <<First1>>
  BY DEF Heard
<1>2. CASE s = Second1
  <2>1. WriteFlash(f, s[1], s[2]) = WithState(f, "OPERATION")
    BY <1>2 DEF WriteFlash, WithState, Second1
  <2>2. Device!Hear(c, s) = <<First1, Second1>>
    BY <1>1, <1>2, HearSecond
  <2>3. \A g : g.state = "OPERATION" => Heard(g, <<First1, Second1>>)
    BY DEF Heard
  <2>4. "OPERATION" \in States /\ Quiet(<<First1, Second1>>)
    BY Short DEF States
  <2> QED BY <2>1, <2>2, <2>3, <2>4, StateKept
<1>3. CASE s # Second1
  <2>1. ~(s[2] = 85 /\ s[1] = 10922)
    BY <1>3 DEF Second1, Pairs
  <2>2. WriteFlash(f, s[1], s[2]) = WithState(f, "INIT0")
    BY <2>1 DEF WriteFlash, WithState
  <2>3. Device!Hear(c, s) = << >>
    BY <1>1, <1>3, HearSecond
  <2>4. \A g : g.state = "INIT0" => Heard(g, << >>)
    BY Nothing DEF Heard
  <2>5. "INIT0" \in States /\ Quiet(<< >>)
    BY Nothing DEF States
  <2> QED BY <2>2, <2>3, <2>4, <2>5, StateKept
<1> QED BY <1>2, <1>3

LEMMA ObeysThird ==
    ASSUME NEW f \in Fields, f.state = "OPERATION", NEW c, Heard(f, c),
           NEW s \in Addresses \X Byte
    PROVE  Obeys(f, c, s)
<1> DEFINE a == s[1]
           v == s[2]
           d == <<First1, Second1, s>>
           h == Device!Hear(c, s)
<1>1. c = <<First1, Second1>>
  BY DEF Heard
<1>2. s \in Pairs /\ a \in Addresses /\ v \in Byte /\ s = <<a, v>>
  BY StoreIs
<1>3. /\ Device!Begun(d) \/ Device!Complete(d) => h = d
      /\ ~(Device!Begun(d) \/ Device!Complete(d)) =>
            h = IF a = 21845 /\ v # 48 THEN <<First1, Second1>> ELSE << >>
  BY <1>1, <1>2, HearThird
<1>4. /\ ~Device!Programs(d) /\ ~Device!Selects(d)
      /\ Device!ErasesSector(d) <=> Starts(s) /\ v = 48
      /\ Device!ErasesChip(d) <=> s = <<21845, 16>>
      /\ Device!Begun(d) <=> s = <<21845, 160>> \/ s = <<21845, 176>>
      /\ Device!Complete(d) <=>
            \/ Starts(s) /\ v = 48
            \/ \E op \in {16, 144, 240, 128} : s = <<21845, op>>
  BY <1>2, Third
<1>5. d[3] = s
  OBVIOUS
<1>6. {"INIT0", "OPERATION", "ACCEPT_WRITE", "ACCEPT_BANK_SWITCH"} \subseteq States
  BY DEF States
<1>7. WriteFlash(f, a, v) =
         IF a = 21845 /\ v # 48 THEN HandleOperation(f, v)
         ELSE IF v = 48 /\ a % SectorSize = 0 THEN EraseSector(f, Sector(a))
         ELSE WithState(f, "INIT0")
  BY Constant DEF WriteFlash, WithState
<1>8. /\ \A x \in Nat : s = <<21845, x>> <=> a = 21845 /\ v = x
      /\ Starts(s) <=> a % SectorSize = 0
  BY <1>2 DEF Starts
<1> HIDE DEF a, v, d, h
<1>9. CASE a = 21845 /\ v # 48
  <2>1. WriteFlash(f, a, v) = HandleOperation(f, v)
    BY <1>7, <1>9
  <2>2. CASE v \in {144, 240, 128}
    <3>1. h = d /\ ~Device!Begun(d) /\ Quiet(d)
      BY <1>3, <1>4, <1>8, <1>9, <2>2 DEF Quiet
    <3>2. \/ HandleOperation(f, v) = WithErase(f, "INIT0")
          \/ \E i \in BOOLEAN : HandleOperation(f, v) = WithId(f, i, "INIT0")
      <4>1. CASE v = 144
        <5>1. HandleOperation(f, v) = WithId(f, TRUE, "INIT0")
          BY <4>1, Constant DEF HandleOperation, WithId
        <5> QED BY <5>1
      <4>2. CASE v = 240
        <5>1. HandleOperation(f, v) = WithId(f, FALSE, "INIT0")
          BY <4>2, Constant DEF HandleOperation, WithId
        <5> QED BY <5>1
      <4>3. CASE v = 128
        BY <4>3, Constant DEF HandleOperation, WithErase
      <4> QED BY <2>2, <4>1, <4>2, <4>3
    <3>3. \A g : g.state = "INIT0" => Heard(g, d)
      BY <3>1 DEF Heard
    <3> QED BY <1>6, <2>1, <3>1, <3>2, <3>3, StateKept DEF a, v, h
  <2>3. CASE v = 16
    <3>1. h = d /\ ~Device!Begun(d) /\ Device!ErasesChip(d) /\ ~Device!ErasesSector(d)
      BY <1>3, <1>4, <1>8, <1>9, <2>3
    <3>2. WriteFlash(f, a, v) = EraseChip(f)
      BY <2>1, <2>3, Constant DEF HandleOperation
    <3>3. /\ EraseChip(f) \in Fields /\ Heard(EraseChip(f), d)
          /\ ChipErased(f, EraseChip(f))
      BY <3>1, ChipErasedIs DEF Heard
    <3> QED BY <1>4, <3>1, <3>2, <3>3 DEF Obeys, Done, a, v, h
  <2>4. CASE v \in {160, 176}
    <3> DEFINE t == IF v = 160 THEN "ACCEPT_WRITE" ELSE "ACCEPT_BANK_SWITCH"
    <3>1. h = d /\ Quiet(d)
      BY <1>3, <1>4, <1>8, <1>9, <2>4 DEF Quiet
    <3>2. HandleOperation(f, v) = WithState(f, t)
      BY <2>4, Constant DEF HandleOperation, WithState
    <3>3. \A g : g.state = t => Heard(g, d)
      BY <1>8, <1>9, <2>4, Spelled DEF Heard, d
    <3>4. t \in States
      BY <1>6
    <3> HIDE DEF t
    <3> QED BY <2>1, <3>1, <3>2, <3>3, <3>4, StateKept DEF a, v, h
  <2>5. CASE v \notin {144, 240, 128, 16, 160, 176}
    <3>1. HandleOperation(f, v) = f
      BY <2>5, Constant DEF HandleOperation
    <3>2. v \in Nat
      BY <1>2 DEF Byte
    <3>3. ~Device!Begun(d) /\ ~Device!Complete(d)
      BY <1>4, <1>8, <1>9, <2>5, <3>2
    <3>4. h = <<First1, Second1>>
      BY <1>3, <1>9, <3>3
    <3>5. Quiet(h)
      BY <3>4, Short
    <3>6. \A g : g.state = "OPERATION" => Heard(g, h)
      BY <3>4 DEF Heard
    <3> QED BY <1>6, <2>1, <3>1, <3>5, <3>6, StateKept DEF a, v, h
  <2> QED BY <2>2, <2>3, <2>4, <2>5
<1>10. CASE ~(a = 21845 /\ v # 48) /\ v = 48 /\ a % SectorSize = 0
  <2>1. h = d /\ Device!ErasesSector(d) /\ ~Device!ErasesChip(d) /\ ~Device!Begun(d)
    BY <1>3, <1>4, <1>8, <1>10
  <2>2. WriteFlash(f, a, v) = EraseSector(f, Sector(a))
    BY <1>7, <1>10
  <2> DEFINE g == EraseSector(f, Sector(a))
  <2>3. g \in Fields /\ g.state = "INIT0" /\ SectorErased(f, g, a)
    BY <1>2, SectorErasedIs
  <2> HIDE DEF g
  <2>4. Heard(g, d)
    BY <2>1, <2>3 DEF Heard
  <2>5. Done(f, g, d, s)
    BY <1>4, <1>5, <2>1, <2>3 DEF Done, a, d
  <2> QED BY <2>1, <2>2, <2>3, <2>4, <2>5 DEF Obeys, a, v, h, g
<1>11. CASE ~(a = 21845 /\ v # 48) /\ ~(v = 48 /\ a % SectorSize = 0)
  <2>1. ~Device!Begun(d) /\ ~Device!Complete(d)
    BY <1>4, <1>8, <1>11
  <2>2. h = << >>
    BY <1>3, <1>11, <2>1
  <2>3. WriteFlash(f, a, v) = WithState(f, "INIT0")
    BY <1>7, <1>11
  <2>4. Quiet(h) /\ \A g : g.state = "INIT0" => Heard(g, h)
    BY <2>2, Nothing DEF Heard
  <2> QED BY <1>6, <2>3, <2>4, StateKept DEF a, v, h
<1> QED BY <1>9, <1>10, <1>11

LEMMA ObeysFourth ==
    ASSUME NEW f \in Fields, f.state \in {"ACCEPT_WRITE", "ACCEPT_BANK_SWITCH"},
           NEW c, Heard(f, c), NEW s \in Addresses \X Byte
    PROVE  Obeys(f, c, s)
<1> DEFINE a == s[1]
           v == s[2]
           op == IF f.state = "ACCEPT_WRITE" THEN 160 ELSE 176
           t == <<21845, op>>
           d == <<First1, Second1, t, s>>
<1>1. s \in Pairs /\ a \in Addresses /\ v \in Byte /\ t \in Pairs
  BY StoreIs, Spelled
<1>2. op \in {160, 176} /\ c = Device!Named(op)
  BY DEF Heard
<1>3. Device!Hear(c, s) = d
  <2> HIDE DEF op
  <2> QED BY <1>1, <1>2, HearFourth
<1>4. /\ ~Device!Begun(d) /\ ~Device!ErasesSector(d) /\ ~Device!ErasesChip(d)
      /\ Device!Programs(d) <=> t = <<21845, 160>>
      /\ Device!Selects(d) <=> t = <<21845, 176>>
      /\ d[4] = s
  <2> HIDE DEF t
  <2> QED BY <1>1, Fourth
<1>5. (t = <<21845, 160>> <=> f.state = "ACCEPT_WRITE")
      /\ (t = <<21845, 176>> <=> f.state = "ACCEPT_BANK_SWITCH")
  BY <1>2
<1> HIDE DEF d, t, op
<1>6. CASE f.state = "ACCEPT_WRITE"
  <2> DEFINE g == WithByte(f, a, v)
  <2>1. WriteFlash(f, a, v) = g
    BY <1>6 DEF WriteFlash, WithByte
  <2>2. g \in Fields /\ g.state = "INIT0" /\ Programmed(f, g, a, v)
    BY <1>1, ProgrammedIs
  <2> HIDE DEF g
  <2>3. Heard(g, d)
    BY <1>4, <2>2 DEF Heard
  <2>4. Done(f, g, d, s)
    BY <1>4, <1>5, <1>6, <2>2 DEF Done
  <2> QED BY <1>3, <2>1, <2>2, <2>3, <2>4 DEF Obeys
<1>7. CASE f.state = "ACCEPT_BANK_SWITCH"
  <2> DEFINE e == IF v \in {0, 1} THEN v ELSE f.currentBank
             g == WithCurrent(f, e, "INIT0")
  <2>1. WriteFlash(f, a, v) = g
    <3>1. v < 2 <=> v \in {0, 1}
      BY <1>1 DEF Byte
    <3>2. WriteFlash(f, a, v) = AcceptBankSwitch(f, v)
      BY <1>7 DEF WriteFlash
    <3> QED BY <3>1, <3>2 DEF AcceptBankSwitch, WithCurrent
  <2>2. e \in 0 .. 1 /\ "INIT0" \in States
    BY ChipIs DEF States
  <2>3. g \in Fields /\ Shown(g, "INIT0", e, f.bank)
    <3> HIDE DEF e
    <3> QED BY <2>2, FieldsKept
  <2> HIDE DEF g
  <2>4. Heard(g, d)
    BY <1>4, <2>3 DEF Heard, Shown
  <2>5. Done(f, g, d, s)
    BY <1>4, <1>5, <1>7, <2>3 DEF Done, Shown
  <2> QED BY <1>3, <2>1, <2>3, <2>4, <2>5 DEF Obeys
<1> QED BY <1>6, <1>7

LEMMA WriteIs ==
    ASSUME NEW f \in Fields, NEW c, Heard(f, c), NEW s \in Addresses \X Byte
    PROVE  Obeys(f, c, s)
<1>1. f.state \in States /\ s \in Pairs
  BY ChipIs, StoreIs
<1> QED BY <1>1, ObeysFirst, ObeysSecond, ObeysThird, ObeysFourth DEF States
-----------------------------------------------------------------------------
\* While the file is written, what it has is what the banks hold.
SavedSoFar ==
    phase = "saving" =>
      \A b \in Banks, a \in Addresses :
         Position(b, a) <= Len(file) => file[Position(b, a)] = flash.bank[b][a]

FlashInv == /\ FlashTypeOK
            /\ SavedSoFar
            /\ Heard(flash, said)
            /\ phase = "off" => said = << >>

\* The state of the device.
Held     == [b \in Banks |-> flash.bank[b]]
Content  == IF phase = "off" THEN Saved ELSE Held
Selected == IF phase = "off" THEN 0 ELSE flash.currentBank

LEMMA SavedIs ==
    ASSUME file \in Seq(Byte)
    PROVE  /\ Saved \in [Banks -> Bank]
           /\ \A b \in Banks, a \in Addresses :
                 Saved[b][a] = IF Position(b, a) <= Len(file)
                               THEN file[Position(b, a)] ELSE Fresh[a]
<1>1. Load(file).bank \in TwoBanks
  BY LoadIs, ChipIs
<1>2. Banks \subseteq 0 .. 1
  BY DEF Banks
<1>3. \A b \in Banks : Saved[b] = Load(file).bank[b] /\ Saved[b] \in Bank
  BY <1>1, <1>2 DEF Saved, TwoBanks
<1>4. Saved \in [Banks -> Bank]
  BY <1>3 DEF Saved
<1> QED BY <1>3, <1>4, LoadIs

LEMMA HeldIs ==
    ASSUME NEW f \in Fields
    PROVE  /\ [b \in Banks |-> f.bank[b]] \in [Banks -> Bank]
           /\ \A b \in Banks : f.bank[b] \in Bank
           /\ f.currentBank \in {0, 1}
<1>1. f.bank \in TwoBanks /\ f.currentBank \in 0 .. 1
  BY ChipIs
<1>2. Banks \subseteq 0 .. 1
  BY DEF Banks
<1>3. \A b \in Banks : f.bank[b] \in Bank
  BY <1>1, <1>2 DEF TwoBanks
<1> QED BY <1>1, <1>3

LEMMA EmptyFile ==
    /\ << >> \in Seq(Byte) /\ Len(<< >>) = 0 /\ FileSize \in Nat
    /\ Load(<< >>) \in Fields
    /\ \A b \in Banks, a \in Addresses : ~(Position(b, a) <= 0)
<1>1. << >> \in Seq(Byte) /\ Len(<< >>) = 0
  OBVIOUS
<1>2. FileSize \in Nat /\ Load(<< >>) \in Fields
  BY <1>1, LoadIs, Positions
<1>3. ASSUME NEW b \in Banks, NEW a \in Addresses
      PROVE  ~(Position(b, a) <= 0)
  BY <1>2, Positions
<1> QED BY <1>1, <1>2, <1>3

LEMMA LoadHeard == \A data : Heard(Load(data), << >>)
BY Nothing DEF Heard, Load

LEMMA MappedInit == InitFlash => FlashInv /\ Device!Init
<1> SUFFICES ASSUME InitFlash PROVE FlashInv /\ Device!Init
  OBVIOUS
<1>1. FlashTypeOK /\ SavedSoFar /\ Heard(flash, said)
  BY EmptyFile, LoadHeard DEF InitFlash, FlashTypeOK, SavedSoFar
<1>2. Saved \in [Banks -> Bank]
  BY <1>1, SavedIs DEF FlashTypeOK
<1>3. Device!Init
  BY <1>2 DEF InitFlash, Device!Init, Device!Memory, Bank
<1> QED BY <1>1, <1>3 DEF FlashInv, InitFlash

LEMMA MappedStart == FlashInv /\ Start => FlashInv' /\ Device!PowerUp
<1> SUFFICES ASSUME FlashInv, Start PROVE FlashInv' /\ Device!PowerUp
  OBVIOUS
<1>1. FlashTypeOK /\ file \in Seq(Byte) /\ (phase = "off" => said = << >>)
  BY DEF FlashInv, FlashTypeOK
<1>2. Load(file) \in Fields /\ Load(file).currentBank = 0
  BY <1>1, LoadIs
<1>3. FlashInv'
  BY <1>1, <1>2, LoadHeard DEF Start, FlashInv, FlashTypeOK, SavedSoFar
<1>4. Held' = Saved /\ Saved' = Saved
  BY DEF Start, Held, Saved
<1>5. Content' = Content /\ Selected' = Selected
  BY <1>2, <1>4 DEF Content, Selected, Start
<1>6. Device!PowerUp
  BY <1>4, <1>5 DEF Start, Device!PowerUp, Content, Selected, Held
<1> QED BY <1>3, <1>6

LEMMA MappedWrite ==
    FlashInv /\ GuestWrite => FlashInv' /\ Device!Write
<1> SUFFICES ASSUME FlashInv, GuestWrite
             PROVE  FlashInv' /\ Device!Write
  OBVIOUS
<1>1. PICK store \in IF flash.state = "ACCEPT_WRITE" THEN GuestData ELSE GuestStores :
         flash' = WriteFlash(flash, store[1], store[2]) /\ said' = Device!Hear(said, store)
  BY DEF GuestWrite
<1> DEFINE a == store[1]
           v == store[2]
           here == flash.currentBank
<1>2. store \in Addresses \X Byte /\ store \in GuestStores \cup GuestData
  BY FlashAssumption
<1>3. phase = "running" /\ phase' = "running" /\ file' = file
  BY DEF GuestWrite
<1>4. flash \in Fields /\ FlashTypeOK /\ Heard(flash, said)
  BY DEF FlashInv, FlashTypeOK
<1>5. flash' \in Fields /\ Heard(flash', said') /\ Done(flash, flash', said', store)
  BY <1>1, <1>2, <1>4, WriteIs DEF Obeys
<1>6. FlashInv'
  BY <1>3, <1>4, <1>5 DEF FlashInv, FlashTypeOK, SavedSoFar
<1>7. /\ Held \in [Banks -> Bank] /\ Held' \in [Banks -> Bank]
      /\ \A b \in Banks : Held[b] = flash.bank[b]
      /\ \A b \in Banks : Held'[b] = flash'.bank[b]
  <2>1. Held = [b \in Banks |-> flash.bank[b]] /\ Held' = [b \in Banks |-> flash'.bank[b]]
    BY DEF Held
  <2> QED BY <1>4, <1>5, <2>1, HeldIs
<1>8. flash.bank \in TwoBanks /\ Banks \subseteq 0 .. 1 /\ here \in 0 .. 1
  BY <1>4, ChipIs DEF Banks
<1>9. Saved' = Saved
  BY <1>3 DEF Saved
<1> DEFINE cell(b, x) ==
              IF Device!Programs(said') /\ b = here /\ x = said'[4][1] THEN said'[4][2]
              ELSE IF Device!ErasesSector(said') /\ b = here
                      /\ Sector(x) = Sector(said'[3][1]) THEN Erased
              ELSE IF Device!ErasesChip(said') THEN Erased
              ELSE Held[b][x]
           next == IF Device!Selects(said') /\ said'[4][2] \in {0, 1} THEN said'[4][2]
                   ELSE here
<1>10. (\A b \in Banks, x \in Addresses : Held'[b][x] = cell(b, x))
       /\ flash'.currentBank = next
  <2>1. CASE Idle(flash, flash', said')
    BY <1>7, <2>1 DEF Idle, Quiet
  <2>2. CASE /\ Device!ErasesChip(said') /\ ~Device!Programs(said')
             /\ ~Device!Selects(said') /\ ~Device!ErasesSector(said')
             /\ ChipErased(flash, flash')
    <3>1. \A b \in Banks, x \in Addresses : Held'[b][x] = Erased
      BY <1>7, <1>8, <2>2 DEF ChipErased
    <3> QED BY <2>2, <3>1 DEF ChipErased
  <2>3. CASE /\ Device!ErasesSector(said') /\ ~Device!Programs(said')
             /\ ~Device!Selects(said') /\ ~Device!ErasesChip(said')
             /\ said'[3] = store /\ SectorErased(flash, flash', a)
    <3>1. \A b \in Banks, x \in Addresses :
             Held'[b][x] = IF b = here /\ Sector(x) = Sector(a) THEN Erased ELSE Held[b][x]
      BY <1>7, <1>8, <2>3 DEF SectorErased, TwoBanks, Bank
    <3> QED BY <2>3, <3>1 DEF SectorErased
  <2>4. CASE /\ Device!Programs(said') /\ ~Device!ErasesSector(said')
             /\ ~Device!Selects(said') /\ ~Device!ErasesChip(said')
             /\ said'[4] = store /\ Programmed(flash, flash', a, v)
    <3>1. \A b \in Banks, x \in Addresses :
             Held'[b][x] = IF b = here /\ x = a THEN v ELSE Held[b][x]
      BY <1>2, <1>7, <1>8, <2>4 DEF Programmed, TwoBanks, Bank
    <3> QED BY <2>4, <3>1 DEF Programmed
  <2>5. CASE /\ Device!Selects(said') /\ ~Device!ErasesSector(said')
             /\ ~Device!Programs(said') /\ ~Device!ErasesChip(said')
             /\ said'[4] = store /\ flash'.bank = flash.bank
             /\ flash'.currentBank = IF v \in {0, 1} THEN v ELSE here
    BY <1>7, <2>5
  <2> QED BY <1>5, <2>1, <2>2, <2>3, <2>4, <2>5 DEF Done
<1>11. Held' = [b \in Banks |-> [x \in Addresses |-> cell(b, x)]]
  <2> HIDE DEF cell
  <2>1. \A b \in Banks : Held'[b] = [x \in Addresses |-> cell(b, x)]
    BY <1>7, <1>10 DEF Bank
  <2> QED BY <1>7, <2>1
<1>12. Device!ContentAfter(said') = Held'
  BY <1>3, <1>11 DEF Device!ContentAfter, Held
<1>13. Device!SelectedAfter(said') = flash'.currentBank
  BY <1>3, <1>10 DEF Device!SelectedAfter
<1>14. Device!Write
  BY <1>1, <1>2, <1>3, <1>9, <1>12, <1>13 DEF Device!Write, Held
<1> QED BY <1>6, <1>14

LEMMA MappedSave == FlashInv /\ Save => FlashInv' /\ Device!PowerDown
<1> SUFFICES ASSUME FlashInv, Save PROVE FlashInv' /\ Device!PowerDown
  OBVIOUS
<1>1. FlashTypeOK
  BY DEF FlashInv
<1>2. FlashInv'
  BY <1>1, EmptyFile DEF Save, FlashInv, FlashTypeOK, SavedSoFar
<1>3. Saved' = [b \in Banks |-> Fresh]
  <2>1. Saved' = [b \in Banks |-> Load(<< >>).bank[b]]
    BY DEF Save, Saved
  <2>2. \A b \in Banks : Load(<< >>).bank[b] = Fresh
    <3> TAKE b \in Banks
    <3>1. Load(<< >>).bank[b] \in Bank
      BY EmptyFile, HeldIs
    <3>2. \A a \in Addresses : Load(<< >>).bank[b][a] = Fresh[a]
      BY EmptyFile, LoadIs
    <3> QED BY <3>1, <3>2, FreshIs DEF Bank
  <2> QED BY <2>1, <2>2
<1>4. Held' = Held
  BY DEF Save, Held
<1>5. Device!PowerDown
  BY <1>3, <1>4 DEF Save, Device!PowerDown, Held
<1> QED BY <1>2, <1>5

LEMMA MappedSaveByte == FlashInv /\ SaveByte => FlashInv' /\ Device!Store
<1> SUFFICES ASSUME FlashInv, SaveByte PROVE FlashInv' /\ Device!Store
  OBVIOUS
<1> DEFINE n == Len(file) + 1
           cell == CellAt(n)
           byte == flash.bank[cell[1]][cell[2]]
<1>1. FlashTypeOK /\ SavedSoFar /\ flash \in Fields /\ file \in Seq(Byte)
  BY DEF FlashInv, FlashTypeOK
<1>2. phase = "saving" /\ phase' = "saving" /\ flash' = flash /\ file' = Append(file, byte)
      /\ said' = said /\ n \in 1 .. FileSize
  BY <1>1, EmptyFile DEF SaveByte
<1>3. cell \in Banks \X Addresses /\ Position(cell[1], cell[2]) = n
  BY <1>2, CellIs
<1>4. byte \in Byte
  BY <1>1, <1>3, HeldIs DEF Bank
<1>5. /\ file' \in Seq(Byte) /\ Len(file') = n
      /\ \A k \in 1 .. Len(file) : file'[k] = file[k]
      /\ file'[n] = byte
  <2> HIDE DEF byte
  <2> QED BY <1>1, <1>2, <1>4
<1>6. \A b \in Banks, a \in Addresses :
         Position(b, a) <= n => \/ Position(b, a) \in 1 .. Len(file)
                                \/ b = cell[1] /\ a = cell[2]
  <2> SUFFICES ASSUME NEW b \in Banks, NEW a \in Addresses, Position(b, a) = n
               PROVE  b = cell[1] /\ a = cell[2]
    BY <1>1, Positions
  <2> QED BY <1>3, Positions
<1>7. FlashTypeOK'
  BY <1>1, <1>2, <1>5 DEF FlashTypeOK
<1>8. SavedSoFar'
  <2> SUFFICES ASSUME NEW b \in Banks, NEW a \in Addresses, Position(b, a) <= n
               PROVE  file'[Position(b, a)] = flash.bank[b][a]
    BY <1>2, <1>5 DEF SavedSoFar
  <2>1. CASE Position(b, a) \in 1 .. Len(file)
    BY <1>1, <1>2, <1>5, <2>1 DEF SavedSoFar
  <2>2. CASE b = cell[1] /\ a = cell[2]
    BY <1>3, <1>5, <2>2
  <2> QED BY <1>6, <2>1, <2>2
<1>9. /\ Saved \in [Banks -> Bank] /\ Saved' \in [Banks -> Bank]
      /\ \A b \in Banks, a \in Addresses :
            Saved[b][a] = IF Position(b, a) <= Len(file)
                          THEN file[Position(b, a)] ELSE Fresh[a]
      /\ \A b \in Banks, a \in Addresses :
            Saved'[b][a] = IF Position(b, a) <= n THEN file'[Position(b, a)] ELSE Fresh[a]
  <2>1. Saved = [b \in Banks |-> Load(file).bank[b]]
        /\ Saved' = [b \in Banks |-> Load(file').bank[b]]
    BY DEF Saved
  <2>2. \A b \in Banks : Saved[b] = Load(file).bank[b] /\ Saved'[b] = Load(file').bank[b]
    BY <2>1
  <2>3. Saved \in [Banks -> Bank] /\ Saved' \in [Banks -> Bank]
    BY <1>1, <1>5, <2>1, LoadIs, HeldIs
  <2>4. \A b \in Banks, a \in Addresses :
           Saved'[b][a] = IF Position(b, a) <= n THEN file'[Position(b, a)] ELSE Fresh[a]
    BY <1>5, <2>2, LoadIs
  <2> QED BY <1>1, <2>3, <2>4, SavedIs
<1>10. \A b \in Banks, a \in Addresses : Saved'[b][a] \in {Saved[b][a], Held[b][a]}
  <2> SUFFICES ASSUME NEW b \in Banks, NEW a \in Addresses
               PROVE  Saved'[b][a] \in {Saved[b][a], Held[b][a]}
    OBVIOUS
  <2>1. Position(b, a) \in Nat /\ n = Len(file) + 1 /\ Len(file) \in Nat
    BY <1>1, Positions
  <2>2. CASE Position(b, a) <= n
    <3>1. Saved'[b][a] = file'[Position(b, a)]
      BY <1>9, <2>2
    <3>2. file'[Position(b, a)] = flash.bank[b][a]
      BY <1>2, <1>5, <1>8, <2>2 DEF SavedSoFar
    <3> QED BY <3>1, <3>2 DEF Held
  <2>3. CASE ~(Position(b, a) <= n)
    <3>1. ~(Position(b, a) <= Len(file))
      BY <2>1, <2>3
    <3> QED BY <1>9, <2>3, <3>1
  <2> QED BY <2>2, <2>3
<1>11. Held' = Held
  BY <1>2 DEF Held
<1>12. Device!Store
  BY <1>2, <1>9, <1>10, <1>11 DEF Device!Store, Device!Memory, Bank, Held
<1> QED BY <1>2, <1>7, <1>8, <1>12 DEF FlashInv

LEMMA MappedStop ==
    ASSUME FlashInv, Stop
    PROVE  FlashInv' /\ Saved' = Saved /\ phase' = "off" /\ said' = << >>
BY EmptyFile, LoadHeard DEF Stop, FlashInv, FlashTypeOK, SavedSoFar, Saved

LEMMA MappedSaveDone == FlashInv /\ SaveDone => FlashInv' /\ Device!PoweredDown
<1> SUFFICES ASSUME FlashInv, SaveDone PROVE FlashInv' /\ Device!PoweredDown
  OBVIOUS
<1>1. FlashTypeOK /\ SavedSoFar /\ flash \in Fields /\ file \in Seq(Byte)
  BY DEF FlashInv, FlashTypeOK
<1>2. phase = "saving" /\ Len(file) = FileSize /\ Stop
  BY DEF SaveDone
<1>3. FlashInv' /\ Saved' = Saved /\ phase' = "off" /\ said' = << >>
  BY <1>2, MappedStop
<1>4. Saved = Held
  <2>1. Saved \in [Banks -> Bank] /\ Held \in [Banks -> Bank]
    BY <1>1, SavedIs, HeldIs DEF Held
  <2>2. ASSUME NEW b \in Banks, NEW a \in Addresses
        PROVE  Saved[b][a] = Held[b][a]
    <3>1. Position(b, a) <= Len(file)
      BY <1>2, Positions
    <3> QED BY <1>1, <1>2, <3>1, SavedIs DEF SavedSoFar, Held
  <2> QED BY <2>1, <2>2 DEF Bank
<1>5. Device!PoweredDown
  BY <1>2, <1>3, <1>4 DEF Device!PoweredDown, Device!Off, Held
<1> QED BY <1>3, <1>5

LEMMA MappedDie == FlashInv /\ Die => FlashInv' /\ Device!Die
BY MappedStop DEF Die, Device!Die, Device!Off

LEMMA MappedStep ==
    FlashInv /\ [NextFlash]_flashVars => FlashInv' /\ [Device!Next]_(Device!vars)
<1> SUFFICES ASSUME FlashInv, [NextFlash]_flashVars
             PROVE  FlashInv' /\ [Device!Next]_(Device!vars)
  OBVIOUS
<1>1. CASE Start
  BY <1>1, MappedStart DEF Device!Next
<1>2. CASE GuestWrite
  BY <1>2, MappedWrite DEF Device!Next
<1>3. CASE Save
  BY <1>3, MappedSave DEF Device!Next
<1>4. CASE SaveByte
  BY <1>4, MappedSaveByte DEF Device!Next
<1>5. CASE SaveDone
  BY <1>5, MappedSaveDone DEF Device!Next
<1>6. CASE Die
  BY <1>6, MappedDie DEF Device!Next
<1>7. CASE UNCHANGED flashVars
  <2>1. FlashInv'
    BY <1>7 DEF flashVars, FlashInv, FlashTypeOK, SavedSoFar
  <2>2. UNCHANGED Device!vars
    BY <1>7 DEF flashVars, Device!vars, Saved
  <2> QED BY <2>1, <2>2
<1> QED BY <1>1, <1>2, <1>3, <1>4, <1>5, <1>6, <1>7 DEF NextFlash

(* The flash is the backup that CartBackup.tla promises, of any size and   *)
(* with any stores of a program: Flash::Write changes what a command names *)
(* in the bank selected and nothing else, wherever in a sequence of        *)
(* commands it stands; Save and the constructor agree on the place of      *)
(* every byte in the file, so that a clean exit loses nothing; and a       *)
(* process that dies while it saves leaves of each byte either what the    *)
(* flash held or what a fresh one holds.                                   *)
THEOREM BackupKept == FlashSpec => ImplementsBackup
<1>1. InitFlash => FlashInv /\ Device!Init
  BY MappedInit
<1>2. FlashInv /\ [NextFlash]_flashVars => FlashInv' /\ [Device!Next]_(Device!vars)
  BY MappedStep
<1> QED BY <1>1, <1>2, PTL DEF FlashSpec, Device!Spec, ImplementsBackup
-----------------------------------------------------------------------------
(* Numbers, for the transfers.                                             *)
LEMMA Divided ==
    ASSUME NEW d \in Nat, d > 0, NEW q \in Int, NEW r \in 0 .. d - 1
    PROVE  (q * d + r) \div d = q /\ (q * d + r) % d = r
<1> DEFINE n == q * d + r
           p == n \div d
<1>1. n \in Int /\ p \in Int
  OBVIOUS
<1>2. n % d \in 0 .. d - 1 /\ n = d * p + (n % d)
  OBVIOUS
<1> DEFINE s == n % d
<1>3. (q - p) * d = s - r
  BY <1>1, <1>2
<1>4. s \in 0 .. d - 1
  BY <1>2
<1> HIDE DEF n, p, s
<1>5. q - p \in Int /\ q - p = 0
  <2>1. CASE q - p >= 1
    <3>1. ((q - p) - 1) * d >= 0
      BY <1>1, <2>1
    <3> QED BY <1>1, <1>3, <1>4, <3>1
  <2>2. CASE q - p <= -1
    <3>1. (-1 - (q - p)) * d >= 0
      BY <1>1, <2>2
    <3> QED BY <1>1, <1>3, <1>4, <3>1
  <2> QED BY <1>1, <2>1, <2>2
<1>6. q = p /\ s = r
  BY <1>1, <1>3, <1>4, <1>5
<1> QED BY <1>6 DEF n, p, s

LEMMA Division ==
    ASSUME NEW d \in Nat, d > 0, NEW n \in Nat
    PROVE  /\ n \div d \in Nat
           /\ n % d \in 0 .. d - 1
           /\ n = (n \div d) * d + (n % d)
OBVIOUS

(* Dividing twice, and dividing multiples.                                 *)
LEMMA DividedTwice ==
    ASSUME NEW d \in Nat, d > 0, NEW e \in Nat, e > 0, NEW n \in Nat
    PROVE  (n \div d) \div e = n \div (e * d)
<1> DEFINE q == n \div d
           r == n % d
           p == q \div e
           s == q % e
           f == e * d
           t == s * d + r
<1>1. q \in Nat /\ r \in 0 .. d - 1 /\ n = q * d + r
  BY Division
<1> HIDE DEF q, r
<1>2. p \in Nat /\ s \in 0 .. e - 1 /\ q = p * e + s
  BY <1>1, Division
<1> HIDE DEF p, s
<1>3. f \in Nat /\ f > 0
  OBVIOUS
<1>4. t \in 0 .. f - 1
  <2>1. s * d \in Nat
    BY <1>2
  <2>2. ((e - 1) - s) * d >= 0 /\ ((e - 1) - s) * d = (f - d) - s * d
    BY <1>2
  <2> QED BY <1>1, <1>3, <2>1, <2>2
<1>5. n = p * f + t
  <2>1. q * d = (p * e + s) * d
    BY <1>2
  <2>2. (p * e + s) * d = p * f + s * d
    BY <1>2
  <2>3. p * f \in Int /\ s * d \in Int
    BY <1>2, <1>3
  <2> QED BY <1>1, <2>1, <2>2, <2>3
<1> HIDE DEF f, t
<1>6. (p * f + t) \div f = p
  BY <1>2, <1>3, <1>4, Divided
<1> QED BY <1>5, <1>6 DEF p, q, f


-----------------------------------------------------------------------------
(* Numbers of four bytes.  The powers of the sizes the code can have are   *)
(* written out for the provers.                                            *)
LEMMA BytePowers ==
    /\ ByteValues \in Nat /\ ByteValues >= 2 /\ ByteValues > 0
    /\ Half = ByteValues * ByteValues
    /\ WordRange = (Half * ByteValues) * ByteValues
    /\ ByteValues ^ 0 = 1 /\ ByteValues ^ 1 = ByteValues /\ ByteValues ^ 2 = Half
    /\ ByteValues ^ 3 = Half * ByteValues /\ ByteValues ^ 4 = WordRange
    /\ ByteValues = 2 * (ByteValues \div 2)
<1>1. CASE ByteValues = 2
  BY <1>1, 2 ^ 0 = 1, 2 ^ 1 = 2, 2 ^ 2 = 4, 2 ^ 3 = 8, 2 ^ 4 = 16
     DEF Half, WordRange
<1>2. CASE ByteValues = 4
  BY <1>2, 4 ^ 0 = 1, 4 ^ 1 = 4, 4 ^ 2 = 16, 4 ^ 3 = 64, 4 ^ 4 = 256
     DEF Half, WordRange
<1>3. CASE ByteValues = 8
  BY <1>3, 8 ^ 0 = 1, 8 ^ 1 = 8, 8 ^ 2 = 64, 8 ^ 3 = 512, 8 ^ 4 = 4096
     DEF Half, WordRange
<1>4. CASE ByteValues = 16
  BY <1>4, 16 ^ 0 = 1, 16 ^ 1 = 16, 16 ^ 2 = 256, 16 ^ 3 = 4096, 16 ^ 4 = 65536
     DEF Half, WordRange
<1>5. CASE ByteValues = 32
  BY <1>5, 32 ^ 0 = 1, 32 ^ 1 = 32, 32 ^ 2 = 1024, 32 ^ 3 = 32768, 32 ^ 4 = 1048576
     DEF Half, WordRange
<1>6. CASE ByteValues = 64
  BY <1>6, 64 ^ 0 = 1, 64 ^ 1 = 64, 64 ^ 2 = 4096, 64 ^ 3 = 262144, 64 ^ 4 = 16777216
     DEF Half, WordRange
<1>7. CASE ByteValues = 128
  BY <1>7, 128 ^ 0 = 1, 128 ^ 1 = 128, 128 ^ 2 = 16384, 128 ^ 3 = 2097152, 128 ^ 4 = 268435456
     DEF Half, WordRange
<1>8. CASE ByteValues = 256
  BY <1>8, 256 ^ 0 = 1, 256 ^ 1 = 256, 256 ^ 2 = 65536, 256 ^ 3 = 16777216, 256 ^ 4 = 4294967296
     DEF Half, WordRange
<1> QED BY <1>1, <1>2, <1>3, <1>4, <1>5, <1>6, <1>7, <1>8, TransfersAssumption

\* The opaque sizes, for arithmetic.
LEMMA Sizes ==
    /\ Half \in Nat /\ Half > 0 /\ Half >= ByteValues
    /\ Half * ByteValues \in Nat /\ Half * ByteValues > 0
    /\ WordRange \in Nat /\ WordRange > 0 /\ WordRange >= Half * ByteValues
    /\ WordRange = Half * Half
<1> DEFINE b == ByteValues
<1>1. b \in Nat /\ b >= 2 /\ Half = b * b /\ WordRange = (Half * b) * b
  BY BytePowers
<1> HIDE DEF b
<1>2. /\ (b - 1) * b >= 0 /\ (b - 1) * b = b * b - b
      /\ (b * b) * b \in Nat /\ (b * b) * b > 0
      /\ ((b * b) * b) * b = (b * b) * b + (b - 1) * ((b * b) * b)
      /\ (b - 1) * ((b * b) * b) >= 0
      /\ ((b * b) * b) * b = (b * b) * (b * b)
  BY <1>1
<1>3. Half \in Nat /\ Half > 0 /\ Half >= b
  BY <1>1, <1>2
<1>4. Half * b \in Nat /\ Half * b > 0 /\ WordRange \in Nat /\ WordRange >= Half * b
      /\ WordRange = Half * Half
  BY <1>1, <1>2
<1>5. WordRange > 0
  BY <1>4
<1> QED BY <1>3, <1>4, <1>5 DEF b

Bytes == 0 .. ByteValues - 1

FromBytes(p, q, r, s) ==
    p + ByteValues * q + Half * r + Half * ByteValues * s

LEMMA FromBytesIs ==
    ASSUME NEW p \in Bytes, NEW q \in Bytes, NEW r \in Bytes, NEW s \in Bytes
    PROVE  /\ FromBytes(p, q, r, s) \in Words
           /\ ByteOf(FromBytes(p, q, r, s), 0) = p
           /\ ByteOf(FromBytes(p, q, r, s), 1) = q
           /\ ByteOf(FromBytes(p, q, r, s), 2) = r
           /\ ByteOf(FromBytes(p, q, r, s), 3) = s
<1> DEFINE b == ByteValues
           h == Half
           c == h * b
           x == FromBytes(p, q, r, s)
<1>1. /\ b \in Nat /\ b >= 2 /\ h = b * b /\ WordRange = c * b /\ WordRange \in Nat
      /\ b ^ 0 = 1 /\ b ^ 1 = b /\ b ^ 2 = h /\ b ^ 3 = c
      /\ h \in Nat /\ h > 0 /\ c \in Nat /\ c > 0
  BY BytePowers, Sizes
<1>2. p \in 0 .. b - 1 /\ q \in 0 .. b - 1 /\ r \in 0 .. b - 1 /\ s \in 0 .. b - 1
  BY DEF Bytes
<1>3. x = p + b * q + h * r + c * s
  BY DEF FromBytes
<1> HIDE DEF b, h, x
<1>4. b * q \in Nat /\ h * r \in Nat /\ c * s \in Nat /\ c = h * b
  BY <1>1, <1>2
<1> HIDE DEF c
<1>5. p + b * q \in 0 .. h - 1
  <2>1. ((b - 1) - q) * b >= 0 /\ ((b - 1) - q) * b = (h - b) - b * q
    BY <1>1, <1>2
  <2> QED BY <1>1, <1>2, <1>4, <2>1
<1>6. p + b * q + h * r \in 0 .. c - 1
  <2>1. ((b - 1) - r) * h >= 0 /\ ((b - 1) - r) * h = (c - h) - h * r
    BY <1>1, <1>2, <1>4
  <2> QED BY <1>1, <1>4, <1>5, <2>1
<1>7. x \in Words
  <2>1. ((b - 1) - s) * c >= 0 /\ ((b - 1) - s) * c = (c * b - c) - c * s
    BY <1>1, <1>2
  <2> DEFINE w == c * b
  <2>2. w \in Nat /\ w = WordRange /\ (w - c) - c * s >= 0
    BY <1>1, <2>1
  <2> HIDE DEF w
  <2>3. x \in 0 .. w - 1
    BY <1>1, <1>3, <1>4, <1>6, <2>2
  <2> QED BY <2>2, <2>3 DEF Words
<1>8. x \div 1 = x /\ x \in Nat
  BY <1>1, <1>7 DEF Words
<1>9. x % b = p /\ x \div b = q + b * r + h * s
  <2> DEFINE y == q + b * r + h * s
  <2>1. y \in Int
    BY <1>1, <1>2
  <2>2. x = y * b + p
    <3>1. (q + b * r + h * s) * b = b * q + (b * b) * r + (h * b) * s
      BY <1>1, <1>2
    <3> QED BY <1>1, <1>2, <1>3, <1>4, <3>1
  <2> HIDE DEF y
  <2>3. (y * b + p) % b = p /\ (y * b + p) \div b = y
    BY <1>1, <1>2, <2>1, Divided
  <2> QED BY <2>2, <2>3 DEF y
<1>10. (q + b * r + h * s) % b = q
  <2> DEFINE y == r + b * s
  <2>1. y \in Int
    BY <1>1, <1>2
  <2>2. q + b * r + h * s = y * b + q
    <3>1. (r + b * s) * b = b * r + (b * b) * s
      BY <1>1, <1>2
    <3> QED BY <1>1, <1>2, <3>1
  <2> HIDE DEF y
  <2>3. (y * b + q) % b = q
    BY <1>1, <1>2, <2>1, Divided
  <2> QED BY <2>2, <2>3
<1>11. (x \div h) % b = r
  <2> DEFINE y == r + b * s
             z == p + b * q
  <2>1. y \in Int
    BY <1>1, <1>2
  <2>2. x = y * h + z
    <3>1. (r + b * s) * h = h * r + (h * b) * s
      BY <1>1, <1>2
    <3> QED BY <1>1, <1>2, <1>3, <1>4, <3>1
  <2>3. z \in 0 .. h - 1
    BY <1>5
  <2>4. y = s * b + r
    BY <1>1, <1>2
  <2> HIDE DEF y, z
  <2>5. (y * h + z) \div h = y
    BY <1>1, <2>1, <2>3, Divided
  <2>6. (s * b + r) % b = r
    <3>1. s \in Int
      BY <1>2
    <3> QED BY <1>1, <1>2, <3>1, Divided
  <2> QED BY <2>2, <2>4, <2>5, <2>6
<1>12. (x \div c) % b = s
  <2> DEFINE z == p + b * q + h * r
  <2>1. x = s * c + z
    BY <1>1, <1>2, <1>3, <1>4
  <2>2. z \in 0 .. c - 1
    BY <1>6
  <2> HIDE DEF z
  <2>3. (s * c + z) \div c = s
    <3>1. s \in Int
      BY <1>2
    <3> QED BY <1>1, <2>2, <3>1, Divided
  <2>4. s % b = s
    BY <1>1, <1>2
  <2> QED BY <2>1, <2>3, <2>4
<1>13. /\ ByteOf(x, 0) = (x \div b ^ 0) % b /\ ByteOf(x, 1) = (x \div b ^ 1) % b
       /\ ByteOf(x, 2) = (x \div b ^ 2) % b /\ ByteOf(x, 3) = (x \div b ^ 3) % b
  BY DEF ByteOf, b
<1>14. ByteOf(x, 0) = p /\ ByteOf(x, 1) = q /\ ByteOf(x, 2) = r /\ ByteOf(x, 3) = s
  BY <1>1, <1>8, <1>9, <1>10, <1>11, <1>12, <1>13
<1> QED BY <1>7, <1>14 DEF x

(* Every word is that of its bytes.                                        *)
LEMMA ToBytes ==
    ASSUME NEW x \in Words
    PROVE  /\ \A k \in 0 .. 3 : ByteOf(x, k) \in Bytes
           /\ x = FromBytes(ByteOf(x, 0), ByteOf(x, 1), ByteOf(x, 2), ByteOf(x, 3))
<1> DEFINE b == ByteValues
           h == Half
           c == h * b
<1>1. /\ b \in Nat /\ b >= 2 /\ b > 0 /\ h = b * b /\ WordRange = c * b /\ WordRange \in Nat
      /\ b ^ 0 = 1 /\ b ^ 1 = b /\ b ^ 2 = h /\ b ^ 3 = c
      /\ h \in Nat /\ h > 0 /\ c \in Nat /\ c > 0
  BY BytePowers, Sizes
<1>2. /\ ByteOf(x, 0) = (x \div b ^ 0) % b /\ ByteOf(x, 1) = (x \div b ^ 1) % b
      /\ ByteOf(x, 2) = (x \div b ^ 2) % b /\ ByteOf(x, 3) = (x \div b ^ 3) % b
  BY DEF ByteOf
<1>3. x \in Nat /\ x < WordRange
  BY <1>1 DEF Words
<1> HIDE DEF b, h
<1>4. c = h * b
  OBVIOUS
<1> HIDE DEF c
<1> DEFINE y == x \div b
           z == x \div h
           w == x \div c
<1>5. y \in Nat /\ x % b \in 0 .. b - 1 /\ x = y * b + (x % b)
  BY <1>1, <1>3, Division
<1>6. y \div b = z /\ z \in Nat
  <2>1. (x \div b) \div b = x \div (b * b)
    BY <1>1, <1>3, DividedTwice
  <2> QED BY <1>1, <1>3, <2>1, Division
<1>7. z \div b = w /\ w \in Nat
  <2>1. (x \div h) \div b = x \div (b * h)
    BY <1>1, <1>3, DividedTwice
  <2>2. b * h = c
    BY <1>1, <1>4
  <2> QED BY <1>1, <1>3, <2>1, <2>2, Division
<1>8. x = w * c + (x % c) /\ x % c \in 0 .. c - 1
  BY <1>1, <1>3, Division
<1>9. y % b \in 0 .. b - 1 /\ y = z * b + (y % b)
  <2> HIDE DEF y, z
  <2> QED BY <1>1, <1>5, <1>6, Division
<1>10. z % b \in 0 .. b - 1 /\ z = w * b + (z % b)
  <2> HIDE DEF y, z, w
  <2> QED BY <1>1, <1>6, <1>7, Division
<1>11. x \div 1 = x
  BY <1>3
<1> DEFINE p == x % b
           q == y % b
           r == z % b
<1>12. ByteOf(x, 0) = p /\ ByteOf(x, 1) = q /\ ByteOf(x, 2) = r /\ ByteOf(x, 3) = w % b
  BY <1>1, <1>2, <1>11
<1> DEFINE t == x % c
<1>13. w * c <= x
  <2> HIDE DEF w, t
  <2>1. w * c \in Int
    BY <1>1, <1>7
  <2> QED BY <1>1, <1>8, <2>1 DEF t
<1> HIDE DEF y, z, w, p, q, r, t
<1>14. w \in 0 .. b - 1
  <2>1. CASE w >= b
    <3>1. (w - b) * c >= 0 /\ (w - b) * c = w * c - c * b
      BY <1>1, <1>7, <2>1
    <3>2. w * c \in Int /\ c * b \in Int
      BY <1>1, <1>7
    <3> QED BY <1>1, <1>3, <1>13, <3>1, <3>2
  <2> QED BY <1>1, <1>7, <2>1
<1>15. w % b = w
  BY <1>1, <1>14
<1>16. x = p + b * q + h * r + c * w
  <2>1. ((w * b + r) * b + q) * b + p = p + b * q + (b * b) * r + ((b * b) * b) * w
    BY <1>1, <1>5, <1>7, <1>9, <1>10 DEF p, q, r
  <2>2. x = ((w * b + r) * b + q) * b + p
    BY <1>5, <1>9, <1>10 DEF p, q, r
  <2> QED BY <1>1, <1>4, <2>1, <2>2
<1>17. p \in Bytes /\ q \in Bytes /\ r \in Bytes /\ w \in Bytes
  BY <1>5, <1>9, <1>10, <1>14 DEF p, q, r, Bytes, b
<1>18. \A k \in 0 .. 3 : k = 0 \/ k = 1 \/ k = 2 \/ k = 3
  OBVIOUS
<1>19. \A k \in 0 .. 3 : ByteOf(x, k) \in Bytes
  BY <1>12, <1>15, <1>17, <1>18
<1>20. x = FromBytes(p, q, r, w)
  BY <1>16 DEF FromBytes, b, h, c
<1> QED BY <1>12, <1>15, <1>19, <1>20

-----------------------------------------------------------------------------
(* Rotated by a number of bytes, the bytes take their turn.                *)
LEMMA Rotations ==
    ASSUME NEW p \in Bytes, NEW q \in Bytes, NEW r \in Bytes, NEW s \in Bytes
    PROVE  /\ Rotate(FromBytes(p, q, r, s), 0) = FromBytes(p, q, r, s)
           /\ Rotate(FromBytes(p, q, r, s), 1) = FromBytes(q, r, s, p)
           /\ Rotate(FromBytes(p, q, r, s), 2) = FromBytes(r, s, p, q)
           /\ Rotate(FromBytes(p, q, r, s), 3) = FromBytes(s, p, q, r)
<1> DEFINE b == ByteValues
           h == Half
           c == h * b
           x == FromBytes(p, q, r, s)
<1>1. /\ b \in Nat /\ b >= 2 /\ h = b * b /\ WordRange \in Nat
      /\ b ^ 0 = 1 /\ b ^ 1 = b /\ b ^ 2 = h /\ b ^ 3 = c
      /\ h \in Nat /\ h > 0 /\ c \in Nat /\ c > 0
  BY BytePowers, Sizes
<1>2. /\ p \in 0 .. b - 1 /\ q \in 0 .. b - 1 /\ r \in 0 .. b - 1 /\ s \in 0 .. b - 1
  BY DEF Bytes
<1>3. /\ x = p + b * q + h * r + c * s
      /\ FromBytes(q, r, s, p) = q + b * r + h * s + c * p
      /\ FromBytes(r, s, p, q) = r + b * s + h * p + c * q
      /\ FromBytes(s, p, q, r) = s + b * p + h * q + c * r
  BY DEF FromBytes
<1>4. /\ Rotate(x, 0) = x \div b ^ 0 + (x % b ^ 0) * b ^ (4 - 0)
      /\ Rotate(x, 1) = x \div b ^ 1 + (x % b ^ 1) * b ^ (4 - 1)
      /\ Rotate(x, 2) = x \div b ^ 2 + (x % b ^ 2) * b ^ (4 - 2)
      /\ Rotate(x, 3) = x \div b ^ 3 + (x % b ^ 3) * b ^ (4 - 3)
  BY DEF Rotate
<1>5. 4 - 0 = 4 /\ 4 - 1 = 3 /\ 4 - 2 = 2 /\ 4 - 3 = 1
  OBVIOUS
<1>6. b ^ 4 \in Nat
  BY BytePowers, Sizes
<1>7. x \in Nat
  BY <1>1, FromBytesIs DEF Words
<1> HIDE DEF b, h, x
<1>8. b * q \in Nat /\ h * r \in Nat /\ c * s \in Nat /\ c = h * b
  BY <1>1, <1>2
<1> HIDE DEF c
<1>9. p + b * q \in 0 .. h - 1
  <2>1. ((b - 1) - q) * b >= 0 /\ ((b - 1) - q) * b = (h - b) - b * q
    BY <1>1, <1>2
  <2> QED BY <1>1, <1>2, <1>8, <2>1
<1>10. p + b * q + h * r \in 0 .. c - 1
  <2>1. ((b - 1) - r) * h >= 0 /\ ((b - 1) - r) * h = (c - h) - h * r
    BY <1>1, <1>2, <1>8
  <2> QED BY <1>1, <1>8, <1>9, <2>1
<1>11. Rotate(x, 0) = x
  <2>1. x \div 1 = x /\ x % 1 = 0
    BY <1>7
  <2> DEFINE e == b ^ (4 - 0)
  <2>2. e \in Nat
    BY <1>5, <1>6
  <2>3. Rotate(x, 0) = x \div b ^ 0 + (x % b ^ 0) * e
    BY <1>4
  <2> HIDE DEF e
  <2>4. 0 * e = 0
    BY <2>2
  <2> QED BY <1>1, <1>7, <2>1, <2>3, <2>4
<1>12. Rotate(x, 1) = FromBytes(q, r, s, p)
  <2> DEFINE y == q + b * r + h * s
  <2>1. y \in Int
    BY <1>1, <1>2
  <2>2. x = y * b + p
    <3>1. (q + b * r + h * s) * b = b * q + (b * b) * r + (h * b) * s
      BY <1>1, <1>2
    <3> QED BY <1>1, <1>2, <1>3, <1>8, <3>1
  <2> HIDE DEF y
  <2>3. (y * b + p) % b = p /\ (y * b + p) \div b = y
    BY <1>1, <1>2, <2>1, Divided
  <2>4. Rotate(x, 1) = y + p * c
    BY <1>1, <1>4, <1>5, <2>2, <2>3
  <2>5. p * c = c * p /\ c * p \in Int
    BY <1>1, <1>2
  <2> QED BY <1>3, <2>1, <2>4, <2>5 DEF y
<1>13. Rotate(x, 2) = FromBytes(r, s, p, q)
  <2> DEFINE y == r + b * s
             z == p + b * q
  <2>1. y \in Int /\ z \in Int
    BY <1>1, <1>2
  <2>2. x = y * h + z
    <3>1. (r + b * s) * h = h * r + (h * b) * s
      BY <1>1, <1>2
    <3> QED BY <1>1, <1>2, <1>3, <1>8, <3>1
  <2>3. z \in 0 .. h - 1
    BY <1>9
  <2>4. z * h = h * p + (h * b) * q
    BY <1>1, <1>2
  <2> HIDE DEF y, z
  <2>5. (y * h + z) \div h = y /\ (y * h + z) % h = z
    BY <1>1, <2>1, <2>3, Divided
  <2>6. Rotate(x, 2) = y + z * h
    BY <1>1, <1>4, <1>5, <2>2, <2>5
  <2>7. Rotate(x, 2) = y + (h * p + c * q) /\ h * p \in Int /\ c * q \in Int
    BY <1>1, <1>2, <1>8, <2>4, <2>6
  <2>8. y + (h * p + c * q) = r + b * s + h * p + c * q
    BY <1>1, <1>2, <2>7 DEF y
  <2> QED BY <1>3, <2>7, <2>8
<1>14. Rotate(x, 3) = FromBytes(s, p, q, r)
  <2> DEFINE z == p + b * q + h * r
  <2>1. x = s * c + z
    BY <1>1, <1>2, <1>3, <1>8
  <2>2. z \in 0 .. c - 1
    BY <1>10
  <2>3. z * b = b * p + (b * b) * q + (h * b) * r
    BY <1>1, <1>2
  <2> HIDE DEF z
  <2>4. (s * c + z) \div c = s /\ (s * c + z) % c = z
    <3>1. s \in Int
      BY <1>2
    <3> QED BY <1>1, <2>2, <3>1, Divided
  <2>5. Rotate(x, 3) = s + z * b
    BY <1>1, <1>4, <1>5, <2>1, <2>4
  <2>6. Rotate(x, 3) = s + (b * p + h * q + c * r)
    BY <1>1, <1>8, <2>3, <2>5
  <2>7. b * p \in Int /\ h * q \in Int /\ c * r \in Int
    BY <1>1, <1>2
  <2> QED BY <1>2, <1>3, <2>6, <2>7
<1> QED BY <1>11, <1>12, <1>13, <1>14 DEF x

(* The sign copied above a halfword or a byte.                             *)
Top1 == ByteValues - 1

LEMMA Extensions ==
    ASSUME NEW p \in Bytes, NEW q \in Bytes, NEW r \in Bytes, NEW s \in Bytes
    PROVE  /\ Extend(FromBytes(p, q, r, s), Half) = FromBytes(p, q, Top1, Top1)
           /\ Extend(FromBytes(p, q, r, s), ByteValues) = FromBytes(p, Top1, Top1, Top1)
<1> DEFINE b == ByteValues
           h == Half
           c == h * b
           x == FromBytes(p, q, r, s)
           t == Top1
<1>1. /\ b \in Nat /\ b >= 2 /\ h = b * b /\ WordRange \in Nat /\ WordRange = c * b
      /\ h \in Nat /\ h > 0 /\ c \in Nat /\ c > 0 /\ t = b - 1
  BY BytePowers, Sizes DEF Top1
<1>2. /\ p \in 0 .. b - 1 /\ q \in 0 .. b - 1 /\ r \in 0 .. b - 1 /\ s \in 0 .. b - 1
  BY DEF Bytes
<1>3. /\ x = p + b * q + h * r + c * s
      /\ FromBytes(p, q, t, t) = p + b * q + h * t + c * t
      /\ FromBytes(p, t, t, t) = p + b * t + h * t + c * t
      /\ Extend(x, h) = (x % h) + (WordRange - h)
      /\ Extend(x, b) = (x % b) + (WordRange - b)
  BY DEF FromBytes, Extend
<1> HIDE DEF b, h, x, t
<1>4. b * q \in Nat /\ h * r \in Nat /\ c * s \in Nat /\ c = h * b
  BY <1>1, <1>2
<1>5. h * t = c - h /\ c * t = WordRange - c /\ b * t = h - b
  <2>1. h * (b - 1) = h * b - h /\ c * (b - 1) = c * b - c /\ b * (b - 1) = b * b - b
    BY <1>1
  <2> QED BY <1>1, <2>1
<1> HIDE DEF c
<1>6. p + b * q \in 0 .. h - 1
  <2>1. ((b - 1) - q) * b >= 0 /\ ((b - 1) - q) * b = (h - b) - b * q
    BY <1>1, <1>2
  <2> QED BY <1>1, <1>2, <1>4, <2>1
<1>7. x % h = p + b * q
  <2> DEFINE y == r + b * s
             z == p + b * q
  <2>1. y \in Int
    BY <1>1, <1>2
  <2>2. x = y * h + z
    <3>1. (r + b * s) * h = h * r + (h * b) * s
      BY <1>1, <1>2
    <3> QED BY <1>1, <1>2, <1>3, <1>4, <3>1
  <2>3. z \in 0 .. h - 1
    BY <1>6
  <2> HIDE DEF y, z
  <2>4. (y * h + z) % h = z
    BY <1>1, <2>1, <2>3, Divided
  <2> QED BY <2>2, <2>4 DEF z
<1>8. x % b = p
  <2> DEFINE y == q + b * r + h * s
  <2>1. y \in Int
    BY <1>1, <1>2
  <2>2. x = y * b + p
    <3>1. (q + b * r + h * s) * b = b * q + (b * b) * r + (h * b) * s
      BY <1>1, <1>2
    <3> QED BY <1>1, <1>2, <1>3, <1>4, <3>1
  <2> HIDE DEF y
  <2>3. (y * b + p) % b = p
    BY <1>1, <1>2, <2>1, Divided
  <2> QED BY <2>2, <2>3
<1>9. Extend(x, h) = FromBytes(p, q, t, t)
  BY <1>1, <1>2, <1>3, <1>4, <1>5, <1>7
<1>10. Extend(x, b) = FromBytes(p, t, t, t)
  BY <1>1, <1>2, <1>3, <1>5, <1>8
<1> QED BY <1>9, <1>10 DEF x, t, h, b

(* A byte, and a halfword without what a rotation puts above it; their     *)
(* signs.                                                                  *)
LEMMA HalfBytes ==
    ASSUME NEW p \in Bytes, NEW q \in Bytes
    PROVE  /\ 0 \in Bytes /\ Top1 \in Bytes
           /\ FromBytes(p, 0, 0, 0) = p
           /\ FromBytes(p, q, 0, 0) = p + ByteValues * q
           /\ p >= ByteValues \div 2 <=> 2 * p >= ByteValues
           /\ p + ByteValues * q >= Half \div 2 <=> 2 * q >= ByteValues
<1> DEFINE b == ByteValues
           h == Half
           d == b \div 2
<1>1. /\ b \in Nat /\ b >= 2 /\ h = b * b /\ b = 2 * d /\ h \in Nat
      /\ h * b \in Nat
  BY BytePowers, Sizes
<1>2. p \in 0 .. b - 1 /\ q \in 0 .. b - 1
  BY DEF Bytes
<1>3. d \in Nat
  BY <1>1
<1>4. 0 \in Bytes /\ Top1 \in Bytes
  BY <1>1 DEF Bytes, Top1
<1>5. /\ FromBytes(p, 0, 0, 0) = p + b * 0 + h * 0 + (h * b) * 0
      /\ FromBytes(p, q, 0, 0) = p + b * q + h * 0 + (h * b) * 0
  BY DEF FromBytes
<1> HIDE DEF b, h, d
<1>6. b * q \in Int
  BY <1>1, <1>2
<1>7. /\ p + b * 0 + h * 0 + (h * b) * 0 = p
      /\ p + b * q + h * 0 + (h * b) * 0 = p + b * q
  BY <1>1, <1>2, <1>6
<1>8. p >= d <=> 2 * p >= b
  BY <1>1, <1>2, <1>3
<1>9. h \div 2 = d * b
  <2>1. h = 2 * (d * b) /\ d * b \in Int
    BY <1>1, <1>3
  <2> HIDE DEF h
  <2> DEFINE m == d * b
  <2>2. h = 2 * m /\ m \in Int
    BY <2>1
  <2> HIDE DEF m
  <2>3. h \div 2 = m
    BY <2>2
  <2> QED BY <2>3 DEF m
<1>10. p + b * q >= d * b <=> 2 * q >= b
  <2>1. CASE q >= d
    <3>1. (q - d) * b >= 0 /\ (q - d) * b = b * q - d * b /\ d * b \in Int
      BY <1>1, <1>2, <1>3, <2>1
    <3> QED BY <1>1, <1>2, <1>3, <1>6, <2>1, <3>1
  <2>2. CASE q < d
    <3>1. ((d - 1) - q) * b >= 0 /\ ((d - 1) - q) * b = (d * b - b) - b * q /\ d * b \in Int
      BY <1>1, <1>2, <1>3, <2>2
    <3> QED BY <1>1, <1>2, <1>3, <1>6, <2>2, <3>1
  <2> QED BY <1>2, <1>3, <2>1, <2>2
<1> QED BY <1>4, <1>5, <1>7, <1>8, <1>9, <1>10 DEF b, h, d

LEMMA LowByte ==
    ASSUME NEW p \in Bytes, NEW q \in Bytes, NEW r \in Bytes, NEW s \in Bytes
    PROVE  FromBytes(p, q, r, s) % ByteValues = p
<1> DEFINE b == ByteValues
           h == Half
           y == q + b * r + h * s
<1>1. b \in Nat /\ b >= 2 /\ h = b * b /\ h \in Nat
  BY BytePowers, Sizes
<1>2. p \in 0 .. b - 1 /\ q \in Int /\ r \in Int /\ s \in Int
  BY DEF Bytes
<1>3. FromBytes(p, q, r, s) = p + b * q + h * r + (h * b) * s
  BY DEF FromBytes
<1> HIDE DEF b, h
<1>4. y * b + p = p + b * q + h * r + (h * b) * s /\ y \in Int
  <2>1. (q + b * r + h * s) * b = b * q + (b * b) * r + (h * b) * s
    BY <1>1, <1>2
  <2> QED BY <1>1, <1>2, <2>1
<1> HIDE DEF y
<1>5. (y * b + p) % b = p
  BY <1>1, <1>2, <1>4, Divided
<1> QED BY <1>3, <1>4, <1>5 DEF b

(* A word is as large as a negative halfword when the halfword in it is    *)
(* one or when there is anything above.                                    *)
LEMMA HalfSign ==
    ASSUME NEW p \in Bytes, NEW q \in Bytes, NEW r \in Bytes, NEW s \in Bytes
    PROVE  FromBytes(p, q, r, s) >= Half \div 2 <=> 2 * q >= ByteValues \/ r # 0 \/ s # 0
<1> DEFINE b == ByteValues
           h == Half
           c == h * b
           d == h \div 2
           low == p + b * q
           x == FromBytes(p, q, r, s)
<1>1. b \in Nat /\ b >= 2 /\ h = b * b /\ h \in Nat /\ h >= 1 /\ c \in Nat /\ c >= 1
  BY BytePowers, Sizes
<1>2. p \in 0 .. b - 1 /\ q \in 0 .. b - 1 /\ r \in 0 .. b - 1 /\ s \in 0 .. b - 1
  BY DEF Bytes
<1>3. x = p + b * q + h * r + c * s
  BY DEF FromBytes
<1>4. low >= d <=> 2 * q >= b
  BY HalfBytes
<1>5. d \in Nat /\ d <= h
  BY <1>1
<1> HIDE DEF b, h, d, x
<1>6. b * q \in Nat /\ h * r \in Nat /\ c * s \in Nat /\ c >= h
  <2>1. c - h = h * (b - 1) /\ h * (b - 1) \in Nat
    BY <1>1
  <2> QED BY <1>1, <1>2, <2>1
<1>7. r # 0 => h * r >= h
  <2>1. r # 0 => h * (r - 1) \in Nat /\ h * r = h * (r - 1) + h
    BY <1>1, <1>2
  <2> QED BY <1>1, <2>1
<1>8. s # 0 => c * s >= c
  <2>1. s # 0 => c * (s - 1) \in Nat /\ c * s = c * (s - 1) + c
    BY <1>1, <1>2
  <2> QED BY <1>1, <2>1
<1>9. r = 0 /\ s = 0 => x = low
  BY <1>1, <1>2, <1>3, <1>6
<1>10. low \in Nat /\ (r # 0 \/ s # 0 => x >= d) /\ (low >= d => x >= d)
  <2> DEFINE u == b * q
             v == h * r
             w == c * s
  <2>1. /\ u \in Nat /\ v \in Nat /\ w \in Nat /\ x = p + u + v + w /\ low = p + u
        /\ r # 0 => v >= h
        /\ s # 0 => w >= c
    BY <1>3, <1>6, <1>7, <1>8
  <2> HIDE DEF u, v, w, c, low
  <2> QED BY <1>1, <1>2, <1>5, <1>6, <2>1
<1> HIDE DEF low
<1> QED BY <1>4, <1>9, <1>10 DEF x, d, h, b

-----------------------------------------------------------------------------
(* What is read.                                                           *)
Mem == [0 .. Top - 1 -> Bytes]

LEMMA ReadsAre ==
    ASSUME NEW m, NEW a \in Int
    PROVE  /\ ReadToSize(m, a, 1) = m[a]
           /\ ReadToSize(m, a, 2) = m[a] + ByteValues * m[a + 1]
           /\ ReadToSize(m, a, 4) = FromBytes(m[a], m[a + 1], m[a + 2], m[a + 3])
BY DEF ReadToSize, FromBytes

LEMMA WordRead ==
    ASSUME NEW m \in Mem, NEW a \in Nat, a - (a % 4) + 4 <= Top
    PROVE  /\ ReadWord(m, a) \in Words
           /\ \A k \in 0 .. 3 : ByteOf(ReadWord(m, a), k) = m[a - (a % 4) + ((a + k) % 4)]
<1> DEFINE al == a - (a % 4)
           p == m[al]
           q == m[al + 1]
           r == m[al + 2]
           s == m[al + 3]
           x == FromBytes(p, q, r, s)
<1>1. a % 4 \in 0 .. 3 /\ al \in Nat /\ Top \in Nat /\ al + 4 <= Top
  <2>1. a \div 4 \in Nat /\ a % 4 \in 0 .. 4 - 1 /\ a = (a \div 4) * 4 + (a % 4)
    BY Division
  <2>2. al \in Nat
    BY <2>1
  <2> QED BY <2>1, <2>2, TransfersAssumption
<1>2. p \in Bytes /\ q \in Bytes /\ r \in Bytes /\ s \in Bytes
  <2> HIDE DEF al
  <2>1. /\ al \in 0 .. Top - 1 /\ al + 1 \in 0 .. Top - 1
        /\ al + 2 \in 0 .. Top - 1 /\ al + 3 \in 0 .. Top - 1
    BY <1>1
  <2> QED BY <2>1 DEF Mem
<1>3. ReadWord(m, a) = Rotate(x, a % 4)
  <2>1. ReadToSize(m, al, 4) = x
    BY <1>1, ReadsAre
  <2> QED BY <2>1, Zenon DEF ReadWord
<1>4. /\ (a + 0) % 4 = a % 4
      /\ (a + 1) % 4 = IF a % 4 = 3 THEN 0 ELSE (a % 4) + 1
      /\ (a + 2) % 4 = IF a % 4 >= 2 THEN (a % 4) - 2 ELSE (a % 4) + 2
      /\ (a + 3) % 4 = IF a % 4 >= 1 THEN (a % 4) - 1 ELSE 3
  OBVIOUS
<1> DEFINE e == a % 4
           w == ReadWord(m, a)
<1>5. /\ e \in 0 .. 3 /\ w = Rotate(x, e) /\ al + 0 = al
      /\ (a + 0) % 4 = e
      /\ (a + 1) % 4 = IF e = 3 THEN 0 ELSE e + 1
      /\ (a + 2) % 4 = IF e >= 2 THEN e - 2 ELSE e + 2
      /\ (a + 3) % 4 = IF e >= 1 THEN e - 1 ELSE 3
  BY <1>1, <1>3, <1>4
<1> HIDE DEF e, w, al
<1>6. /\ Rotate(x, 0) = x
      /\ Rotate(x, 1) = FromBytes(q, r, s, p)
      /\ Rotate(x, 2) = FromBytes(r, s, p, q)
      /\ Rotate(x, 3) = FromBytes(s, p, q, r)
  BY <1>2, Rotations
<1> DEFINE Good(k) == ByteOf(w, k) = m[al + ((a + k) % 4)]
<1>7. w \in Words /\ Good(0) /\ Good(1) /\ Good(2) /\ Good(3)
  <2>1. CASE e = 0
    <3>1. /\ w = FromBytes(p, q, r, s) /\ (a + 0) % 4 = 0 /\ (a + 1) % 4 = 1
          /\ (a + 2) % 4 = 2 /\ (a + 3) % 4 = 3
      BY <1>5, <1>6, <2>1
    <3>2. /\ w \in Words /\ ByteOf(w, 0) = p /\ ByteOf(w, 1) = q
          /\ ByteOf(w, 2) = r /\ ByteOf(w, 3) = s
      BY <1>2, <3>1, FromBytesIs
    <3> QED BY <1>5, <3>1, <3>2
  <2>2. CASE e = 1
    <3>1. /\ w = FromBytes(q, r, s, p) /\ (a + 0) % 4 = 1 /\ (a + 1) % 4 = 2
          /\ (a + 2) % 4 = 3 /\ (a + 3) % 4 = 0
      BY <1>5, <1>6, <2>2
    <3>2. /\ w \in Words /\ ByteOf(w, 0) = q /\ ByteOf(w, 1) = r
          /\ ByteOf(w, 2) = s /\ ByteOf(w, 3) = p
      BY <1>2, <3>1, FromBytesIs
    <3> QED BY <1>5, <3>1, <3>2
  <2>3. CASE e = 2
    <3>1. /\ w = FromBytes(r, s, p, q) /\ (a + 0) % 4 = 2 /\ (a + 1) % 4 = 3
          /\ (a + 2) % 4 = 0 /\ (a + 3) % 4 = 1
      BY <1>5, <1>6, <2>3
    <3>2. /\ w \in Words /\ ByteOf(w, 0) = r /\ ByteOf(w, 1) = s
          /\ ByteOf(w, 2) = p /\ ByteOf(w, 3) = q
      BY <1>2, <3>1, FromBytesIs
    <3> QED BY <1>5, <3>1, <3>2
  <2>4. CASE e = 3
    <3>1. /\ w = FromBytes(s, p, q, r) /\ (a + 0) % 4 = 3 /\ (a + 1) % 4 = 0
          /\ (a + 2) % 4 = 1 /\ (a + 3) % 4 = 2
      BY <1>5, <1>6, <2>4
    <3>2. /\ w \in Words /\ ByteOf(w, 0) = s /\ ByteOf(w, 1) = p
          /\ ByteOf(w, 2) = q /\ ByteOf(w, 3) = r
      BY <1>2, <3>1, FromBytesIs
    <3> QED BY <1>5, <3>1, <3>2
  <2> QED BY <1>5, <2>1, <2>2, <2>3, <2>4
<1>8. \A k \in 0 .. 3 : k = 0 \/ k = 1 \/ k = 2 \/ k = 3
  OBVIOUS
<1>9. \A k \in 0 .. 3 : Good(k)
  <2> HIDE DEF Good
  <2> QED BY <1>7, <1>8
<1> QED BY <1>7, <1>9 DEF w, al

(* LoadsExact, of one load.                                                *)
SignOf(byte) == IF 2 * byte >= ByteValues THEN Top1 ELSE 0

\* The rotation of a signed halfword left ones where its sign is taken.
Spoiled(m, a) == 2 * m[a + 1] >= ByteValues \/ m[a + 2] # 0 \/ m[a - 1] # 0

ExactLoad(kind, a, v, m) ==
    /\ v \in Words /\ ByteOf(v, 0) = m[a]
    /\ kind = "byte" => ByteOf(v, 1) = 0 /\ ByteOf(v, 2) = 0 /\ ByteOf(v, 3) = 0
    /\ kind = "signed byte" =>
         /\ ByteOf(v, 1) = SignOf(m[a]) /\ ByteOf(v, 2) = SignOf(m[a])
         /\ ByteOf(v, 3) = SignOf(m[a])
    /\ kind = "half" /\ a % 2 = 0 =>
         ByteOf(v, 1) = m[a + 1] /\ ByteOf(v, 2) = 0 /\ ByteOf(v, 3) = 0
    /\ kind = "signed half" /\ a % 2 = 0 =>
         /\ ByteOf(v, 1) = m[a + 1] /\ ByteOf(v, 2) = SignOf(m[a + 1])
         /\ ByteOf(v, 3) = SignOf(m[a + 1])
    /\ kind = "half" /\ a % 2 = 1 =>
         ByteOf(v, 1) = m[a + 1] /\ ByteOf(v, 2) = m[a + 2] /\ ByteOf(v, 3) = m[a - 1]
    /\ kind = "signed half" /\ a % 2 = 1 =>
         /\ Spoiled(m, a) =>
              ByteOf(v, 1) = m[a + 1] /\ ByteOf(v, 2) = Top1 /\ ByteOf(v, 3) = Top1
         /\ ~Spoiled(m, a) /\ SignOf(m[a]) # 0 =>
              ByteOf(v, 1) = Top1 /\ ByteOf(v, 2) = Top1 /\ ByteOf(v, 3) = Top1
         /\ ~Spoiled(m, a) /\ SignOf(m[a]) = 0 =>
              ByteOf(v, 1) = m[a + 1] /\ ByteOf(v, 2) = 0 /\ ByteOf(v, 3) = 0
    /\ kind = "word" =>
         \A k \in 0 .. 3 : ByteOf(v, k) = m[a - (a % 4) + ((a + k) % 4)]

LEMMA ByteLoads ==
    ASSUME NEW m \in Mem, NEW a \in 0 .. Top - 1
    PROVE  /\ ExactLoad("byte", a, ReadToSize(m, a, 1), m)
           /\ ExactLoad("signed byte", a, SignedByte(ReadToSize(m, a, 1)), m)
<1> DEFINE p == m[a]
           t == SignOf(p)
<1>1. p \in Bytes /\ a \in Int
  BY TransfersAssumption DEF Mem
<1>2. ReadToSize(m, a, 1) = p
  BY <1>1, ReadsAre
<1>3. /\ 0 \in Bytes /\ Top1 \in Bytes /\ FromBytes(p, 0, 0, 0) = p
      /\ p >= ByteValues \div 2 <=> 2 * p >= ByteValues
  BY <1>1, HalfBytes
<1>4. SignedByte(p) = FromBytes(p, t, t, t) /\ t \in Bytes
  <2>1. Extend(p, ByteValues) = FromBytes(p, Top1, Top1, Top1)
    BY <1>1, <1>3, Extensions
  <2> QED BY <1>3, <2>1 DEF SignedByte, SignOf
<1>5. /\ FromBytes(p, 0, 0, 0) \in Words
      /\ ByteOf(FromBytes(p, 0, 0, 0), 0) = p /\ ByteOf(FromBytes(p, 0, 0, 0), 1) = 0
      /\ ByteOf(FromBytes(p, 0, 0, 0), 2) = 0 /\ ByteOf(FromBytes(p, 0, 0, 0), 3) = 0
  BY <1>1, <1>3, FromBytesIs
<1> HIDE DEF t
<1>6. /\ FromBytes(p, t, t, t) \in Words
      /\ ByteOf(FromBytes(p, t, t, t), 0) = p /\ ByteOf(FromBytes(p, t, t, t), 1) = t
      /\ ByteOf(FromBytes(p, t, t, t), 2) = t /\ ByteOf(FromBytes(p, t, t, t), 3) = t
  BY <1>1, <1>4, FromBytesIs
<1>7. ExactLoad("byte", a, p, m)
  BY <1>3, <1>5 DEF ExactLoad
<1>8. ExactLoad("signed byte", a, SignedByte(p), m)
  BY <1>4, <1>6 DEF ExactLoad, t
<1> QED BY <1>2, <1>7, <1>8

LEMMA HalfLoads ==
    ASSUME NEW m \in Mem, NEW a \in Nat, a - (a % 2) + 4 <= Top
    PROVE  /\ ExactLoad("half", a, ReadHalf(m, a), m)
           /\ ExactLoad("signed half", a, SignedHalf(ReadHalf(m, a), a % 2 = 1), m)
<1>1. Top \in Nat
  BY TransfersAssumption
<1>2. CASE a % 2 = 0
  <2> DEFINE p == m[a]
             q == m[a + 1]
             t == SignOf(q)
             x == FromBytes(p, q, 0, 0)
  <2>1. p \in Bytes /\ q \in Bytes
    <3>1. a \in 0 .. Top - 1 /\ a + 1 \in 0 .. Top - 1
      BY <1>1, <1>2
    <3> QED BY <3>1 DEF Mem
  <2>2. /\ 0 \in Bytes /\ Top1 \in Bytes /\ x = p + ByteValues * q
        /\ x >= Half \div 2 <=> 2 * q >= ByteValues
    BY <2>1, HalfBytes
  <2>3. ReadHalf(m, a) = x
    BY <1>2, <2>2, ReadsAre DEF ReadHalf
  <2>4. /\ x \in Words /\ ByteOf(x, 0) = p /\ ByteOf(x, 1) = q
        /\ ByteOf(x, 2) = 0 /\ ByteOf(x, 3) = 0
    BY <2>1, <2>2, FromBytesIs
  <2>5. Extend(x, Half) = FromBytes(p, q, Top1, Top1)
    BY <2>1, <2>2, Extensions
  <2> HIDE DEF x
  <2>6. SignedHalf(x, a % 2 = 1) = FromBytes(p, q, t, t) /\ t \in Bytes
    <3>1. ~(a % 2 = 1)
      BY <1>2
    <3>2. SignedHalf(x, a % 2 = 1) = IF x >= Half \div 2 THEN Extend(x, Half) ELSE x
      BY <3>1, Zenon DEF SignedHalf
    <3> QED BY <2>2, <2>5, <3>2 DEF SignOf, x
  <2> HIDE DEF t
  <2>7. /\ FromBytes(p, q, t, t) \in Words
        /\ ByteOf(FromBytes(p, q, t, t), 0) = p /\ ByteOf(FromBytes(p, q, t, t), 1) = q
        /\ ByteOf(FromBytes(p, q, t, t), 2) = t /\ ByteOf(FromBytes(p, q, t, t), 3) = t
    BY <2>1, <2>6, FromBytesIs
  <2>8. ExactLoad("half", a, x, m)
    BY <1>2, <2>4 DEF ExactLoad
  <2>9. ExactLoad("signed half", a, SignedHalf(x, a % 2 = 1), m)
    BY <1>2, <2>6, <2>7 DEF ExactLoad, t
  <2> QED BY <2>3, <2>8, <2>9, Zenon
<1>3. CASE a % 2 # 0
  <2> DEFINE p == m[a - 1]
             q == m[(a - 1) + 1]
             r == m[(a - 1) + 2]
             s == m[(a - 1) + 3]
             x == FromBytes(q, r, s, p)
             y == SignedHalf(x, a % 2 = 1)
  <2>1. p \in Bytes /\ q \in Bytes /\ r \in Bytes /\ s \in Bytes /\ q = m[a]
    <3>1. /\ a % 2 = 1 /\ a >= 1 /\ a - 1 \in 0 .. Top - 1 /\ (a - 1) + 1 \in 0 .. Top - 1
          /\ (a - 1) + 2 \in 0 .. Top - 1 /\ (a - 1) + 3 \in 0 .. Top - 1 /\ (a - 1) + 1 = a
      BY <1>1, <1>3
    <3> QED BY <3>1 DEF Mem
  <2>2. ReadHalf(m, a) = x
    <3>1. ReadToSize(m, a - 1, 4) = FromBytes(p, q, r, s)
      BY ReadsAre
    <3>2. Rotate(FromBytes(p, q, r, s), 1) = x
      BY <2>1, Rotations
    <3> QED BY <1>3, <3>1, <3>2, Zenon DEF ReadHalf
  <2>3. Top1 \in Bytes /\ 0 \in Bytes
    BY <2>1, HalfBytes
  <2>4. /\ Extend(x, Half) = FromBytes(q, r, Top1, Top1)
        /\ Extend(x, ByteValues) = FromBytes(q, Top1, Top1, Top1)
    BY <2>1, Extensions
  <2>5. /\ x \in Words /\ ByteOf(x, 0) = q /\ ByteOf(x, 1) = r
        /\ ByteOf(x, 2) = s /\ ByteOf(x, 3) = p
    BY <2>1, FromBytesIs
  <2>6. /\ FromBytes(q, r, Top1, Top1) \in Words
        /\ ByteOf(FromBytes(q, r, Top1, Top1), 0) = q
        /\ ByteOf(FromBytes(q, r, Top1, Top1), 1) = r
        /\ ByteOf(FromBytes(q, r, Top1, Top1), 2) = Top1
        /\ ByteOf(FromBytes(q, r, Top1, Top1), 3) = Top1
    BY <2>1, <2>3, FromBytesIs
  <2>7. /\ FromBytes(q, Top1, Top1, Top1) \in Words
        /\ ByteOf(FromBytes(q, Top1, Top1, Top1), 0) = q
        /\ ByteOf(FromBytes(q, Top1, Top1, Top1), 1) = Top1
        /\ ByteOf(FromBytes(q, Top1, Top1, Top1), 2) = Top1
        /\ ByteOf(FromBytes(q, Top1, Top1, Top1), 3) = Top1
    BY <2>1, <2>3, FromBytesIs
  <2> DEFINE spoiled == 2 * r >= ByteValues \/ s # 0 \/ p # 0
  <2>8. x >= Half \div 2 <=> spoiled
    BY <2>1, HalfSign
  <2>9. x % ByteValues >= ByteValues \div 2 <=> 2 * q >= ByteValues
    BY <2>1, HalfBytes, LowByte
  <2>10. (a - 1) + 1 = a /\ (a - 1) + 2 = a + 1 /\ (a - 1) + 3 = a + 2 /\ a % 2 = 1
    BY <1>3
  <2>11. q = m[a] /\ r = m[a + 1] /\ s = m[a + 2]
    BY <2>10
  <2>12. Spoiled(m, a) <=> spoiled
    BY <2>11 DEF Spoiled
  <2>13. y = IF x >= Half \div 2 THEN Extend(x, Half)
             ELSE IF x % ByteValues >= ByteValues \div 2 THEN Extend(x, ByteValues) ELSE x
    BY <2>10, Zenon DEF SignedHalf
  <2>14. Top1 # 0
    BY TransfersAssumption DEF Top1
  <2> HIDE DEF x, y, p, q, r, s, spoiled
  <2>15. ExactLoad("half", a, x, m)
    BY <2>5, <2>10, <2>11 DEF ExactLoad, p
  <2>16. /\ y \in Words /\ ByteOf(y, 0) = q
         /\ spoiled => ByteOf(y, 1) = r /\ ByteOf(y, 2) = Top1 /\ ByteOf(y, 3) = Top1
         /\ ~spoiled /\ SignOf(q) # 0 =>
              ByteOf(y, 1) = Top1 /\ ByteOf(y, 2) = Top1 /\ ByteOf(y, 3) = Top1
         /\ ~spoiled /\ SignOf(q) = 0 =>
              ByteOf(y, 1) = r /\ ByteOf(y, 2) = s /\ ByteOf(y, 3) = p
    <3>1. CASE spoiled
      BY <2>4, <2>6, <2>8, <2>13, <3>1
    <3>2. CASE ~spoiled /\ 2 * q >= ByteValues
      <4>1. SignOf(q) = Top1
        BY <3>2 DEF SignOf
      <4> QED BY <2>4, <2>7, <2>8, <2>9, <2>13, <2>14, <3>2, <4>1
    <3>3. CASE ~spoiled /\ ~(2 * q >= ByteValues)
      <4>1. SignOf(q) = 0
        BY <3>3 DEF SignOf
      <4> QED BY <2>5, <2>8, <2>9, <2>13, <3>3, <4>1
    <3> QED BY <3>1, <3>2, <3>3
  <2>17. ~spoiled => s = 0 /\ p = 0
    BY DEF spoiled
  <2>18. ExactLoad("signed half", a, y, m)
    BY <2>10, <2>11, <2>12, <2>16, <2>17 DEF ExactLoad
  <2> QED BY <2>2, <2>15, <2>18, Zenon DEF y
<1> QED BY <1>2, <1>3

LEMMA WordLoads ==
    ASSUME NEW m \in Mem, NEW a \in Nat, a - (a % 4) + 4 <= Top
    PROVE  ExactLoad("word", a, ReadWord(m, a), m)
<1>1. /\ ReadWord(m, a) \in Words
      /\ \A k \in 0 .. 3 : ByteOf(ReadWord(m, a), k) = m[a - (a % 4) + ((a + k) % 4)]
  BY WordRead
<1>2. a - (a % 4) + ((a + 0) % 4) = a /\ 0 \in 0 .. 3
  OBVIOUS
<1>3. ByteOf(ReadWord(m, a), 0) = m[a]
  <2>1. ByteOf(ReadWord(m, a), 0) = m[a - (a % 4) + ((a + 0) % 4)]
    BY <1>1, <1>2, Zenon
  <2> QED BY <1>2, <2>1
<1> QED BY <1>1, <1>3 DEF ExactLoad

-----------------------------------------------------------------------------
(* Single transfers and swaps.                                             *)
LEMMA WriteKeeps ==
    ASSUME NEW m \in Mem, NEW a \in Int, NEW width \in 1 .. 4, NEW v \in Words
    PROVE  WriteToSize(m, a, width, v) \in Mem
<1>1. \A k \in 0 .. 3 : (v \div ByteValues ^ k) % ByteValues \in Bytes
  BY ToBytes DEF ByteOf
<1>2. ASSUME NEW x \in 0 .. Top - 1
      PROVE  (IF x \in a .. a + width - 1
              THEN (v \div ByteValues ^ (x - a)) % ByteValues ELSE m[x]) \in Bytes
  <2>1. CASE x \in a .. a + width - 1
    <3>1. x - a \in 0 .. 3
      BY <2>1, TransfersAssumption
    <3>2. (v \div ByteValues ^ (x - a)) % ByteValues \in Bytes
      BY <1>1, <3>1, Zenon
    <3> QED BY <2>1, <3>2
  <2>2. CASE x \notin a .. a + width - 1
    BY <2>2 DEF Mem
  <2> QED BY <2>1, <2>2
<1>3. WriteToSize(m, a, width, v)
        = [x \in 0 .. Top - 1 |-> IF x \in a .. a + width - 1
                                  THEN (v \div ByteValues ^ (x - a)) % ByteValues ELSE m[x]]
  <2>1. DOMAIN m = 0 .. Top - 1
    BY DEF Mem
  <2> QED BY <2>1, Zenon DEF WriteToSize
<1> QED BY <1>2, <1>3, Zenon DEF Mem

LEMMA MovedIs ==
    ASSUME NEW base \in Int, NEW up \in BOOLEAN, NEW offset \in Int
    PROVE  Moved(base, up, offset) \in Words
<1> DEFINE k == IF up THEN base + offset ELSE base - offset
<1>1. k \in Int
  OBVIOUS
<1> HIDE DEF k
<1>2. k % WordRange \in Words
  BY <1>1, Sizes DEF Words
<1> QED BY <1>2 DEF k, Moved

WordsHeld == /\ reg \in [Registers -> Words]
             /\ memory \in Mem
             /\ growth \in [pre : BOOLEAN, up : BOOLEAN]

\* The byte is at an address in memory, and so is the word below it.
LEMMA AlignedIn ==
    ASSUME NEW a \in Nat, a - (a % 4) + 4 <= Top
    PROVE  a \in 0 .. Top - 1 /\ a - (a % 4) \in Int
BY TransfersAssumption

LEMMA HalfIn ==
    ASSUME NEW a \in Nat, a - (a % 2) + 4 <= Top
    PROVE  a \in 0 .. Top - 1 /\ a - (a % 2) \in Int
BY TransfersAssumption

LEMMA LoadIsExact ==
    ASSUME NEW kind, NEW a, NEW v, ExactLoad(kind, a, v, memory),
           loaded' = Loaded(kind, a, v)
    PROVE  LoadsExact'
<1> DEFINE l == Loaded(kind, a, v)
<1>1. l.kind = kind /\ l.address = a /\ l.value = v /\ l.from = memory
  BY DEF Loaded
<1> HIDE DEF l
<1>2. loaded' = l
  BY DEF l
<1> USE DEF Top1
<1>3. \A k \in 1 .. 3 : k = 1 \/ k = 2 \/ k = 3
  OBVIOUS
<1>4. \A k \in 2 .. 3 : k = 2 \/ k = 3
  OBVIOUS
<1>5. kind = "byte" => \A k \in 1 .. 3 : ByteOf(v, k) = 0
  BY <1>3 DEF ExactLoad
<1>6. kind = "signed byte" => \A k \in 1 .. 3 : ByteOf(v, k) = SignOf(memory[a])
  BY <1>3 DEF ExactLoad
<1>7. kind = "half" /\ a % 2 = 0 =>
        ByteOf(v, 1) = memory[a + 1] /\ \A k \in 2 .. 3 : ByteOf(v, k) = 0
  BY <1>4 DEF ExactLoad
<1>8. kind = "signed half" /\ a % 2 = 0 =>
        /\ ByteOf(v, 1) = memory[a + 1]
        /\ \A k \in 2 .. 3 : ByteOf(v, k) = SignOf(memory[a + 1])
  BY <1>4 DEF ExactLoad
<1>9. /\ v \in Words /\ ByteOf(v, 0) = memory[a]
      /\ kind = "word" =>
           \A k \in 0 .. 3 : ByteOf(v, k) = memory[a - (a % 4) + ((a + k) % 4)]
  BY DEF ExactLoad
<1>10. "half" # "signed half"
  OBVIOUS
<1>11. kind = "half" /\ a % 2 = 1 =>
         /\ ByteOf(v, 1) = memory[a + 1] /\ ByteOf(v, 2) = memory[a + 2]
         /\ ByteOf(v, 3) = memory[a - 1]
  BY DEF ExactLoad
<1>12. kind = "signed half" /\ a % 2 = 1 =>
         /\ Spoiled(memory, a) =>
              ByteOf(v, 1) = memory[a + 1] /\ \A k \in 2 .. 3 : ByteOf(v, k) = Top1
         /\ ~Spoiled(memory, a) /\ 2 * memory[a] >= ByteValues =>
              \A k \in 1 .. 3 : ByteOf(v, k) = Top1
         /\ ~Spoiled(memory, a) /\ ~(2 * memory[a] >= ByteValues) =>
              ByteOf(v, 1) = memory[a + 1] /\ \A k \in 2 .. 3 : ByteOf(v, k) = 0
  <2>1. Top1 # 0
    BY TransfersAssumption
  <2>2. SignOf(memory[a]) = 0 <=> ~(2 * memory[a] >= ByteValues)
    BY <2>1, Zenon DEF SignOf
  <2> QED BY <1>3, <1>4, <2>2 DEF ExactLoad
<1> QED BY <1>1, <1>2, <1>5, <1>6, <1>7, <1>8, <1>9, <1>10, <1>11, <1>12, Zenon
   DEF LoadsExact, SignOf, Spoiled

LEMMA RegSet ==
    ASSUME NEW f \in [Registers -> Words], NEW r, NEW v \in Words
    PROVE  [f EXCEPT ![r] = v] \in [Registers -> Words]
OBVIOUS

LEMMA BackIs ==
    ASSUME WordsHeld, NEW pre \in BOOLEAN, NEW up \in BOOLEAN, NEW writeback \in BOOLEAN,
           NEW Rn \in Registers, NEW offset \in Offsets
    PROVE  /\ WriteBack(pre, up, writeback, Rn, offset) \in [Registers -> Words]
           /\ Based(pre, up, Rn, offset) \in Nat
<1>1. reg \in [Registers -> Words] /\ reg[Rn] \in Words /\ reg[Rn] \in Nat /\ offset \in Int
  BY TransfersAssumption, Sizes DEF WordsHeld, Words
<1>2. Moved(reg[Rn], up, offset) \in Words
  BY <1>1, MovedIs
<1>3. Moved(reg[Rn], up, offset) \in Nat
  BY <1>2, Sizes DEF Words
<1>4. [reg EXCEPT ![Rn] = Moved(reg[Rn], up, offset)] \in [Registers -> Words]
  BY <1>1, <1>2, RegSet
<1>5. WriteBack(pre, up, writeback, Rn, offset) \in [Registers -> Words]
  BY <1>1, <1>4, Zenon DEF WriteBack
<1>6. Based(pre, up, Rn, offset) \in Nat
  BY <1>1, <1>3 DEF Based
<1> QED BY <1>5, <1>6

LEMMA SingleKeeps ==
    ASSUME WordsHeld, LoadsExact,
           NEW load \in BOOLEAN, NEW byte \in BOOLEAN, NEW pre \in BOOLEAN,
           NEW up \in BOOLEAN, NEW writeback \in BOOLEAN,
           NEW Rn \in Registers, NEW Rd \in Registers, NEW offset \in Offsets,
           ArmSingleDataTransfer(load, byte, pre, up, writeback, Rn, Rd, offset)
    PROVE  WordsHeld' /\ LoadsExact' /\ UNCHANGED frames
<1> DEFINE a == Based(pre, up, Rn, offset)
           back == WriteBack(pre, up, writeback, Rn, offset)
           al == a - (a % 4)
           value == IF byte THEN ReadToSize(memory, a, 1) ELSE ReadWord(memory, a)
           kind == IF byte THEN "byte" ELSE "word"
<1>1. a \in Nat /\ back \in [Registers -> Words]
  BY BackIs
<1>2. al + 4 <= Top /\ UNCHANGED <<growth, frames>>
  BY DEF ArmSingleDataTransfer, Within
<1>3. \/ reg' = [back EXCEPT ![Rd] = value] /\ loaded' = Loaded(kind, a, value)
         /\ UNCHANGED memory
      \/ /\ reg' = back /\ UNCHANGED loaded
         /\ memory' = IF byte THEN WriteToSize(memory, a, 1, reg[Rd])
                      ELSE WriteToSize(memory, al, 4, reg[Rd])
  BY Zenon DEF ArmSingleDataTransfer
<1>4. memory \in Mem /\ reg[Rd] \in Words /\ growth \in [pre : BOOLEAN, up : BOOLEAN]
  BY DEF WordsHeld
<1> HIDE DEF a, back
<1>5. a \in 0 .. Top - 1 /\ al \in Int /\ a \in Int
  BY <1>1, <1>2, AlignedIn
<1>6. ExactLoad(kind, a, value, memory)
  <2>1. CASE byte
    BY <1>4, <1>5, <2>1, ByteLoads
  <2>2. CASE ~byte
    BY <1>1, <1>2, <1>4, <2>2, WordLoads
  <2> QED BY <2>1, <2>2
<1> HIDE DEF al, value, kind
<1>7. CASE reg' = [back EXCEPT ![Rd] = value] /\ loaded' = Loaded(kind, a, value)
           /\ UNCHANGED memory
  <2>1. value \in Words
    BY <1>6 DEF ExactLoad
  <2>2. reg' \in [Registers -> Words]
    BY <1>1, <1>7, <2>1, RegSet
  <2>3. LoadsExact'
    BY <1>6, <1>7, LoadIsExact
  <2> QED BY <1>2, <1>4, <1>7, <2>2, <2>3 DEF WordsHeld
<1>8. CASE reg' = back /\ UNCHANGED loaded
           /\ memory' = IF byte THEN WriteToSize(memory, a, 1, reg[Rd])
                        ELSE WriteToSize(memory, al, 4, reg[Rd])
  <2>1. memory' \in Mem
    <3>1. 1 \in 1 .. 4 /\ 4 \in 1 .. 4
      OBVIOUS
    <3>2. WriteToSize(memory, a, 1, reg[Rd]) \in Mem /\ WriteToSize(memory, al, 4, reg[Rd]) \in Mem
      BY <1>4, <1>5, <3>1, WriteKeeps
    <3> QED BY <1>8, <3>2
  <2>2. LoadsExact'
    BY <1>8, Zenon DEF LoadsExact
  <2> QED BY <1>1, <1>2, <1>4, <1>8, <2>1, <2>2 DEF WordsHeld
<1> QED BY <1>3, <1>7, <1>8

LEMMA HalfwordKeeps ==
    ASSUME WordsHeld, LoadsExact,
           NEW load \in BOOLEAN, NEW half \in BOOLEAN, NEW signed \in BOOLEAN,
           NEW pre \in BOOLEAN, NEW up \in BOOLEAN, NEW writeback \in BOOLEAN,
           NEW Rn \in Registers, NEW Rd \in Registers, NEW offset \in Offsets,
           ArmHalfwordDT(load, half, signed, pre, up, writeback, Rn, Rd, offset)
    PROVE  WordsHeld' /\ LoadsExact' /\ UNCHANGED frames
<1> DEFINE a == Based(pre, up, Rn, offset)
           back == WriteBack(pre, up, writeback, Rn, offset)
           al == a - (a % 2)
           value == CASE half /\ signed  -> SignedHalf(ReadHalf(memory, a), a % 2 = 1)
                      [] half /\ ~signed -> ReadHalf(memory, a)
                      [] ~half           -> SignedByte(ReadToSize(memory, a, 1))
           kind == CASE half /\ signed  -> "signed half"
                     [] half /\ ~signed -> "half"
                     [] ~half           -> "signed byte"
<1>1. a \in Nat /\ back \in [Registers -> Words]
  BY BackIs
<1>2. al + 4 <= Top /\ UNCHANGED <<growth, frames>>
  BY DEF ArmHalfwordDT, Within
<1>3. \/ reg' = [back EXCEPT ![Rd] = value] /\ loaded' = Loaded(kind, a, value)
         /\ UNCHANGED memory
      \/ /\ reg' = back /\ UNCHANGED loaded
         /\ memory' = WriteToSize(memory, al, 2, reg[Rd])
  BY Zenon DEF ArmHalfwordDT
<1>4. memory \in Mem /\ reg[Rd] \in Words /\ growth \in [pre : BOOLEAN, up : BOOLEAN]
  BY DEF WordsHeld
<1> HIDE DEF a, back
<1>5. a \in 0 .. Top - 1 /\ al \in Int /\ a \in Int
  BY <1>1, <1>2, HalfIn
<1>6. ExactLoad(kind, a, value, memory)
  <2>1. CASE half /\ signed
    <3>1. value = SignedHalf(ReadHalf(memory, a), a % 2 = 1) /\ kind = "signed half"
      BY <2>1, Zenon
    <3>2. ExactLoad("signed half", a, SignedHalf(ReadHalf(memory, a), a % 2 = 1), memory)
      BY <1>1, <1>2, <1>4, HalfLoads
    <3> QED BY <3>1, <3>2, Zenon
  <2>2. CASE half /\ ~signed
    <3>1. value = ReadHalf(memory, a) /\ kind = "half"
      BY <2>2, Zenon
    <3>2. ExactLoad("half", a, ReadHalf(memory, a), memory)
      BY <1>1, <1>2, <1>4, HalfLoads
    <3> QED BY <3>1, <3>2, Zenon
  <2>3. CASE ~half
    <3>1. value = SignedByte(ReadToSize(memory, a, 1)) /\ kind = "signed byte"
      BY <2>3, Zenon
    <3> QED BY <1>4, <1>5, <3>1, ByteLoads
  <2> QED BY <2>1, <2>2, <2>3
<1> HIDE DEF al, value, kind
<1>7. CASE reg' = [back EXCEPT ![Rd] = value] /\ loaded' = Loaded(kind, a, value)
           /\ UNCHANGED memory
  <2>1. value \in Words
    BY <1>6 DEF ExactLoad
  <2>2. reg' \in [Registers -> Words]
    BY <1>1, <1>7, <2>1, RegSet
  <2>3. LoadsExact'
    BY <1>6, <1>7, LoadIsExact
  <2> QED BY <1>2, <1>4, <1>7, <2>2, <2>3 DEF WordsHeld
<1>8. CASE reg' = back /\ UNCHANGED loaded /\ memory' = WriteToSize(memory, al, 2, reg[Rd])
  <2>1. memory' \in Mem
    <3>1. 2 \in 1 .. 4
      OBVIOUS
    <3> QED BY <1>4, <1>5, <1>8, <3>1, WriteKeeps
  <2>2. LoadsExact'
    BY <1>8, Zenon DEF LoadsExact
  <2> QED BY <1>1, <1>2, <1>4, <1>8, <2>1, <2>2 DEF WordsHeld
<1> QED BY <1>3, <1>7, <1>8

LEMMA SwapKeeps ==
    ASSUME WordsHeld, LoadsExact, NEW byte \in BOOLEAN,
           NEW Rn \in Registers, NEW Rd \in Registers, NEW Rm \in Registers,
           ArmSingleDataSwap(byte, Rn, Rd, Rm)
    PROVE  WordsHeld' /\ LoadsExact' /\ UNCHANGED frames
<1> DEFINE a == reg[Rn]
           al == a - (a % 4)
           value == IF byte THEN ReadToSize(memory, a, 1) ELSE ReadWord(memory, a)
           kind == IF byte THEN "byte" ELSE "word"
<1>1. /\ memory \in Mem /\ reg \in [Registers -> Words] /\ reg[Rm] \in Words
      /\ growth \in [pre : BOOLEAN, up : BOOLEAN] /\ a \in Nat
  BY Sizes DEF WordsHeld, Words
<1>2. /\ al + 4 <= Top /\ UNCHANGED <<growth, frames>>
      /\ reg' = [reg EXCEPT ![Rd] = value] /\ loaded' = Loaded(kind, a, value)
      /\ memory' = IF byte THEN WriteToSize(memory, a, 1, reg[Rm])
                   ELSE WriteToSize(memory, al, 4, reg[Rm])
  BY Zenon DEF ArmSingleDataSwap, Within
<1> HIDE DEF a
<1>3. a \in 0 .. Top - 1 /\ al \in Int /\ a \in Int
  BY <1>1, <1>2, AlignedIn
<1>4. ExactLoad(kind, a, value, memory)
  <2>1. CASE byte
    BY <1>1, <1>3, <2>1, ByteLoads
  <2>2. CASE ~byte
    BY <1>1, <1>2, <2>2, WordLoads
  <2> QED BY <2>1, <2>2
<1> HIDE DEF al, value, kind
<1>5. value \in Words
  BY <1>4 DEF ExactLoad
<1>6. reg' \in [Registers -> Words]
  BY <1>1, <1>2, <1>5, RegSet
<1>7. LoadsExact'
  BY <1>2, <1>4, LoadIsExact
<1>8. memory' \in Mem
  <2>1. 1 \in 1 .. 4 /\ 4 \in 1 .. 4
    OBVIOUS
  <2>2. WriteToSize(memory, a, 1, reg[Rm]) \in Mem /\ WriteToSize(memory, al, 4, reg[Rm]) \in Mem
    BY <1>1, <1>3, <2>1, WriteKeeps
  <2> QED BY <1>2, <2>2
<1> QED BY <1>1, <1>2, <1>6, <1>7, <1>8 DEF WordsHeld

-----------------------------------------------------------------------------
(* Where a frame lies and what is on the stack, which grows as g says.     *)
Growth == [pre : BOOLEAN, up : BOOLEAN]

Extent(f) == 4 * Cardinality(f.list)
Origin(f, g) == First(f.base, g.pre, g.up, Cardinality(f.list))

Frames == [list : SUBSET Registers, base : Words, top : Words,
           values : UNION {[l -> Words] : l \in SUBSET Registers}]

\* In memory, f holds the registers of its list as they were.
Holds(f, m, g) ==
    \A x \in f.list, i \in 0 .. 3 :
       m[Origin(f, g) + Place(f.list, x) + i] = ByteOf(f.values[x], i)

Framed(f, m, g) ==
    /\ f.list # {} /\ f.values \in [f.list -> Words]
    /\ Stack \in f.list => f.values[Stack] = f.base
    /\ Origin(f, g) + Extent(f) <= Top
    /\ f.top = After(f.base, g.up, Cardinality(f.list))
    /\ Holds(f, m, g)

\* The newer of two frames is farther on.
Apart(new, old, g) == IF g.up THEN Origin(old, g) + Extent(old) <= Origin(new, g)
                      ELSE Origin(new, g) + Extent(new) <= Origin(old, g)

(* StackInv of a stack s that ends at the base sp.                         *)
Stacked(s, m, g, sp) ==
    /\ \A k \in 1 .. Len(s) :
         Framed(s[k], m, g) /\ s[k].top = IF k = 1 THEN sp ELSE s[k - 1].base
    /\ \A j, k \in 1 .. Len(s) : j < k => Apart(s[j], s[k], g)

StackInv == frames \in Seq(Frames) /\ Stacked(frames, memory, growth, reg[Stack])

(* What is inductive of StackHolds: where the frames lie, what memory has  *)
(* there, and that a newer one is beyond all that are older.               *)
TransfersInv == WordsHeld /\ LoadsExact /\ StackInv

-----------------------------------------------------------------------------
(* The places of a list: every register has one of its own, and every one  *)
(* of them is a register's.                                                *)
Below(list, r) == Cardinality({x \in list : x < r})

LEMMA ListsFinite ==
    ASSUME NEW list \in SUBSET Registers
    PROVE  IsFiniteSet(list) /\ Cardinality(list) \in Nat
<1>1. IsFiniteSet(0 .. 14)
  <2>1. 0 \in Int /\ 14 \in Int
    OBVIOUS
  <2> QED BY <2>1, FS_Interval, Zenon
<1>2. list \in SUBSET (0 .. 14)
  BY TransfersAssumption
<1>3. IsFiniteSet(list)
  BY <1>1, <1>2, FS_Subset
<1> QED BY <1>3, FS_CardinalityType

LEMMA Belows ==
    ASSUME NEW list \in SUBSET Registers
    PROVE  /\ \A x \in list : Below(list, x) \in 0 .. Cardinality(list) - 1
           /\ \A x, y \in list : Below(list, x) = Below(list, y) => x = y
           /\ \A k \in 0 .. Cardinality(list) - 1 : \E x \in list : Below(list, x) = k
<1> DEFINE n == Cardinality(list)
<1>1. IsFiniteSet(list) /\ n \in Nat
  BY ListsFinite
<1>2. list \subseteq Nat
  BY TransfersAssumption
<1>3. ASSUME NEW x \in list, NEW y \in list, x < y
      PROVE  Below(list, x) < Below(list, y)
  <2> DEFINE S == {z \in list : z < x}
             T == {z \in list : z < y}
  <2>1. x \in Nat /\ y \in Nat /\ x < y
    BY <1>2, <1>3
  <2>2. ASSUME NEW z \in S
        PROVE  z \in T
    <3>1. z \in list /\ z < x /\ z \in Nat
      BY <1>2
    <3>2. z < y
      BY <2>1, <3>1
    <3> QED BY <3>1, <3>2
  <2>3. ~(x < x)
    BY <2>1
  <2>4. S \in SUBSET T
    BY <2>2, Zenon
  <2>5. x \in T /\ x \notin S /\ T \in SUBSET list
    BY <2>1, <2>3, Zenon
  <2> HIDE DEF S, T
  <2>6. IsFiniteSet(T)
    BY <1>1, <2>5, FS_Subset
  <2>7. /\ IsFiniteSet(S) /\ Cardinality(S) <= Cardinality(T)
        /\ Cardinality(T) = Cardinality(S) => T = S
    BY <2>4, <2>6, FS_Subset
  <2>8. Cardinality(S) \in Nat /\ Cardinality(T) \in Nat
    BY <2>6, <2>7, FS_CardinalityType
  <2>9. Cardinality(S) < Cardinality(T)
    BY <2>5, <2>7, <2>8
  <2> QED BY <2>9 DEF Below, S, T
<1>4. ASSUME NEW x \in list
      PROVE  Below(list, x) \in 0 .. n - 1
  <2> DEFINE S == {z \in list : z < x}
  <2>1. S \in SUBSET list /\ x \notin S
    BY <1>2
  <2> HIDE DEF S
  <2>2. /\ IsFiniteSet(S) /\ Cardinality(S) <= n /\ (n = Cardinality(S) => list = S)
    BY <1>1, <2>1, FS_Subset
  <2>3. Cardinality(S) \in Nat
    BY <2>2, FS_CardinalityType
  <2>4. Cardinality(S) \in 0 .. n - 1
    BY <1>1, <2>1, <2>2, <2>3
  <2> QED BY <2>4 DEF Below, S
<1>5. ASSUME NEW x \in list, NEW y \in list, Below(list, x) = Below(list, y)
      PROVE  x = y
  <2>1. x < y \/ y < x \/ x = y
    BY <1>2
  <2>2. Below(list, x) \in Int /\ Below(list, y) \in Int
    BY <1>1, <1>4
  <2> QED BY <1>3, <1>5, <2>1, <2>2
<1> DEFINE f == [x \in list |-> Below(list, x)]
           places == 0 .. n - 1
<1>6. f \in Injection(list, places)
  <2>1. f \in [list -> places]
    BY <1>4
  <2>2. \A x, y \in list : f[x] = f[y] => x = y
    BY <1>5
  <2> QED BY <2>1, <2>2 DEF Injection, IsInjective
<1>7. IsFiniteSet(places) /\ Cardinality(places) = n
  BY <1>1, FS_Interval
<1>8. f \in Surjection(list, places)
  <2> HIDE DEF f, places
  <2>1. Cardinality(list) = Cardinality(places)
    BY <1>7
  <2> QED BY <1>6, <1>7, <2>1, FS_Injection
<1>9. ASSUME NEW k \in places
      PROVE  \E x \in list : Below(list, x) = k
  <2>1. \E x \in list : f[x] = k
    BY <1>8 DEF Surjection
  <2> QED BY <2>1
<1> QED BY <1>4, <1>5, <1>9

LEMMA PlaceIs ==
    ASSUME NEW list \in SUBSET Registers, NEW x \in list
    PROVE  /\ Place(list, x) = 4 * Below(list, x)
           /\ Place(list, x) \in Nat
           /\ Place(list, x) + 4 <= 4 * Cardinality(list)
           /\ Cardinality(list) \in Nat
<1>1. Below(list, x) \in 0 .. Cardinality(list) - 1 /\ Cardinality(list) \in Nat
  BY Belows, ListsFinite
<1>2. Place(list, x) = 4 * Below(list, x)
  BY DEF Place, Below
<1> DEFINE k == Below(list, x)
           n == Cardinality(list)
<1> HIDE DEF k, n
<1>3. k \in 0 .. n - 1 /\ n \in Nat /\ Place(list, x) = 4 * k
  BY <1>1, <1>2 DEF k, n
<1>4. Place(list, x) \in Nat /\ Place(list, x) + 4 <= 4 * n
  BY <1>3
<1> QED BY <1>2, <1>3, <1>4 DEF k, n

(* Every address of a block is a byte of one of its registers.             *)
LEMMA BlockCell ==
    ASSUME NEW list \in SUBSET Registers, NEW first \in Int,
           NEW a \in first .. first + 4 * Cardinality(list) - 1
    PROVE  \E x \in list : /\ Place(list, x) = 4 * ((a - first) \div 4)
                           /\ a = first + Place(list, x) + ((a - first) % 4)
                           /\ (a - first) % 4 \in 0 .. 3
<1> DEFINE n == Cardinality(list)
           d == (a - first) \div 4
           i == (a - first) % 4
<1>1. n \in Nat
  BY ListsFinite
<1>2. a - first \in Nat
  OBVIOUS
<1>3. d \in Nat /\ i \in 0 .. 4 - 1 /\ a - first = d * 4 + i
  BY <1>2, Division
<1> HIDE DEF d, i
<1>4. d \in 0 .. n - 1
  <2> HIDE DEF n
  <2>1. a - first < 4 * n
    BY <1>1 DEF n
  <2> QED BY <1>1, <1>2, <1>3, <2>1
<1>5. PICK x \in list : Below(list, x) = d
  BY <1>4, Belows
<1>6. Place(list, x) = 4 * d /\ d \in Int
  BY <1>3, <1>5, PlaceIs
<1>7. a = first + Place(list, x) + i
  BY <1>3, <1>6
<1> QED BY <1>3, <1>6, <1>7 DEF d, i

LEMMA PlacesDiffer ==
    ASSUME NEW list \in SUBSET Registers, NEW x \in list, NEW y \in list,
           Place(list, x) = Place(list, y)
    PROVE  x = y
<1> DEFINE j == Below(list, x)
           k == Below(list, y)
<1>1. j \in Int /\ k \in Int
  BY Belows, ListsFinite
<1>2. 4 * j = 4 * k
  BY PlaceIs
<1> HIDE DEF j, k
<1>3. j = k
  BY <1>1, <1>2
<1> QED BY <1>3, Belows DEF j, k

\* The register whose byte is at a place of the block.
LEMMA BlockByte ==
    ASSUME NEW list \in SUBSET Registers, NEW first \in Int, NEW x \in list, NEW i \in 0 .. 3
    PROVE  /\ first + Place(list, x) + i \in first .. first + 4 * Cardinality(list) - 1
           /\ ((first + Place(list, x) + i) - first) % 4 = i
           /\ Place(list, x) = 4 * (((first + Place(list, x) + i) - first) \div 4)
<1> DEFINE a == first + Place(list, x) + i
           k == Below(list, x)
           n == Cardinality(list)
           p == Place(list, x)
<1>1. p = 4 * k /\ p \in Nat /\ p + 4 <= 4 * n /\ n \in Nat
  BY PlaceIs
<1>2. k \in Nat
  <2>1. k \in 0 .. n - 1
    BY Belows
  <2> HIDE DEF k, n
  <2> QED BY <1>1, <2>1
<1> HIDE DEF k, n, p
<1>3. a = first + p + i
  BY DEF p
<1> HIDE DEF a
<1>4. a - first = k * 4 + i /\ i \in 0 .. 4 - 1
  BY <1>1, <1>2, <1>3
<1>5. (k * 4 + i) \div 4 = k /\ (k * 4 + i) % 4 = i
  <2>1. 4 \in Nat /\ 4 > 0 /\ k \in Int
    BY <1>2
  <2> QED BY <1>4, <2>1, Divided
<1>6. a \in first .. first + 4 * n - 1
  BY <1>1, <1>3
<1>7. (a - first) % 4 = i /\ p = 4 * ((a - first) \div 4)
  BY <1>1, <1>4, <1>5
<1> QED BY <1>6, <1>7 DEF a, n, p

-----------------------------------------------------------------------------
(* Blocks in memory.                                                       *)
LEMMA WordsOf ==
    ASSUME NEW x \in Int
    PROVE  x % WordRange \in Words
<1>1. WordRange \in Nat /\ WordRange > 0
  BY Sizes
<1> QED BY <1>1 DEF Words

LEMMA FirstIs ==
    ASSUME NEW base \in Words, NEW pre \in BOOLEAN, NEW up \in BOOLEAN, NEW n \in Nat
    PROVE  First(base, pre, up, n) \in Words /\ After(base, up, n) \in Words
<1>1. base \in Int
  BY Sizes DEF Words
<1>2. base + (IF pre THEN 4 ELSE 0) \in Int /\ base - 4 * n + (IF pre THEN 0 ELSE 4) \in Int
  BY <1>1
<1> DEFINE k == IF up THEN base + (IF pre THEN 4 ELSE 0)
                ELSE base - 4 * n + (IF pre THEN 0 ELSE 4)
<1>3. k \in Int
  BY <1>2, Zenon
<1> HIDE DEF k
<1>4. k % WordRange \in Words
  BY <1>3, WordsOf
<1>5. After(base, up, n) \in Words
  BY <1>1, MovedIs DEF After
<1> QED BY <1>4, <1>5 DEF First, k

LEMMA BlockRead ==
    ASSUME NEW m \in Mem, NEW list \in SUBSET Registers, NEW first \in Nat, NEW x \in list,
           first + 4 * Cardinality(list) <= Top
    PROVE  /\ ReadToSize(m, first + Place(list, x), 4) \in Words
           /\ \A v \in Words :
                (\A i \in 0 .. 3 : m[first + Place(list, x) + i] = ByteOf(v, i))
                  => ReadToSize(m, first + Place(list, x), 4) = v
<1> DEFINE a == first + Place(list, x)
           n == Cardinality(list)
           p == Place(list, x)
<1>1. p \in Nat /\ p + 4 <= 4 * n /\ n \in Nat
  BY PlaceIs
<1> HIDE DEF n, p
<1>2. first + 4 * n <= Top
  BY DEF n
<1>3. Top \in Nat
  BY TransfersAssumption
<1>4. first + p \in Nat /\ first + p + 4 <= Top
  BY <1>1, <1>2, <1>3
<1>5. a = first + p
  BY DEF p
<1> HIDE DEF a
<1>6. a \in Int /\ a \in 0 .. Top - 1 /\ a + 1 \in 0 .. Top - 1 /\ a + 2 \in 0 .. Top - 1
      /\ a + 3 \in 0 .. Top - 1
  BY <1>3, <1>4, <1>5
<1>7. m[a] \in Bytes /\ m[a + 1] \in Bytes /\ m[a + 2] \in Bytes /\ m[a + 3] \in Bytes
  BY <1>6 DEF Mem
<1>8. ReadToSize(m, a, 4) = FromBytes(m[a], m[a + 1], m[a + 2], m[a + 3])
  BY <1>6, ReadsAre
<1>9. ReadToSize(m, a, 4) \in Words
  BY <1>7, <1>8, FromBytesIs
<1>10. ASSUME NEW v \in Words, \A i \in 0 .. 3 : m[a + i] = ByteOf(v, i)
       PROVE  ReadToSize(m, a, 4) = v
  <2>1. m[a + 0] = ByteOf(v, 0) /\ m[a + 1] = ByteOf(v, 1) /\ m[a + 2] = ByteOf(v, 2)
        /\ m[a + 3] = ByteOf(v, 3)
    BY <1>10
  <2>2. a + 0 = a
    BY <1>6
  <2>3. v = FromBytes(ByteOf(v, 0), ByteOf(v, 1), ByteOf(v, 2), ByteOf(v, 3))
    BY ToBytes
  <2> QED BY <1>8, <2>1, <2>2, <2>3
<1> QED BY <1>9, <1>10 DEF a

\* What LoadBlock gives.
BlockLoaded(base, pre, up, writeback, list) ==
    LET n == Cardinality(list)
        r == LoadBlock(base, pre, up, writeback, Stack, list)
    IN  /\ r \in [Registers -> Words]
        /\ \A x \in list :
             r[x] = ReadToSize(memory, First(base, pre, up, n) + Place(list, x), 4)
        /\ Stack \notin list => r[Stack] = IF writeback THEN After(base, up, n) ELSE reg[Stack]

LEMMA BlockLoad ==
    ASSUME WordsHeld, NEW base \in Words, NEW pre \in BOOLEAN, NEW up \in BOOLEAN,
           NEW writeback \in BOOLEAN, NEW list \in SUBSET Registers,
           First(base, pre, up, Cardinality(list)) + 4 * Cardinality(list) <= Top
    PROVE  BlockLoaded(base, pre, up, writeback, list)
<1> DEFINE n == Cardinality(list)
           first == First(base, pre, up, n)
           Value(x) == CASE x \in list -> ReadToSize(memory, first + Place(list, x), 4)
                         [] x \notin list /\ x = Stack /\ writeback -> After(base, up, n)
                         [] OTHER -> reg[x]
<1>1. n \in Nat
  BY ListsFinite
<1>2. first \in Words /\ After(base, up, n) \in Words
  BY <1>1, FirstIs
<1>3. first \in Nat
  BY <1>2, Sizes DEF Words
<1>4. memory \in Mem /\ reg \in [Registers -> Words]
  BY DEF WordsHeld
<1>5. LoadBlock(base, pre, up, writeback, Stack, list) = [x \in Registers |-> Value(x)]
  BY Zenon DEF LoadBlock
<1>6. ASSUME NEW x \in list
      PROVE  Value(x) = ReadToSize(memory, first + Place(list, x), 4) /\ Value(x) \in Words
  <2>1. Value(x) = ReadToSize(memory, first + Place(list, x), 4)
    BY Zenon
  <2>2. ReadToSize(memory, first + Place(list, x), 4) \in Words
    BY <1>3, <1>4, BlockRead
  <2> QED BY <2>1, <2>2, Zenon
<1>7. ASSUME NEW x \in Registers, x \notin list
      PROVE  /\ Value(x) = IF x = Stack /\ writeback THEN After(base, up, n) ELSE reg[x]
             /\ Value(x) \in Words
  <2>1. Value(x) = IF x = Stack /\ writeback THEN After(base, up, n) ELSE reg[x]
    BY <1>7
  <2>2. reg[x] \in Words
    BY <1>4
  <2> QED BY <1>2, <2>1, <2>2, Zenon
<1>8. Stack \in Registers /\ list \subseteq Registers
  BY TransfersAssumption
<1> HIDE DEF Value, first, n
<1>9. \A x \in Registers : Value(x) \in Words
  BY <1>6, <1>7, Zenon
<1>10. LoadBlock(base, pre, up, writeback, Stack, list) \in [Registers -> Words]
  BY <1>5, <1>9
<1>11. \A x \in list : LoadBlock(base, pre, up, writeback, Stack, list)[x]
                         = ReadToSize(memory, first + Place(list, x), 4)
  BY <1>5, <1>6, <1>8
<1>12. Stack \notin list =>
         LoadBlock(base, pre, up, writeback, Stack, list)[Stack]
           = IF writeback THEN After(base, up, n) ELSE reg[Stack]
  BY <1>5, <1>7, <1>8
<1> QED BY <1>10, <1>11, <1>12 DEF first, n, BlockLoaded

LEMMA BlockStore ==
    ASSUME WordsHeld, NEW pre \in BOOLEAN, NEW up \in BOOLEAN, NEW Rn \in Registers,
           NEW list \in SUBSET Registers,
           First(reg[Rn], pre, up, Cardinality(list)) + 4 * Cardinality(list) <= Top
    PROVE  LET n == Cardinality(list)
               first == First(reg[Rn], pre, up, n)
               new == StoreBlock(pre, up, Rn, list)
           IN  /\ new \in Mem
               /\ \A a \in 0 .. Top - 1 : a \notin first .. first + 4 * n - 1 => new[a] = memory[a]
               /\ \A x \in list, i \in 0 .. 3 :
                    new[first + Place(list, x) + i]
                      = ByteOf(IF x = Rn /\ Place(list, x) # 0
                               THEN After(reg[Rn], up, n) ELSE reg[x], i)
<1> DEFINE n == Cardinality(list)
           first == First(reg[Rn], pre, up, n)
           new == StoreBlock(pre, up, Rn, list)
           value == [x \in list |-> IF x = Rn /\ Place(list, x) # 0
                                    THEN After(reg[Rn], up, n) ELSE reg[x]]
           Owner(a) == CHOOSE x \in list : Place(list, x) = 4 * ((a - first) \div 4)
           Cell(a) == IF a \in first .. first + 4 * n - 1
                      THEN (value[Owner(a)] \div ByteValues ^ ((a - first) % 4)) % ByteValues
                      ELSE memory[a]
<1>1. n \in Nat /\ reg[Rn] \in Words /\ memory \in Mem /\ reg \in [Registers -> Words]
  BY ListsFinite DEF WordsHeld
<1>2. first \in Words /\ After(reg[Rn], up, n) \in Words
  BY <1>1, FirstIs
<1>3. first \in Nat /\ first \in Int
  BY <1>2, Sizes DEF Words
<1>4. new = [a \in 0 .. Top - 1 |-> Cell(a)]
  <2>1. DOMAIN memory = 0 .. Top - 1
    BY <1>1 DEF Mem
  <2> QED BY <2>1, Zenon DEF StoreBlock
<1>5. first + 4 * n <= Top
  OBVIOUS
<1>6. value \in [list -> Words]
  <2>1. \A x \in list : reg[x] \in Words
    BY <1>1
  <2> QED BY <1>2, <2>1
<1>7. \A x \in list : value[x] = IF x = Rn /\ Place(list, x) # 0
                                 THEN After(reg[Rn], up, n) ELSE reg[x]
  BY Zenon
<1> HIDE DEF new, value
<1>8. ASSUME NEW x \in list, NEW i \in 0 .. 3
      PROVE  /\ first + Place(list, x) + i \in 0 .. Top - 1
             /\ Cell(first + Place(list, x) + i) = ByteOf(value[x], i)
  <2> DEFINE a == first + Place(list, x) + i
  <2>1. /\ a \in first .. first + 4 * n - 1 /\ (a - first) % 4 = i
        /\ Place(list, x) = 4 * ((a - first) \div 4)
    <3> HIDE DEF first
    <3>1. a \in first .. first + 4 * n - 1
      BY <1>3, BlockByte, Zenon
    <3>2. (a - first) % 4 = i /\ Place(list, x) = 4 * ((a - first) \div 4)
      BY <1>3, BlockByte, Zenon
    <3> QED BY <3>1, <3>2, Zenon
  <2>2. a \in 0 .. Top - 1
    <3> HIDE DEF a, first, n
    <3> QED BY <1>1, <1>3, <1>5, <2>1, TransfersAssumption
  <2> HIDE DEF a, first, n
  <2>3. Owner(a) \in list /\ Place(list, Owner(a)) = 4 * ((a - first) \div 4)
    BY <2>1, Zenon
  <2>4. Place(list, Owner(a)) = Place(list, x)
    BY <2>1, <2>3, Zenon
  <2> HIDE DEF Owner
  <2>5. Owner(a) = x
    BY <2>3, <2>4, PlacesDiffer
  <2>6. Cell(a) = ByteOf(value[x], i)
    BY <2>1, <2>5, Zenon DEF ByteOf
  <2> QED BY <2>2, <2>6 DEF a, first, n
<1>9. ASSUME NEW a \in 0 .. Top - 1
      PROVE  /\ Cell(a) \in Bytes
             /\ a \notin first .. first + 4 * n - 1 => Cell(a) = memory[a]
  <2>1. a \notin first .. first + 4 * n - 1 => Cell(a) = memory[a]
    BY Zenon
  <2>2. memory[a] \in Bytes
    BY <1>1 DEF Mem
  <2>3. CASE a \in first .. first + 4 * n - 1
    <3>1. PICK x \in list : /\ a = first + Place(list, x) + ((a - first) % 4)
                            /\ (a - first) % 4 \in 0 .. 3
      BY <1>3, <2>3, BlockCell
    <3>2. Cell(a) = ByteOf(value[x], (a - first) % 4)
      <4> DEFINE i == (a - first) % 4
      <4>1. i \in 0 .. 3 /\ a = first + Place(list, x) + i
        BY <3>1
      <4> HIDE DEF i, Cell, first
      <4>2. Cell(first + Place(list, x) + i) = ByteOf(value[x], i)
        BY <1>8, <4>1
      <4>3. Cell(a) = ByteOf(value[x], i)
        BY <4>1, <4>2
      <4> QED BY <4>3 DEF i
    <3>3. value[x] \in Words
      BY <1>6
    <3>4. ByteOf(value[x], (a - first) % 4) \in Bytes
      BY <3>1, <3>3, ToBytes
    <3> QED BY <2>3, <3>2, <3>4
  <2> QED BY <2>1, <2>2, <2>3
<1> HIDE DEF Cell, first, n
<1>10. new \in Mem
  BY <1>4, <1>9 DEF Mem
<1>11. \A a \in 0 .. Top - 1 : a \notin first .. first + 4 * n - 1 => new[a] = memory[a]
  BY <1>4, <1>9
<1>12. \A x \in list, i \in 0 .. 3 :
         new[first + Place(list, x) + i]
           = ByteOf(IF x = Rn /\ Place(list, x) # 0
                    THEN After(reg[Rn], up, n) ELSE reg[x], i)
  BY <1>4, <1>7, <1>8
<1> QED BY <1>10, <1>11, <1>12 DEF first, n, new

-----------------------------------------------------------------------------
(* Where blocks lie.  Edge is the end of a stack at a base: where the next *)
(* block begins or ends, and the last one ends or begins.                  *)
Edge(base, pre, up) == (base + (IF pre <=> up THEN 4 ELSE 0)) % WordRange

LEMMA Wraps ==
    ASSUME NEW x \in Int, - WordRange <= x, x < 2 * WordRange
    PROVE  x % WordRange = IF x < 0 THEN x + WordRange
                           ELSE IF x < WordRange THEN x ELSE x - WordRange
<1> DEFINE d == WordRange
<1>1. d \in Nat /\ d > 0
  BY Sizes
<1> HIDE DEF d
<1>2. -d <= x /\ x < 2 * d
  BY DEF d
<1>3. CASE x < 0
  <2>1. x + d \in 0 .. d - 1 /\ x = (-1) * d + (x + d) /\ -1 \in Int
    BY <1>1, <1>2, <1>3
  <2>2. ((-1) * d + (x + d)) % d = x + d
    BY <1>1, <2>1, Divided
  <2> QED BY <1>3, <2>1, <2>2 DEF d
<1>4. CASE 0 <= x /\ x < d
  <2>1. x \in 0 .. d - 1 /\ x = 0 * d + x /\ 0 \in Int
    BY <1>1, <1>4
  <2>2. (0 * d + x) % d = x
    BY <1>1, <2>1, Divided
  <2> QED BY <1>4, <2>1, <2>2 DEF d
<1>5. CASE d <= x
  <2>1. x - d \in 0 .. d - 1 /\ x = 1 * d + (x - d) /\ 1 \in Int
    BY <1>1, <1>2, <1>5
  <2>2. (1 * d + (x - d)) % d = x - d
    BY <1>1, <2>1, Divided
  <2>3. ~(x < 0) /\ ~(x < d)
    BY <1>1, <1>5
  <2> QED BY <2>1, <2>2, <2>3 DEF d
<1>6. x < 0 \/ (0 <= x /\ x < d) \/ d <= x
  BY <1>1
<1> QED BY <1>3, <1>4, <1>5, <1>6

LEMMA Geometry ==
    ASSUME NEW base \in Words, NEW pre \in BOOLEAN, NEW up \in BOOLEAN, NEW n \in Nat,
           First(base, pre, up, n) + 4 * n <= Top
    PROVE  LET first == First(base, pre, up, n)
               top == After(base, up, n)
           IN  /\ up => /\ Edge(base, pre, up) = first
                        /\ Edge(top, pre, up) = first + 4 * n
               /\ ~up => /\ Edge(base, pre, up) = first + 4 * n
                         /\ Edge(top, pre, up) = first
               /\ First(top, ~pre, ~up, n) = first
               /\ After(top, ~up, n) = base
<1> DEFINE d == WordRange
           first == First(base, pre, up, n)
           top == After(base, up, n)
           z == 4 * n
           e == IF pre <=> up THEN 4 ELSE 0
<1>1. /\ d \in Nat /\ d >= 16 /\ Top < d /\ base \in 0 .. d - 1
      /\ \A x \in Int : -d <= x /\ x < 2 * d =>
            x % d = IF x < 0 THEN x + d ELSE IF x < d THEN x ELSE x - d
  <2>1. d >= 16
    <3>1. /\ ByteValues \in Nat /\ ByteValues >= 2 /\ Half = ByteValues * ByteValues
          /\ d = Half * Half
      BY BytePowers, Sizes
    <3>2. ByteValues * ByteValues >= 4
      <4>1. (ByteValues - 2) * (ByteValues - 2) >= 0
        BY <3>1
      <4>2. (ByteValues - 2) * (ByteValues - 2) = ByteValues * ByteValues - 4 * ByteValues + 4
        BY <3>1
      <4> QED BY <3>1, <4>1, <4>2
    <3>3. Half \in Int /\ Half >= 4
      BY <3>1, <3>2
    <3>4. (Half - 4) * (Half - 4) >= 0
      BY <3>3
    <3>5. (Half - 4) * (Half - 4) = Half * Half - 8 * Half + 16
      BY <3>3
    <3>6. Half * Half >= 16
      <4> DEFINE q == Half * Half
      <4>1. q \in Int /\ q - 8 * Half + 16 >= 0
        BY <3>3, <3>4, <3>5
      <4> HIDE DEF q
      <4>2. q >= 16
        BY <3>3, <4>1
      <4> QED BY <4>2 DEF q
    <3> QED BY <3>1, <3>6
  <2>2. \A x \in Int : -d <= x /\ x < 2 * d =>
            x % d = IF x < 0 THEN x + d ELSE IF x < d THEN x ELSE x - d
    BY Wraps
  <2> QED BY <2>1, <2>2, Sizes, TransfersAssumption DEF Words
<1>2. /\ first = (IF up THEN base + (IF pre THEN 4 ELSE 0)
                  ELSE base - z + (IF pre THEN 0 ELSE 4)) % d
      /\ top = (IF up THEN base + z ELSE base - z) % d
  BY Zenon DEF First, After, Moved
<1>3. /\ First(top, ~pre, ~up, n) = (IF up THEN top - z + (IF pre THEN 4 ELSE 0)
                                     ELSE top + (IF pre THEN 0 ELSE 4)) % d
      /\ After(top, ~up, n) = (IF up THEN top - z ELSE top + z) % d
  <2>1. First(top, ~pre, ~up, n) = (IF ~up THEN top + (IF ~pre THEN 4 ELSE 0)
                                     ELSE top - z + (IF ~pre THEN 0 ELSE 4)) % d
    BY Zenon DEF First
  <2>2. After(top, ~up, n) = (IF ~up THEN top + z ELSE top - z) % d
    BY Zenon DEF After, Moved
  <2> QED BY <2>1, <2>2
<1>4. Edge(base, pre, up) = (base + e) % d /\ Edge(top, pre, up) = (top + e) % d
  BY Zenon DEF Edge
<1>5. z \in Nat /\ first \in Words /\ top \in Words
  BY FirstIs
<1>6. first + z <= Top
  OBVIOUS
<1>7. first \in 0 .. d - 1 /\ top \in 0 .. d - 1
  BY <1>5 DEF Words
<1>8. Top \in Nat
  BY TransfersAssumption
<1> HIDE DEF first, top, d, z
<1>9. z < d
  BY <1>1, <1>5, <1>6, <1>7, <1>8
<1>10. CASE up /\ pre
  <2>1. /\ first = (base + 4) % d /\ top = (base + z) % d
        /\ First(top, ~pre, ~up, n) = (top - z + 4) % d /\ After(top, ~up, n) = (top - z) % d
        /\ Edge(base, pre, up) = (base + 4) % d /\ Edge(top, pre, up) = (top + 4) % d
    BY <1>2, <1>3, <1>4, <1>10
  <2>2. /\ first = IF base + 4 < d THEN base + 4 ELSE base + 4 - d
        /\ top = IF base + z < d THEN base + z ELSE base + z - d
    BY <1>1, <1>5, <1>9, <2>1
  <2>3. (top + 4) % d = first + z
    BY <1>1, <1>5, <1>6, <1>7, <1>8, <1>9, <2>2
  <2>4. (top - z + 4) % d = first
    BY <1>1, <1>5, <1>6, <1>7, <1>8, <1>9, <2>2
  <2>5. (top - z) % d = base
    BY <1>1, <1>5, <1>6, <1>7, <1>8, <1>9, <2>2
  <2> QED BY <1>10, <2>1, <2>3, <2>4, <2>5 DEF first, top, z
<1>11. CASE up /\ ~pre
  <2>0. base \in Int /\ top \in Int /\ z \in Int
    BY <1>1, <1>5, <1>7
  <2>1. /\ first = base % d /\ top = (base + z) % d
        /\ First(top, ~pre, ~up, n) = (top - z) % d
        /\ After(top, ~up, n) = (top - z) % d
        /\ Edge(base, pre, up) = base % d
        /\ Edge(top, pre, up) = top % d
    <3>1. first = base % d /\ top = (base + z) % d
      BY <1>2, <1>3, <1>4, <1>11, <2>0
    <3>2. First(top, ~pre, ~up, n) = (top - z) % d
      BY <1>2, <1>3, <1>4, <1>11, <2>0
    <3>3. After(top, ~up, n) = (top - z) % d
      BY <1>2, <1>3, <1>4, <1>11, <2>0
    <3>4. Edge(base, pre, up) = base % d
      BY <1>2, <1>3, <1>4, <1>11, <2>0
    <3>5. Edge(top, pre, up) = top % d
      <4>1. e = 0 /\ top + 0 = top
        BY <1>11, <2>0
      <4>2. Edge(top, pre, up) = (top + e) % d
        BY <1>4
      <4> HIDE DEF e
      <4> QED BY <4>1, <4>2
    <3> QED BY <3>1, <3>2, <3>3, <3>4, <3>5
  <2>2. /\ first = base /\ top = IF base + z < d THEN base + z ELSE base + z - d
    BY <1>1, <1>5, <1>9, <2>1
  <2>3. top % d = first + z
    BY <1>1, <1>5, <1>6, <1>7, <1>8, <1>9, <2>2
  <2>4. (top - z) % d = first
    BY <1>1, <1>5, <1>6, <1>7, <1>8, <1>9, <2>2
  <2> QED BY <1>11, <2>1, <2>2, <2>3, <2>4 DEF first, top, z
<1>12. CASE ~up /\ pre
  <2>0. base \in Int /\ top \in Int /\ z \in Int
    BY <1>1, <1>5, <1>7
  <2>1. /\ first = (base - z) % d /\ top = (base - z) % d
        /\ First(top, ~pre, ~up, n) = top % d
        /\ After(top, ~up, n) = (top + z) % d
        /\ Edge(base, pre, up) = base % d
        /\ Edge(top, pre, up) = top % d
    <3>1. first = (base - z) % d /\ top = (base - z) % d
      BY <1>2, <1>3, <1>4, <1>12, <2>0
    <3>2. First(top, ~pre, ~up, n) = top % d
      BY <1>2, <1>3, <1>4, <1>12, <2>0
    <3>3. After(top, ~up, n) = (top + z) % d
      BY <1>2, <1>3, <1>4, <1>12, <2>0
    <3>4. Edge(base, pre, up) = base % d
      BY <1>2, <1>3, <1>4, <1>12, <2>0
    <3>5. Edge(top, pre, up) = top % d
      <4>1. e = 0 /\ top + 0 = top
        BY <1>12, <2>0
      <4>2. Edge(top, pre, up) = (top + e) % d
        BY <1>4
      <4> HIDE DEF e
      <4> QED BY <4>1, <4>2
    <3> QED BY <3>1, <3>2, <3>3, <3>4, <3>5
  <2>2. first = top /\ top = IF base < z THEN base - z + d ELSE base - z
    BY <1>1, <1>5, <1>9, <2>1
  <2>3. base % d = first + z
    BY <1>1, <1>5, <1>6, <1>7, <1>8, <1>9, <2>2
  <2>4. top % d = first /\ (top + z) % d = base
    BY <1>1, <1>5, <1>6, <1>7, <1>8, <1>9, <2>2
  <2> QED BY <1>12, <2>1, <2>2, <2>3, <2>4 DEF first, top, z
<1>13. CASE ~up /\ ~pre
  <2>1. /\ first = (base - z + 4) % d /\ top = (base - z) % d
        /\ First(top, ~pre, ~up, n) = (top + 4) % d /\ After(top, ~up, n) = (top + z) % d
        /\ Edge(base, pre, up) = (base + 4) % d /\ Edge(top, pre, up) = (top + 4) % d
    BY <1>1, <1>2, <1>3, <1>4, <1>5, <1>7, <1>13
  <2>2. /\ top = IF base < z THEN base - z + d ELSE base - z
        /\ first = IF base - z + 4 < 0 THEN base - z + 4 + d
                   ELSE IF base - z + 4 < d THEN base - z + 4 ELSE (base - z + 4) - d
    <3>1. base - z \in Int /\ -d <= base - z /\ base - z < d
      BY <1>1, <1>5, <1>9
    <3>2. base - z + 4 \in Int /\ -d <= base - z + 4 /\ base - z + 4 < 2 * d
      BY <1>1, <3>1
    <3>3. first = IF base - z + 4 < 0 THEN base - z + 4 + d
                  ELSE IF base - z + 4 < d THEN base - z + 4 ELSE (base - z + 4) - d
      <4> DEFINE x == base - z + 4
      <4>1. first = x % d
        BY <2>1
      <4> HIDE DEF x
      <4>2. x % d = IF x < 0 THEN x + d ELSE IF x < d THEN x ELSE x - d
        BY <1>1, <3>2 DEF x
      <4>3. first = IF x < 0 THEN x + d ELSE IF x < d THEN x ELSE x - d
        BY <4>1, <4>2, Zenon
      <4> QED BY <4>3, Zenon DEF x
    <3>4. top = IF base < z THEN base - z + d ELSE base - z
      BY <1>1, <1>5, <2>1, <3>1
    <3> QED BY <3>3, <3>4
  <2>3. (top + 4) % d = first
    BY <1>1, <1>5, <1>6, <1>7, <1>8, <1>9, <2>2
  <2>4. (base + 4) % d = first + z
    BY <1>1, <1>5, <1>6, <1>7, <1>8, <1>9, <2>2
  <2>5. (top + z) % d = base
    BY <1>1, <1>5, <1>6, <1>7, <1>8, <1>9, <2>2
  <2> QED BY <1>13, <2>1, <2>3, <2>4, <2>5 DEF first, top, z
<1> QED BY <1>10, <1>11, <1>12, <1>13

-----------------------------------------------------------------------------
(* Frames.                                                                 *)
LEMMA FrameIs ==
    ASSUME NEW g \in Growth, NEW f \in Frames, NEW m, Framed(f, m, g)
    PROVE  /\ Origin(f, g) \in Nat /\ Extent(f) \in Nat /\ Origin(f, g) + Extent(f) <= Top
           /\ g.up => /\ Edge(f.base, g.pre, g.up) = Origin(f, g)
                      /\ Edge(f.top, g.pre, g.up) = Origin(f, g) + Extent(f)
           /\ ~g.up => /\ Edge(f.base, g.pre, g.up) = Origin(f, g) + Extent(f)
                       /\ Edge(f.top, g.pre, g.up) = Origin(f, g)
           /\ First(f.top, ~g.pre, ~g.up, Cardinality(f.list)) = Origin(f, g)
           /\ After(f.top, ~g.up, Cardinality(f.list)) = f.base
<1>1. /\ g.pre \in BOOLEAN /\ g.up \in BOOLEAN /\ f.base \in Words
      /\ f.list \in SUBSET Registers
  BY DEF Growth, Frames
<1>2. Cardinality(f.list) \in Nat
  BY <1>1, ListsFinite
<1>3. /\ First(f.base, g.pre, g.up, Cardinality(f.list)) + 4 * Cardinality(f.list) <= Top
      /\ f.top = After(f.base, g.up, Cardinality(f.list))
      /\ Origin(f, g) = First(f.base, g.pre, g.up, Cardinality(f.list))
      /\ Extent(f) = 4 * Cardinality(f.list)
  BY DEF Framed, Origin, Extent
<1>4. Origin(f, g) \in Words
  BY <1>1, <1>2, <1>3, FirstIs
<1>5. Origin(f, g) \in Nat /\ Extent(f) \in Nat /\ Origin(f, g) + Extent(f) <= Top
  BY <1>2, <1>3, <1>4, Sizes DEF Words
<1> DEFINE n == Cardinality(f.list)
           base == f.base
           pre == g.pre
           up == g.up
<1>6. /\ base \in Words /\ pre \in BOOLEAN /\ up \in BOOLEAN /\ n \in Nat
      /\ First(base, pre, up, n) + 4 * n <= Top
  BY <1>1, <1>2, <1>3
<1> HIDE DEF n, base, pre, up
<1>7. /\ up => /\ Edge(base, pre, up) = First(base, pre, up, n)
               /\ Edge(After(base, up, n), pre, up) = First(base, pre, up, n) + 4 * n
      /\ ~up => /\ Edge(base, pre, up) = First(base, pre, up, n) + 4 * n
                /\ Edge(After(base, up, n), pre, up) = First(base, pre, up, n)
      /\ First(After(base, up, n), ~pre, ~up, n) = First(base, pre, up, n)
      /\ After(After(base, up, n), ~up, n) = base
  BY <1>6, Geometry, Zenon
<1> QED BY <1>3, <1>5, <1>7 DEF n, base, pre, up

\* The place of a byte of a frame.
LEMMA FrameCell ==
    ASSUME NEW g \in Growth, NEW f \in Frames, NEW m, Framed(f, m, g),
           NEW x \in f.list, NEW i \in 0 .. 3
    PROVE  /\ Origin(f, g) + Place(f.list, x) + i \in Origin(f, g) .. Origin(f, g) + Extent(f) - 1
           /\ Origin(f, g) + Place(f.list, x) + i \in 0 .. Top - 1
<1>1. /\ f.list \in SUBSET Registers /\ Origin(f, g) \in Nat /\ Origin(f, g) \in Int
      /\ Extent(f) \in Nat /\ Origin(f, g) + Extent(f) <= Top
  BY FrameIs DEF Frames
<1> DEFINE first == Origin(f, g)
           p == Place(f.list, x)
           z == Extent(f)
<1>2. p \in Nat /\ p + 4 <= z
  BY <1>1, PlaceIs DEF Extent
<1> HIDE DEF first, p, z
<1>3. first \in Nat /\ z \in Nat /\ first + z <= Top /\ Top \in Nat
  BY <1>1, TransfersAssumption DEF first, z
<1>4. first + p + i \in first .. first + z - 1 /\ first + p + i \in 0 .. Top - 1
  BY <1>2, <1>3
<1> QED BY <1>4 DEF first, p, z

\* What is written elsewhere leaves it.
LEMMA FrameKept ==
    ASSUME NEW g \in Growth, NEW f \in Frames, NEW m, NEW new, Framed(f, m, g),
           \A a \in 0 .. Top - 1 :
              a \in Origin(f, g) .. Origin(f, g) + Extent(f) - 1 => new[a] = m[a]
    PROVE  Framed(f, new, g)
<1>1. \A x \in f.list, i \in 0 .. 3 :
        new[Origin(f, g) + Place(f.list, x) + i] = m[Origin(f, g) + Place(f.list, x) + i]
  BY FrameCell, Zenon
<1>2. Holds(f, new, g)
  BY <1>1, Zenon DEF Framed, Holds
<1> QED BY <1>2 DEF Framed

LEMMA FrameRead ==
    ASSUME WordsHeld, NEW f \in Frames, Framed(f, memory, growth)
    PROVE  LET r == LoadBlock(f.top, ~growth.pre, ~growth.up, TRUE, Stack, f.list)
           IN  /\ r \in [Registers -> Words]
               /\ r[Stack] = f.base
               /\ \A x \in f.list : r[x] = f.values[x]
<1> DEFINE pre == ~growth.pre
           up == ~growth.up
           n == Cardinality(f.list)
           r == LoadBlock(f.top, pre, up, TRUE, Stack, f.list)
           first == Origin(f, growth)
<1>1. /\ growth \in Growth /\ pre \in BOOLEAN /\ up \in BOOLEAN /\ TRUE \in BOOLEAN
      /\ memory \in Mem
  BY DEF WordsHeld, Growth
<1>2. f.list \in SUBSET Registers /\ f.top \in Words
  BY DEF Frames
<1>3. /\ first \in Nat /\ first + 4 * n <= Top
      /\ First(f.top, pre, up, n) = first /\ After(f.top, up, n) = f.base
  BY <1>1, FrameIs DEF Extent
<1>4. /\ f.values \in [f.list -> Words] /\ (Stack \in f.list => f.values[Stack] = f.base)
      /\ \A x \in f.list, i \in 0 .. 3 :
           memory[first + Place(f.list, x) + i] = ByteOf(f.values[x], i)
  BY Zenon DEF Framed, Holds
<1> HIDE DEF pre, up, first
<1>5. First(f.top, pre, up, n) + 4 * n <= Top
  BY <1>3
<1>6. /\ r \in [Registers -> Words]
      /\ \A x \in f.list :
           r[x] = ReadToSize(memory, First(f.top, pre, up, n) + Place(f.list, x), 4)
      /\ Stack \notin f.list => r[Stack] = After(f.top, up, n)
  <2>1. BlockLoaded(f.top, pre, up, TRUE, f.list)
    BY <1>1, <1>2, <1>5, BlockLoad, Zenon
  <2> QED BY <2>1, Zenon DEF BlockLoaded
<1> HIDE DEF r
<1>7. ASSUME NEW x \in f.list
      PROVE  r[x] = f.values[x]
  <2>1. r[x] = ReadToSize(memory, first + Place(f.list, x), 4)
    BY <1>3, <1>6
  <2>2. f.values[x] \in Words
    BY <1>4
  <2>3. \A i \in 0 .. 3 : memory[first + Place(f.list, x) + i] = ByteOf(f.values[x], i)
    BY <1>4
  <2>4. first + 4 * Cardinality(f.list) <= Top
    BY <1>3
  <2>5. ReadToSize(memory, first + Place(f.list, x), 4) = f.values[x]
    BY <1>1, <1>2, <1>3, <2>2, <2>3, <2>4, BlockRead, Zenon
  <2> QED BY <2>1, <2>5
<1>8. r[Stack] = f.base
  BY <1>3, <1>4, <1>6, <1>7
<1> QED BY <1>6, <1>7, <1>8 DEF r, pre, up

-----------------------------------------------------------------------------
(* The stack.                                                              *)
LEMMA InvHolds == TransfersInv => StackHolds
<1> SUFFICES ASSUME TransfersInv, NEW k \in 1 .. Len(frames)
             PROVE  LET f == frames[k]
                        r == LoadBlock(f.top, ~growth.pre, ~growth.up, TRUE, Stack, f.list)
                    IN  /\ f.top = IF k = 1 THEN reg[Stack] ELSE frames[k - 1].base
                        /\ r[Stack] = f.base
                        /\ \A x \in f.list : r[x] = f.values[x]
  BY DEF StackHolds
<1> DEFINE f == frames[k]
<1>1. /\ WordsHeld /\ f \in Frames /\ Framed(f, memory, growth)
      /\ f.top = IF k = 1 THEN reg[Stack] ELSE frames[k - 1].base
  BY DEF TransfersInv, StackInv, Stacked
<1> HIDE DEF f
<1>2. LET r == LoadBlock(f.top, ~growth.pre, ~growth.up, TRUE, Stack, f.list)
      IN  r[Stack] = f.base /\ \A x \in f.list : r[x] = f.values[x]
  BY <1>1, FrameRead
<1> QED BY <1>1, <1>2 DEF f

LEMMA Joined ==
    ASSUME NEW S, NEW e \in S, NEW s \in Seq(S)
    PROVE  /\ <<e>> \o s \in Seq(S) /\ Len(<<e>> \o s) = Len(s) + 1 /\ Len(s) \in Nat
           /\ (<<e>> \o s)[1] = e
           /\ \A k \in 1 .. Len(s) : (<<e>> \o s)[k + 1] = s[k]
OBVIOUS

LEMMA Tails ==
    ASSUME NEW S, NEW s \in Seq(S), s # << >>
    PROVE  /\ Tail(s) \in Seq(S) /\ Len(Tail(s)) = Len(s) - 1 /\ Len(s) \in Nat /\ Len(s) >= 1
           /\ Head(s) = s[1]
           /\ \A k \in 1 .. Len(s) - 1 : Tail(s)[k] = s[k + 1]
OBVIOUS

(* A frame stored at the base, above the others or below.                  *)
LEMMA StackedPush ==
    ASSUME NEW s \in Seq(Frames), NEW m, NEW new, NEW g \in Growth, NEW sp,
           Stacked(s, m, g, sp),
           NEW f \in Frames, Framed(f, new, g), f.base = sp,
           \A a \in 0 .. Top - 1 :
              a \notin Origin(f, g) .. Origin(f, g) + Extent(f) - 1 => new[a] = m[a]
    PROVE  Stacked(<<f>> \o s, new, g, f.top)
<1> DEFINE t == <<f>> \o s
<1>1. /\ t \in Seq(Frames) /\ Len(t) = Len(s) + 1 /\ Len(s) \in Nat /\ t[1] = f
      /\ \A k \in 1 .. Len(s) : t[k + 1] = s[k]
  BY Joined
<1> HIDE DEF t
<1>2. \A k \in 1 .. Len(t) : k = 1 \/ (k - 1 \in 1 .. Len(s) /\ t[k] = s[k - 1])
  <2> TAKE k \in 1 .. Len(t)
  <2>1. CASE k # 1
    <3>1. k - 1 \in 1 .. Len(s) /\ (k - 1) + 1 = k
      BY <1>1, <2>1
    <3>2. t[(k - 1) + 1] = s[k - 1]
      BY <1>1, <3>1
    <3> QED BY <3>1, <3>2
  <2> QED BY <2>1
<1>3. \A k \in 1 .. Len(s) :
         /\ s[k] \in Frames /\ Framed(s[k], m, g)
         /\ s[k].top = IF k = 1 THEN sp ELSE s[k - 1].base
  BY DEF Stacked
<1>4. \A j, k \in 1 .. Len(s) : j < k => Apart(s[j], s[k], g)
  BY DEF Stacked
<1>5. /\ Origin(f, g) \in Nat /\ Extent(f) \in Nat
      /\ g.up => Edge(sp, g.pre, g.up) = Origin(f, g)
      /\ ~g.up => Edge(sp, g.pre, g.up) = Origin(f, g) + Extent(f)
  BY FrameIs
<1>6. ASSUME NEW k \in 1 .. Len(s)
      PROVE  Apart(f, s[k], g)
  <2>1. 1 \in 1 .. Len(s) /\ s[1].top = sp
    BY <1>1, <1>3
  <2>2. /\ s[1] \in Frames /\ Framed(s[1], m, g) /\ s[k] \in Frames /\ Framed(s[k], m, g)
    BY <1>3, <2>1
  <2>3. /\ Origin(s[1], g) \in Nat /\ Extent(s[1]) \in Nat
        /\ g.up => Edge(sp, g.pre, g.up) = Origin(s[1], g) + Extent(s[1])
        /\ ~g.up => Edge(sp, g.pre, g.up) = Origin(s[1], g)
    BY <2>1, <2>2, FrameIs
  <2>4. Origin(s[k], g) \in Nat /\ Extent(s[k]) \in Nat
    BY <2>2, FrameIs
  <2>5. k = 1 \/ Apart(s[1], s[k], g)
    BY <1>1, <1>4, <2>1
  <2>6. CASE k = 1
    BY <1>5, <2>3, <2>6 DEF Apart
  <2>7. CASE Apart(s[1], s[k], g)
    BY <1>5, <2>3, <2>4, <2>7 DEF Apart
  <2> QED BY <2>5, <2>6, <2>7
<1>7. ASSUME NEW k \in 1 .. Len(s)
      PROVE  Framed(s[k], new, g)
  <2>1. s[k] \in Frames /\ Framed(s[k], m, g)
    BY <1>3
  <2> DEFINE x == Origin(s[k], g)
             z == Extent(s[k])
             y == Origin(f, g)
             w == Extent(f)
  <2>2. x \in Nat /\ z \in Nat /\ y \in Nat /\ w \in Nat
    BY <1>5, <2>1, FrameIs
  <2>3. x + z <= y \/ y + w <= x
    BY <1>6 DEF Apart
  <2> HIDE DEF x, y, z, w
  <2>4. \A a \in 0 .. Top - 1 : a \in x .. x + z - 1 => a \notin y .. y + w - 1
    BY <2>2, <2>3
  <2>5. \A a \in 0 .. Top - 1 : a \in x .. x + z - 1 => new[a] = m[a]
    BY <2>4 DEF y, w
  <2> QED BY <2>1, <2>5, FrameKept DEF x, z
<1>8. ASSUME NEW k \in 1 .. Len(t)
      PROVE  Framed(t[k], new, g) /\ t[k].top = IF k = 1 THEN f.top ELSE t[k - 1].base
  <2>1. CASE k = 1
    BY <1>1, <2>1
  <2>2. CASE k # 1
    <3>1. k - 1 \in 1 .. Len(s) /\ t[k] = s[k - 1]
      BY <1>2, <2>2
    <3>2. t[k].top = IF k - 1 = 1 THEN sp ELSE s[(k - 1) - 1].base
      BY <1>3, <3>1
    <3>3. CASE k - 1 = 1
      <4>1. t[k - 1] = f
        BY <1>1, <3>3
      <4> QED BY <1>7, <2>2, <3>1, <3>2, <3>3, <4>1
    <3>4. CASE k - 1 # 1
      <4>1. k - 1 \in 1 .. Len(t)
        BY <1>1, <3>1
      <4>2. t[k - 1] = s[(k - 1) - 1]
        BY <1>2, <3>4, <4>1
      <4> QED BY <1>7, <2>2, <3>1, <3>2, <3>4, <4>2
    <3> QED BY <3>3, <3>4
  <2> QED BY <2>1, <2>2
<1>9. ASSUME NEW j \in 1 .. Len(t), NEW k \in 1 .. Len(t), j < k
      PROVE  Apart(t[j], t[k], g)
  <2>1. k # 1
    BY <1>9
  <2>2. k - 1 \in 1 .. Len(s) /\ t[k] = s[k - 1]
    BY <1>2, <2>1
  <2>3. CASE j = 1
    BY <1>1, <1>6, <2>2, <2>3
  <2>4. CASE j # 1
    <3>1. j - 1 \in 1 .. Len(s) /\ t[j] = s[j - 1] /\ j - 1 < k - 1
      BY <1>2, <1>9, <2>4
    <3> QED BY <1>4, <2>2, <3>1
  <2> QED BY <2>3, <2>4
<1>10. Stacked(t, new, g, f.top)
  BY <1>8, <1>9 DEF Stacked
<1> QED BY <1>10 DEF t

(* The last frame is taken off and gives the base it had.                  *)
LEMMA StackedPop ==
    ASSUME NEW s \in Seq(Frames), NEW m, NEW g, NEW sp, Stacked(s, m, g, sp), s # << >>
    PROVE  Stacked(Tail(s), m, g, s[1].base)
<1> DEFINE t == Tail(s)
<1>1. /\ Len(t) = Len(s) - 1 /\ Len(s) \in Nat /\ Len(s) >= 1
      /\ \A k \in 1 .. Len(s) - 1 : t[k] = s[k + 1]
  BY Tails
<1> HIDE DEF t
<1>2. \A k \in 1 .. Len(s) :
         Framed(s[k], m, g) /\ s[k].top = IF k = 1 THEN sp ELSE s[k - 1].base
  BY DEF Stacked
<1>3. \A j, k \in 1 .. Len(s) : j < k => Apart(s[j], s[k], g)
  BY DEF Stacked
<1>4. ASSUME NEW k \in 1 .. Len(t)
      PROVE  Framed(t[k], m, g) /\ t[k].top = IF k = 1 THEN s[1].base ELSE t[k - 1].base
  <2>1. k + 1 \in 1 .. Len(s) /\ t[k] = s[k + 1] /\ k + 1 # 1 /\ (k + 1) - 1 = k
    BY <1>1
  <2>2. Framed(s[k + 1], m, g) /\ s[k + 1].top = s[(k + 1) - 1].base
    BY <1>2, <2>1
  <2>3. k = 1 \/ t[k - 1] = s[k]
    <3>1. CASE k # 1
      <4>1. k - 1 \in 1 .. Len(s) - 1 /\ (k - 1) + 1 = k
        BY <1>1, <3>1
      <4>2. t[k - 1] = s[(k - 1) + 1]
        BY <1>1, <4>1
      <4> QED BY <4>1, <4>2
    <3> QED BY <3>1
  <2> QED BY <2>1, <2>2, <2>3
<1>5. ASSUME NEW j \in 1 .. Len(t), NEW k \in 1 .. Len(t), j < k
      PROVE  Apart(t[j], t[k], g)
  <2>1. /\ j + 1 \in 1 .. Len(s) /\ t[j] = s[j + 1] /\ k + 1 \in 1 .. Len(s) /\ t[k] = s[k + 1]
        /\ j + 1 < k + 1
    BY <1>1, <1>5
  <2> QED BY <1>3, <2>1
<1> QED BY <1>4, <1>5 DEF Stacked, t

-----------------------------------------------------------------------------
(* The steps.                                                              *)
LEMMA PushKeeps ==
    ASSUME TransfersInv, NEW list \in SUBSET Registers, list # {},
           Stack \in list => Place(list, Stack) = 0,
           ArmBlockDataTransfer(FALSE, growth.pre, growth.up, TRUE, Stack, list),
           frames' = <<[list |-> list, base |-> reg[Stack], top |-> reg'[Stack],
                        values |-> [r \in list |-> reg[r]]]>> \o frames
    PROVE  TransfersInv'
<1> DEFINE g == growth
           n == Cardinality(list)
           base == reg[Stack]
           top == After(base, g.up, n)
           values == [r \in list |-> reg[r]]
           f == [list |-> list, base |-> base, top |-> reg'[Stack], values |-> values]
           first == First(base, g.pre, g.up, n)
           new == StoreBlock(g.pre, g.up, Stack, list)
<1>13. frames' = <<f>> \o frames
  OBVIOUS
<1>1. /\ WordsHeld /\ LoadsExact /\ frames \in Seq(Frames) /\ Stacked(frames, memory, g, base)
      /\ reg \in [Registers -> Words] /\ g \in Growth
  BY DEF TransfersInv, StackInv, WordsHeld, Growth
<1>2. /\ first + 4 * n <= Top /\ UNCHANGED <<growth, loaded>> /\ memory' = new
      /\ reg' = [reg EXCEPT ![Stack] = After(@, g.up, n)]
  BY DEF ArmBlockDataTransfer, Within
<1>3. Stack \in Registers /\ base \in Words /\ g.pre \in BOOLEAN /\ g.up \in BOOLEAN /\ n \in Nat
  BY <1>1, TransfersAssumption, ListsFinite DEF Growth
<1>4. top \in Words
  BY <1>3, FirstIs
<1>5. reg' \in [Registers -> Words] /\ reg'[Stack] = top
  <2> HIDE DEF top
  <2>1. reg' = [reg EXCEPT ![Stack] = top]
    BY <1>2 DEF top
  <2> QED BY <1>1, <1>3, <1>4, <2>1
<1>6. \A x \in list : reg[x] \in Words /\ values[x] = reg[x]
  BY <1>1
<1>7. values \in [list -> Words]
  BY <1>6
<1>8. /\ new \in Mem
      /\ \A a \in 0 .. Top - 1 : a \notin first .. first + 4 * n - 1 => new[a] = memory[a]
      /\ \A x \in list, i \in 0 .. 3 :
           new[first + Place(list, x) + i]
             = ByteOf(IF x = Stack /\ Place(list, x) # 0 THEN top ELSE reg[x], i)
  BY <1>1, <1>2, <1>3, BlockStore
<1> HIDE DEF values, g, new, top
<1>9. f \in Frames /\ f.list = list /\ f.base = base /\ f.top = top /\ f.values = values
  <2>1. values \in UNION {[l -> Words] : l \in SUBSET Registers}
    BY <1>7
  <2> QED BY <1>3, <1>4, <1>5, <2>1 DEF Frames
<1> HIDE DEF f, base
<1>10. Origin(f, g) = first /\ Extent(f) = 4 * n
  BY <1>9 DEF Origin, Extent
<1>11. Framed(f, new, g)
  <2>1. ASSUME NEW x \in list, NEW i \in 0 .. 3
        PROVE  new[first + Place(list, x) + i] = ByteOf(values[x], i)
    <3>1. (IF x = Stack /\ Place(list, x) # 0 THEN top ELSE reg[x]) = values[x]
      BY <1>6
    <3>2. new[first + Place(list, x) + i]
            = ByteOf(IF x = Stack /\ Place(list, x) # 0 THEN top ELSE reg[x], i)
      BY <1>8
    <3> QED BY <3>1, <3>2, Zenon
  <2> HIDE DEF first
  <2>2. Holds(f, new, g)
    BY <1>9, <1>10, <2>1, Zenon DEF Holds
  <2>3. Stack \in list => values[Stack] = base
    BY <1>6 DEF base
  <2>4. f.top = After(f.base, g.up, Cardinality(f.list))
    BY <1>9 DEF top
  <2>5. Origin(f, g) + Extent(f) <= Top
    BY <1>2, <1>10 DEF first
  <2> QED BY <1>7, <1>9, <2>2, <2>3, <2>4, <2>5 DEF Framed
<1>12. Stacked(<<f>> \o frames, new, g, f.top)
  <2>1. \A a \in 0 .. Top - 1 :
           a \notin Origin(f, g) .. Origin(f, g) + Extent(f) - 1 => new[a] = memory[a]
    BY <1>8, <1>10
  <2> QED BY <1>1, <1>9, <1>11, <2>1, StackedPush
<1>14. frames' \in Seq(Frames)
  <2>1. <<f>> \o frames \in Seq(Frames)
    BY <1>1, <1>9, Joined
  <2> QED BY <1>13, <2>1
<1>15. growth' = g /\ memory' = new /\ reg'[Stack] = f.top
  BY <1>2, <1>5, <1>9 DEF g
<1>16. Stacked(frames', memory', growth', reg'[Stack])
  BY <1>12, <1>13, <1>15
<1>17. StackInv'
  BY <1>14, <1>16 DEF StackInv
<1>18. WordsHeld'
  BY <1>1, <1>5, <1>8, <1>15 DEF WordsHeld, Growth
<1>19. LoadsExact'
  BY <1>1, <1>2 DEF LoadsExact
<1> QED BY <1>17, <1>18, <1>19 DEF TransfersInv

LEMMA PopKeeps ==
    ASSUME TransfersInv, Pop
    PROVE  TransfersInv'
<1> DEFINE f == frames[1]
           new == LoadBlock(reg[Stack], ~growth.pre, ~growth.up, TRUE, Stack, Head(frames).list)
<1>1. /\ WordsHeld /\ LoadsExact /\ frames \in Seq(Frames)
      /\ Stacked(frames, memory, growth, reg[Stack])
  BY DEF TransfersInv, StackInv
<1>2. /\ frames # << >> /\ frames' = Tail(frames) /\ reg' = new
      /\ UNCHANGED <<growth, loaded, memory>>
  BY DEF Pop, ArmBlockDataTransfer
<1>3. /\ Head(frames) = f /\ Len(frames) \in Nat /\ Len(frames) >= 1
      /\ Tail(frames) \in Seq(Frames)
  BY <1>1, <1>2, Tails
<1>4. 1 \in 1 .. Len(frames)
  BY <1>3
<1>5. f \in Frames /\ Framed(f, memory, growth) /\ f.top = reg[Stack]
  BY <1>1, <1>4 DEF Stacked
<1> HIDE DEF f
<1>6. new = LoadBlock(f.top, ~growth.pre, ~growth.up, TRUE, Stack, f.list)
  BY <1>3, <1>5
<1> HIDE DEF new
<1>7. new \in [Registers -> Words] /\ new[Stack] = f.base
  BY <1>1, <1>5, <1>6, FrameRead
<1>8. Stacked(Tail(frames), memory, growth, f.base)
  BY <1>1, <1>2, StackedPop DEF f
<1>9. Stacked(frames', memory', growth', reg'[Stack])
  BY <1>2, <1>7, <1>8
<1>10. StackInv'
  BY <1>2, <1>3, <1>9 DEF StackInv
<1>11. WordsHeld'
  BY <1>1, <1>2, <1>7 DEF WordsHeld
<1>12. LoadsExact'
  BY <1>1, <1>2 DEF LoadsExact
<1> QED BY <1>10, <1>11, <1>12 DEF TransfersInv

LEMMA PeekKeeps ==
    ASSUME TransfersInv, Peek
    PROVE  TransfersInv'
<1> DEFINE list == Head(frames).list \ {Stack}
           pre == ~growth.pre
           up == ~growth.up
           new == LoadBlock(reg[Stack], pre, up, FALSE, Stack, list)
<1>1. /\ WordsHeld /\ LoadsExact /\ frames \in Seq(Frames)
      /\ Stacked(frames, memory, growth, reg[Stack])
  BY DEF TransfersInv, StackInv
<1>2. /\ frames # << >> /\ reg' = new /\ UNCHANGED <<growth, loaded, memory, frames>>
      /\ First(reg[Stack], pre, up, Cardinality(list)) + 4 * Cardinality(list) <= Top
  BY DEF Peek, ArmBlockDataTransfer, Within
<1>3. list \in SUBSET Registers
  <2>1. Head(frames) \in Frames
    BY <1>1, <1>2
  <2> QED BY <2>1 DEF Frames
<1>4. /\ reg[Stack] \in Words /\ pre \in BOOLEAN /\ up \in BOOLEAN /\ FALSE \in BOOLEAN
      /\ Stack \notin list
  BY <1>1, TransfersAssumption DEF WordsHeld
<1> HIDE DEF list, pre, up
<1>5. BlockLoaded(reg[Stack], pre, up, FALSE, list)
  BY <1>1, <1>2, <1>3, <1>4, BlockLoad, Zenon
<1>6. new \in [Registers -> Words] /\ new[Stack] = reg[Stack]
  <2>1. new \in [Registers -> Words]
    BY <1>5, Zenon DEF BlockLoaded
  <2>2. new[Stack] = IF FALSE THEN After(reg[Stack], up, Cardinality(list)) ELSE reg[Stack]
    BY <1>4, <1>5, Zenon DEF BlockLoaded
  <2> QED BY <2>1, <2>2
<1> HIDE DEF new
<1>7. StackInv'
  BY <1>1, <1>2, <1>6 DEF StackInv
<1>8. WordsHeld'
  BY <1>1, <1>2, <1>6 DEF WordsHeld
<1>9. LoadsExact'
  BY <1>1, <1>2 DEF LoadsExact
<1> QED BY <1>7, <1>8, <1>9 DEF TransfersInv

LEMMA ClobberKeeps ==
    ASSUME TransfersInv, Clobber
    PROVE  TransfersInv'
<1>1. PICK r \in Registers \ {Stack}, value \in Values :
         reg' = [reg EXCEPT ![r] = value] /\ UNCHANGED <<memory, growth, frames, loaded>>
  BY DEF Clobber
<1>2. /\ WordsHeld /\ LoadsExact /\ StackInv /\ value \in Words /\ r # Stack
      /\ reg \in [Registers -> Words] /\ Stack \in Registers
  BY TransfersAssumption DEF TransfersInv, WordsHeld
<1>3. reg' \in [Registers -> Words] /\ reg'[Stack] = reg[Stack]
  BY <1>1, <1>2
<1>4. StackInv'
  BY <1>1, <1>2, <1>3 DEF StackInv
<1>5. WordsHeld'
  BY <1>1, <1>2, <1>3 DEF WordsHeld
<1>6. LoadsExact'
  BY <1>1, <1>2 DEF LoadsExact
<1> QED BY <1>4, <1>5, <1>6 DEF TransfersInv

LEMMA EmptyKeeps ==
    ASSUME frames = << >>, UNCHANGED frames, WordsHeld', LoadsExact'
    PROVE  TransfersInv'
<1>1. frames' \in Seq(Frames) /\ Len(frames') = 0
  OBVIOUS
<1>2. Stacked(frames', memory', growth', reg'[Stack])
  <2>1. \A k \in 1 .. Len(frames') : FALSE
    BY <1>1
  <2> QED BY <2>1, Zenon DEF Stacked
<1> QED BY <1>1, <1>2 DEF TransfersInv, StackInv

LEMMA TransfersStart == InitTransfers => TransfersInv
<1> SUFFICES ASSUME InitTransfers
             PROVE  TransfersInv
  OBVIOUS
<1>1. reg \in [Registers -> Words]
  BY TransfersAssumption DEF InitTransfers
<1>2. memory \in Mem
  BY TransfersAssumption DEF InitTransfers, Mem, Bytes
<1>3. WordsHeld
  BY <1>1, <1>2 DEF WordsHeld, InitTransfers
<1>4. LoadsExact
  BY DEF LoadsExact, InitTransfers
<1>5. frames \in Seq(Frames) /\ Len(frames) = 0
  BY DEF InitTransfers
<1>6. Stacked(frames, memory, growth, reg[Stack])
  <2>1. \A k \in 1 .. Len(frames) : FALSE
    BY <1>5
  <2> QED BY <2>1, Zenon DEF Stacked
<1> QED BY <1>3, <1>4, <1>5, <1>6 DEF TransfersInv, StackInv

LEMMA TransfersStep == TransfersInv /\ [NextTransfer]_transferVars => TransfersInv'
<1> SUFFICES ASSUME TransfersInv, [NextTransfer]_transferVars
             PROVE  TransfersInv'
  OBVIOUS
<1>1. WordsHeld /\ LoadsExact
  BY DEF TransfersInv
<1>2. CASE Single
  <2>1. frames = << >>
    BY <1>2 DEF Single
  <2>2. PICK Rn, Rd \in Registers, offset \in Offsets, load, pre, up, writeback \in BOOLEAN :
          \/ \E byte \in BOOLEAN :
               ArmSingleDataTransfer(load, byte, pre, up, writeback, Rn, Rd, offset)
          \/ \E half, signed \in BOOLEAN :
               ArmHalfwordDT(load, half, signed, pre, up, writeback, Rn, Rd, offset)
    BY <1>2, Zenon DEF Single
  <2>3. WordsHeld' /\ LoadsExact' /\ UNCHANGED frames
    <3>1. CASE \E byte \in BOOLEAN :
                 ArmSingleDataTransfer(load, byte, pre, up, writeback, Rn, Rd, offset)
      <4>1. PICK byte \in BOOLEAN :
               ArmSingleDataTransfer(load, byte, pre, up, writeback, Rn, Rd, offset)
        BY <3>1
      <4> QED BY <1>1, <4>1, SingleKeeps
    <3>2. CASE \E half, signed \in BOOLEAN :
                 ArmHalfwordDT(load, half, signed, pre, up, writeback, Rn, Rd, offset)
      <4>1. PICK half, signed \in BOOLEAN :
               ArmHalfwordDT(load, half, signed, pre, up, writeback, Rn, Rd, offset)
        BY <3>2
      <4>2. half \in BOOLEAN /\ signed \in BOOLEAN
        OBVIOUS
      <4>3. WordsHeld' /\ LoadsExact' /\ UNCHANGED frames
        BY <1>1, <4>1, <4>2, HalfwordKeeps, SMTT(60)
      <4> QED BY <4>3
    <3> QED BY <2>2, <3>1, <3>2
  <2> QED BY <2>1, <2>3, EmptyKeeps
<1>3. CASE Swap
  <2>1. frames = << >>
    BY <1>3 DEF Swap
  <2>2. WordsHeld' /\ LoadsExact' /\ UNCHANGED frames
    BY <1>1, <1>3, SwapKeeps, Zenon DEF Swap
  <2> QED BY <2>1, <2>2, EmptyKeeps
<1>4. CASE Push
  <2>1. PICK list \in SUBSET Registers :
          /\ Stack \in list => Place(list, Stack) = 0
          /\ ArmBlockDataTransfer(FALSE, growth.pre, growth.up, TRUE, Stack, list)
          /\ frames' = <<[list |-> list, base |-> reg[Stack], top |-> reg'[Stack],
                          values |-> [r \in list |-> reg[r]]]>> \o frames
    BY <1>4, Zenon DEF Push
  <2>2. list # {}
    BY <2>1, Zenon DEF ArmBlockDataTransfer
  <2> QED BY <2>1, <2>2, PushKeeps
<1>5. CASE Pop
  BY <1>5, PopKeeps
<1>6. CASE Peek
  BY <1>6, PeekKeeps
<1>7. CASE Clobber
  BY <1>7, ClobberKeeps
<1>8. CASE UNCHANGED transferVars
  BY <1>8 DEF transferVars, TransfersInv, WordsHeld, LoadsExact, StackInv
<1> QED BY <1>2, <1>3, <1>4, <1>5, <1>6, <1>7, <1>8 DEF NextTransfer

LEMMA TransfersAlways == TransfersSpec => []TransfersInv
BY TransfersStart, TransfersStep, PTL DEF TransfersSpec

(* Every load of ArmSingleDataTransfer, ArmHalfwordDT and                  *)
(* ArmSingleDataSwap gives the bytes from its address on, with the sign or *)
(* the zeros above them and the rotation of an address that is not         *)
(* aligned; for words of bytes of up to 8 bits, any memory, base, offset   *)
(* and registers.                                                          *)
THEOREM LoadsRight == TransfersSpec => []LoadsExact
<1>1. TransfersInv => LoadsExact
  BY DEF TransfersInv
<1> QED BY <1>1, TransfersAlways, PTL

(* What ArmBlockDataTransfer stores on a stack of any of the four kinds,   *)
(* the opposite kind loads: every register and the base come back, for     *)
(* frames of any number and size, bases of any alignment, and lists with   *)
(* the base as their lowest register or without it.                        *)
THEOREM StacksHold == TransfersSpec => []StackHolds
BY InvHolds, TransfersAlways, PTL
=============================================================================
