----------------------------- MODULE GBAProofs -----------------------------
(***************************************************************************)
(* Proofs about GBA.tla: that the main loop is an environment DMA.tla      *)
(* allows, for every geometry of the display, every length of a pass and   *)
(* everything the program stores.  And about what that display draws: in   *)
(* Objects.tla for every screen, every OAM and every tile data, in         *)
(* Layers.tla for all registers, all rows and all frames of objects, and   *)
(* in Backgrounds.tla for every map, every scrolling and every matrix.     *)
(***************************************************************************)
EXTENDS GBA, Objects, Layers, Backgrounds, NaturalsInduction, WellFoundedInduction,
        TLAPS

\* What is proved about the display on its own, used for the loop's display.
PP == INSTANCE PPUProofs WITH frameTicks <- 0, lines <- << >>,
                              touched <- FALSE, clobbered <- {}

(* The display of the loop is the display of those proofs: their operators *)
(* are the same, one by one.                                               *)
LEMMA SameFields == Ppu!Fields = PP!Fields /\ Ppu!NoCalls = PP!NoCalls
BY DEF Ppu!Fields, PP!Fields, Ppu!States, PP!States, Ppu!DispStatBits,
       PP!DispStatBits, Ppu!Flags, PP!Flags, Ppu!Enables, PP!Enables,
       Ppu!Calls, PP!Calls, Ppu!NoCalls, PP!NoCalls

LEMMA SameGeometry ==
    /\ Ppu!CYCLES_PER_LINE = PP!CYCLES_PER_LINE
    /\ Ppu!TOTAL_LINES = PP!TOTAL_LINES
    /\ \A state : Ppu!Threshold(state) = PP!Threshold(state)
BY DEF Ppu!CYCLES_PER_LINE, PP!CYCLES_PER_LINE, Ppu!TOTAL_LINES, PP!TOTAL_LINES,
       Ppu!Threshold, PP!Threshold

LEMMA SameAssumptions == PP!PPUAssumption /\ PP!PPUBatchAssumption
BY ComponentAssumptions, SameGeometry
   DEF Ppu!DispStatBits, PP!DispStatBits, Ppu!Flags, PP!Flags, Ppu!Enables, PP!Enables

LEMMA SameUpdate ==
    \A p, flag, set : Ppu!UpdateDispStat(p, flag, set) = PP!UpdateDispStat(p, flag, set)
BY DEF Ppu!UpdateDispStat, PP!UpdateDispStat

LEMMA SameRequest ==
    \A p, enable, name :
        Ppu!RequestIfEnabled(p, enable, name) = PP!RequestIfEnabled(p, enable, name)
BY DEF Ppu!RequestIfEnabled, PP!RequestIfEnabled

LEMMA SameIncrement == \A p : Ppu!IncrementVCount(p) = PP!IncrementVCount(p)
BY SameUpdate, SameRequest DEF Ppu!IncrementVCount, PP!IncrementVCount

LEMMA SameToHBlank == \A p : Ppu!ToHBlank(p) = PP!ToHBlank(p)
BY SameUpdate, SameRequest DEF Ppu!ToHBlank, PP!ToHBlank

LEMMA SameToVBlank == \A p : Ppu!ToVBlank(p) = PP!ToVBlank(p)
BY SameUpdate, SameRequest DEF Ppu!ToVBlank, PP!ToVBlank

LEMMA SameHBlankFinish == \A p : Ppu!OnHBlankFinish(p) = PP!OnHBlankFinish(p)
<1> TAKE p
<1> DEFINE q == [p EXCEPT !.tickCount = @ - CYCLES_PER_HBLANK,
                          !.calls.hBlankCallback = {FALSE}]
           r == Ppu!IncrementVCount(Ppu!UpdateDispStat(q, "HBlankFlag", FALSE))
           s == PP!IncrementVCount(PP!UpdateDispStat(q, "HBlankFlag", FALSE))
<1>1. r = s
  BY SameUpdate, SameIncrement
<1>2. /\ Ppu!OnHBlankFinish(p) =
           IF r.vcount >= VISIBLE_LINES THEN Ppu!ToVBlank(r)
           ELSE [r EXCEPT !.state = "Visible"]
      /\ PP!OnHBlankFinish(p) =
           IF s.vcount >= VISIBLE_LINES THEN PP!ToVBlank(s)
           ELSE [s EXCEPT !.state = "Visible"]
  BY DEF Ppu!OnHBlankFinish, PP!OnHBlankFinish
<1> HIDE DEF r, s
<1> QED BY <1>1, <1>2, SameToVBlank

LEMMA SameVBlankLineFinish ==
    \A p : Ppu!OnVBlankLineFinish(p) = PP!OnVBlankLineFinish(p)
<1> TAKE p
<1> DEFINE u == Ppu!IncrementVCount([p EXCEPT !.tickCount = @ - Ppu!CYCLES_PER_LINE])
           q == PP!IncrementVCount([p EXCEPT !.tickCount = @ - PP!CYCLES_PER_LINE])
           s == IF u.vcount = Ppu!TOTAL_LINES - 1
                THEN Ppu!UpdateDispStat(u, "VBlankFlag", FALSE) ELSE u
           r == IF q.vcount = PP!TOTAL_LINES - 1
                THEN PP!UpdateDispStat(q, "VBlankFlag", FALSE) ELSE q
<1>1. u = q
  BY SameIncrement, SameGeometry
<1>2. /\ Ppu!OnVBlankLineFinish(p) =
           IF u.vcount >= Ppu!TOTAL_LINES
           THEN [s EXCEPT !.vcount = 0, !.state = "Visible",
                          !.calls.vBlankCallback = {FALSE}]
           ELSE s
      /\ PP!OnVBlankLineFinish(p) =
           IF q.vcount >= PP!TOTAL_LINES
           THEN [r EXCEPT !.vcount = 0, !.state = "Visible",
                          !.calls.vBlankCallback = {FALSE}]
           ELSE r
  BY DEF Ppu!OnVBlankLineFinish, PP!OnVBlankLineFinish
<1> HIDE DEF u, q
<1>3. s = r
  BY <1>1, SameUpdate, SameGeometry
<1> HIDE DEF s, r
<1> QED BY <1>1, <1>2, <1>3, SameGeometry

LEMMA SameExecute ==
    \A p, ticks : Ppu!ExecutePPU(p, ticks) = PP!ExecutePPU(p, ticks)
<1> TAKE p, ticks
<1> DEFINE q == [p EXCEPT !.tickCount = @ + ticks, !.calls = Ppu!NoCalls]
<1>1. Ppu!ExecutePPU(p, ticks) =
        IF q.tickCount <= Ppu!Threshold(q.state) THEN q
        ELSE CASE q.state = "Visible" -> Ppu!ToHBlank(q)
               [] q.state = "HBlank"  -> Ppu!OnHBlankFinish(q)
               [] q.state = "VBlank"  -> Ppu!OnVBlankLineFinish(q)
  BY DEF Ppu!ExecutePPU
<1>2. PP!ExecutePPU(p, ticks) =
        IF q.tickCount <= PP!Threshold(q.state) THEN q
        ELSE CASE q.state = "Visible" -> PP!ToHBlank(q)
               [] q.state = "HBlank"  -> PP!OnHBlankFinish(q)
               [] q.state = "VBlank"  -> PP!OnVBlankLineFinish(q)
  BY SameFields DEF PP!ExecutePPU
<1> HIDE DEF q
<1> QED BY <1>1, <1>2, SameGeometry, SameToHBlank, SameHBlankFinish,
           SameVBlankLineFinish
-----------------------------------------------------------------------------
(* What one batch of ticks makes of the display and announces: a period    *)
(* begins only from its neighbour, and is announced when it does.          *)
LEMMA DisplaySteps ==
    ASSUME NEW p \in Ppu!Fields, NEW ticks \in Nat
    PROVE  LET n == Ppu!ExecutePPU(p, ticks)
               h == n.calls.hBlankCallback
               v == n.calls.vBlankCallback IN
           /\ n \in Ppu!Fields
           /\ \/ n.state = p.state /\ h = {} /\ v = {}
              \/ p.state = "Visible" /\ n.state = "HBlank" /\ h = {TRUE} /\ v = {}
              \/ p.state = "HBlank" /\ n.state = "Visible" /\ h = {FALSE} /\ v = {}
              \/ p.state = "HBlank" /\ n.state = "VBlank" /\ h = {FALSE} /\ v = {TRUE}
              \/ p.state = "VBlank" /\ n.state = "Visible" /\ h = {} /\ v = {FALSE}
<1> DEFINE n == Ppu!ExecutePPU(p, ticks)
           total == p.tickCount + ticks
<1>1. n = PP!ExecutePPU(p, ticks) /\ p \in PP!Fields
  BY SameExecute, SameFields
<1>2. /\ n \in PP!Fields
      /\ \/ PP!Stays(p, n, total)
         \/ PP!Draws(p, n, total)
         \/ PP!EndsLine(p, n, total)
         \/ PP!EndsBlankLine(p, n, total)
  BY <1>1, PP!ExecuteFacts, SameAssumptions
<1> HIDE DEF n, total
<1>3. CASE PP!Stays(p, n, total)
  BY <1>2, <1>3, SameFields DEF PP!Stays, n
<1>4. CASE PP!Draws(p, n, total)
  BY <1>2, <1>4, SameFields DEF PP!Draws, n
<1>5. CASE PP!EndsLine(p, n, total)
  BY <1>2, <1>5, SameFields DEF PP!EndsLine, n
<1>6. CASE PP!EndsBlankLine(p, n, total)
  BY <1>2, <1>6, SameFields DEF PP!EndsBlankLine, n
<1> QED BY <1>2, <1>3, <1>4, <1>5, <1>6
-----------------------------------------------------------------------------
(* The inductive invariant of the loop: what the refinement looks at.      *)
Shape == /\ phase \in {"loop", "cpu", "instruction", "ppu", "timers"}
         /\ ppu \in Ppu!Fields

LEMMA InitShape == Init => Shape
<1>1. Ppu!NoCalls \in Ppu!Calls
  BY DEF Ppu!NoCalls, Ppu!Calls
<1>2. 0 \in 0 .. VCountRange - 1
  BY ComponentAssumptions DEF Ppu!TOTAL_LINES
<1>3. Ppu!PowerOn \in Ppu!Fields
  BY <1>1, <1>2 DEF Ppu!PowerOn, Ppu!Fields, Ppu!States
<1> QED BY <1>3 DEF Init, Shape

LEMMA BatchesAreNat == MinTicks .. MaxTicks \subseteq Nat
BY GBAAssumption, ComponentAssumptions

\* The program's stores leave the display in the state it was in.
LEMMA StoreDisplayFacts ==
    ASSUME ppu \in Ppu!Fields, StoreDisplay
    PROVE  ppu' \in Ppu!Fields /\ ppu'.state = ppu.state
<1>1. Ppu!NoCalls \in Ppu!Calls
  BY DEF Ppu!NoCalls, Ppu!Calls
<1>2. ASSUME NEW bits \in GuestBits, NEW setting \in GuestSettings,
             ppu' = Ppu!WriteDISPSTAT(ppu, bits, setting)
      PROVE  ppu' \in Ppu!Fields /\ ppu'.state = ppu.state
  <2>1. bits \in SUBSET Ppu!DispStatBits /\ setting \in Nat
    BY ComponentAssumptions
  <2> QED BY <1>1, <1>2, <2>1 DEF Ppu!WriteDISPSTAT, Ppu!Fields
<1>3. ASSUME NEW value \in GuestVCounts, ppu' = Ppu!WriteVCOUNT(ppu, value)
      PROVE  ppu' \in Ppu!Fields /\ ppu'.state = ppu.state
  <2>1. value \in 0 .. VCountRange - 1
    BY ComponentAssumptions
  <2> QED BY <1>1, <1>3, <2>1 DEF Ppu!WriteVCOUNT, Ppu!Fields
<1> QED BY <1>2, <1>3 DEF StoreDisplay

LEMMA StepShape == Shape /\ [Next]_vars => Shape'
<1> SUFFICES ASSUME Shape, [Next]_vars PROVE Shape'
  OBVIOUS
<1> USE DEF Shape
<1>1. CASE EnterCpu \/ Transfer \/ Sleep \/ TakeInterrupt
  BY <1>1 DEF EnterCpu, Transfer, Sleep, TakeInterrupt
<1>2. CASE BeginInstruction \/ EndInstruction \/ EndPass
  BY <1>2 DEF BeginInstruction, EndInstruction, EndPass
<1>3. CASE StoreInterrupts \/ StoreDMA \/ SetIrqDisable
  BY <1>3 DEF StoreInterrupts, StoreDMA, SetIrqDisable
<1>4. CASE StoreDisplay
  BY <1>4, StoreDisplayFacts DEF StoreDisplay
<1>5. CASE PPUExecute
  <2>1. PICK ticks \in MinTicks .. MaxTicks : ppu' = Ppu!ExecutePPU(ppu, ticks)
    BY <1>5 DEF PPUExecute
  <2> QED BY <1>5, <2>1, DisplaySteps, BatchesAreNat DEF PPUExecute
<1>6. CASE \E i \in Bits : TimerRequests(i)
  BY <1>6 DEF TimerRequests
<1>7. CASE \E event \in DOMAIN Dma!FifoAddress : FifoRequests(event)
  BY <1>7 DEF FifoRequests
<1>8. CASE UNCHANGED vars
  BY <1>8 DEF vars
<1> QED BY <1>1, <1>2, <1>3, <1>4, <1>5, <1>6, <1>7, <1>8 DEF Next, Loop

THEOREM ShapeHolds == Spec => []Shape
BY InitShape, StepShape, PTL DEF Spec
-----------------------------------------------------------------------------
(* Each step of the loop is a step of the environment of DMA.tla, or one   *)
(* the controller does not see.                                            *)
LEMMA InitMaps == Init => Dma!Init
BY DEF Init, Dma!Init, Ppu!PowerOn, Period

\* The display's turn.
LEMMA DisplayMaps == Shape /\ PPUExecute => Dma!Next
<1> SUFFICES ASSUME Shape, PPUExecute PROVE Dma!Next
  OBVIOUS
<1> DEFINE h == ppu'.calls.hBlankCallback
           v == ppu'.calls.vBlankCallback
<1>1. /\ phase = "ppu" /\ phase' = "timers" /\ UNCHANGED soundHit
      /\ dma' = CallBack(dma, ppu'.calls)
  BY DEF PPUExecute
<1>2. PICK ticks \in MinTicks .. MaxTicks : ppu' = Ppu!ExecutePPU(ppu, ticks)
  BY DEF PPUExecute
<1>3. \/ ppu'.state = ppu.state /\ h = {} /\ v = {}
      \/ ppu.state = "Visible" /\ ppu'.state = "HBlank" /\ h = {TRUE} /\ v = {}
      \/ ppu.state = "HBlank" /\ ppu'.state = "Visible" /\ h = {FALSE} /\ v = {}
      \/ ppu.state = "HBlank" /\ ppu'.state = "VBlank" /\ h = {FALSE} /\ v = {TRUE}
      \/ ppu.state = "VBlank" /\ ppu'.state = "Visible" /\ h = {} /\ v = {FALSE}
  BY <1>2, DisplaySteps, BatchesAreNat DEF Shape
<1>4. /\ ~(phase \in {"cpu", "instruction"})
      /\ (phase' \in {"cpu", "instruction"}) = (phase \in {"cpu", "instruction"})
      /\ phase = "ppu" /\ (phase' = "ppu") = FALSE
  BY <1>1
<1>10. (TRUE \in {FALSE}) = FALSE /\ (TRUE \in {TRUE}) = TRUE
  OBVIOUS
<1>5. CASE ppu'.state = ppu.state /\ h = {} /\ v = {}
  <2>1. dma' = dma /\ Period' = Period
    BY <1>1, <1>5 DEF CallBack, Period
  <2>2. Dma!DisplayStays
    BY <1>1, <1>4, <2>1 DEF Dma!DisplayStays
  <2> QED BY <2>2 DEF Dma!Next
<1>6. CASE ppu.state = "Visible" /\ ppu'.state = "HBlank" /\ h = {TRUE} /\ v = {}
  <2>1. /\ dma' = Dma!EventCallback(dma, "HBLANK", TRUE)
        /\ Period = "none" /\ Period' = "HBLANK"
    BY <1>1, <1>6, <1>10 DEF CallBack, Period
  <2>2. Dma!HBlankStarts
    BY <1>1, <1>4, <2>1 DEF Dma!HBlankStarts, Dma!Display
  <2> QED BY <2>2 DEF Dma!Next
<1>7. CASE ppu.state = "HBlank" /\ ppu'.state = "Visible" /\ h = {FALSE} /\ v = {}
  <2>1. /\ dma' = Dma!EventCallback(dma, "HBLANK", FALSE)
        /\ Period = "HBLANK" /\ Period' = "none"
    BY <1>1, <1>7, <1>10 DEF CallBack, Period
  <2>2. Dma!HBlankEnds
    BY <1>1, <1>4, <2>1 DEF Dma!HBlankEnds, Dma!Display
  <2> QED BY <2>2 DEF Dma!Next
<1>8. CASE ppu.state = "HBlank" /\ ppu'.state = "VBlank" /\ h = {FALSE} /\ v = {TRUE}
  <2>1. /\ dma' = Dma!EventCallback(Dma!EventCallback(dma, "HBLANK", FALSE),
                                    "VBLANK", TRUE)
        /\ Period = "HBLANK" /\ Period' = "VBLANK"
    BY <1>1, <1>8, <1>10 DEF CallBack, Period
  <2>2. Dma!LastHBlankEnds
    BY <1>1, <1>4, <2>1 DEF Dma!LastHBlankEnds, Dma!Display
  <2> QED BY <2>2 DEF Dma!Next
<1>9. CASE ppu.state = "VBlank" /\ ppu'.state = "Visible" /\ h = {} /\ v = {FALSE}
  <2>1. /\ dma' = Dma!EventCallback(dma, "VBLANK", FALSE)
        /\ Period = "VBLANK" /\ Period' = "none"
    BY <1>1, <1>9, <1>10 DEF CallBack, Period
  <2>2. Dma!VBlankEnds
    BY <1>1, <1>4, <2>1 DEF Dma!VBlankEnds, Dma!Display
  <2> QED BY <2>2 DEF Dma!Next
<1> QED BY <1>3, <1>5, <1>6, <1>7, <1>8, <1>9

LEMMA StepMaps == Shape /\ [Next]_vars => [Dma!Next]_Dma!vars
<1> SUFFICES ASSUME Shape, [Next]_vars PROVE [Dma!Next]_Dma!vars
  OBVIOUS
<1>1. CASE EnterCpu
  <2>1. Dma!BeginInstruction
    BY <1>1 DEF EnterCpu, Dma!BeginInstruction, Period
  <2> QED BY <2>1 DEF Dma!Next
<1>2. CASE Transfer
  <2>1. Dma!Transfer
    BY <1>2 DEF Transfer, Dma!Transfer, Period
  <2> QED BY <2>1 DEF Dma!Next
<1>3. CASE Sleep \/ TakeInterrupt \/ EndInstruction
  <2>1. Dma!EndInstruction
    <3>1. /\ phase \in {"cpu", "instruction"} /\ phase' = "ppu"
          /\ UNCHANGED <<dma, ppu, soundHit>>
      BY <1>3 DEF Sleep, TakeInterrupt, EndInstruction
    <3> QED BY <3>1 DEF Dma!EndInstruction, Period
  <2> QED BY <2>1 DEF Dma!Next
<1>4. CASE BeginInstruction \/ StoreInterrupts \/ SetIrqDisable \/ EndPass
  <2>1. /\ \/ phase \in {"cpu", "instruction"} /\ phase' = "instruction"
           \/ phase = "timers" /\ phase' = "loop"
        /\ UNCHANGED <<dma, ppu, soundHit>>
    BY <1>4 DEF BeginInstruction, StoreInterrupts, SetIrqDisable, EndPass
  <2> QED BY <2>1 DEF Dma!vars, Period
<1>5. CASE StoreDMA
  <2>1. PICK c \in Channels : dma' \in Dma!Stores(dma, c)
    BY <1>5 DEF StoreDMA
  <2>2. Dma!CpuStore(c)
    BY <1>5, <2>1 DEF StoreDMA, Dma!CpuStore, Period
  <2> QED BY <2>2 DEF Dma!Next
<1>6. CASE StoreDisplay
  <2>1. ppu'.state = ppu.state
    BY <1>6, StoreDisplayFacts DEF Shape
  <2> QED BY <1>6, <2>1 DEF StoreDisplay, Dma!vars, Period
<1>7. CASE PPUExecute
  BY <1>7, DisplayMaps
<1>8. CASE \E i \in Bits : TimerRequests(i)
  BY <1>8 DEF TimerRequests, Dma!vars, Period
<1>9. CASE \E event \in DOMAIN Dma!FifoAddress : FifoRequests(event)
  <2>1. PICK event \in DOMAIN Dma!FifoAddress : FifoRequests(event)
    BY <1>9
  <2>2. Dma!FifoRequests(event)
    BY <2>1 DEF FifoRequests, Dma!FifoRequests, Period
  <2> QED BY <2>1, <2>2 DEF Dma!Next
<1>10. CASE UNCHANGED vars
  BY <1>10 DEF vars, Dma!vars, Period
<1> QED BY <1>1, <1>2, <1>3, <1>4, <1>5, <1>6, <1>7, <1>8, <1>9, <1>10
        DEF Next, Loop

(* The loop, the display and the program together do nothing that DMA.tla  *)
(* does not allow its environment.                                         *)
THEOREM Refinement == Spec => ImplementsDMA
BY InitMaps, StepMaps, ShapeHolds, PTL DEF Spec, ImplementsDMA, Dma!Spec

-----------------------------------------------------------------------------
(* The objects.  First numbers: induction, from the library's theorem that *)
(* the natural numbers are well founded, and division.                     *)
Earlier == {p \in Nat \X Nat : p[1] < p[2]}

LEMMA NaturalsFounded == IsWellFoundedOn(Earlier, Nat)
<1>1. OpToRel(<, Nat) = Earlier
  BY Zenon DEF OpToRel, Earlier
<1>2. IsWellFoundedOn(OpToRel(<, Nat), Nat)
  BY NatLessThanWellFounded, Zenon
<1> QED BY <1>1, <1>2, Zenon

LEMMA Induction ==
    ASSUME NEW S, 0 \in S, \A n \in Nat : n \in S => n + 1 \in S
    PROVE  \A n \in Nat : n \in S
<1> DEFINE T == {n \in Nat : n \notin S}
<1> SUFFICES ASSUME T # {} PROVE FALSE
  OBVIOUS
<1>1. PICK x \in T : \A y \in T : ~(<<y, x>> \in Earlier)
  BY NaturalsFounded, WFMin
<1>2. x # 0 /\ x - 1 \in Nat
  BY <1>1
<1>3. x - 1 \in T
  BY <1>1, <1>2
<1>4. <<x - 1, x>> \in Earlier
  BY <1>2 DEF Earlier
<1> QED BY <1>1, <1>3, <1>4

LEMMA Divided ==
    ASSUME NEW d \in Nat, d > 0, NEW q \in Int, NEW r \in 0 .. d - 1
    PROVE  (q * d + r) \div d = q /\ (q * d + r) % d = r
<1> DEFINE n == q * d + r
           p == n \div d
<1>1. n \in Int /\ p \in Int
  OBVIOUS
<1>2. n % d \in 0 .. d - 1 /\ n = d * p + (n % d)
  OBVIOUS
<1> DEFINE s == n % d
<1>3. (q - p) * d = s - r
  BY <1>1, <1>2
<1>4. s \in 0 .. d - 1
  BY <1>2
<1> HIDE DEF n, p, s
<1>5. q - p \in Int /\ q - p = 0
  <2>1. CASE q - p >= 1
    <3>1. ((q - p) - 1) * d >= 0
      BY <1>1, <2>1
    <3> QED BY <1>1, <1>3, <1>4, <3>1
  <2>2. CASE q - p <= -1
    <3>1. (-1 - (q - p)) * d >= 0
      BY <1>1, <2>2
    <3> QED BY <1>1, <1>3, <1>4, <3>1
  <2> QED BY <1>1, <2>1, <2>2
<1>6. q = p /\ s = r
  BY <1>1, <1>3, <1>4, <1>5
<1> QED BY <1>6 DEF n, p, s

LEMMA Division ==
    ASSUME NEW d \in Nat, d > 0, NEW n \in Int
    PROVE  /\ n \div d \in Int
           /\ n % d \in 0 .. d - 1
           /\ n = (n \div d) * d + (n % d)
OBVIOUS

\* Steps round a circle and back.
BackAgain(d, c) == \A p \in 0 .. d - 1 : \A k \in 0 .. d - 1 :
                      (c + k) % d = p <=> (p - c) % d = k

LEMMA Around ==
    ASSUME NEW d \in Nat, NEW c \in Int
    PROVE  BackAgain(d, c)
<1> USE DEF BackAgain
<1> TAKE p \in 0 .. d - 1
<1> TAKE k \in 0 .. d - 1
<1> d > 0
  OBVIOUS
<1>1. ASSUME (c + k) % d = p
      PROVE  (p - c) % d = k
  <2> DEFINE q == (c + k) \div d
             z == q * d
  <2>1. c + k \in Int
    OBVIOUS
  <2>2. q \in Int /\ c + k = z + p
    BY <1>1, <2>1, Division
  <2>3. -q \in Int /\ (-q) * d = -z /\ z \in Int
    BY <2>2
  <2> HIDE DEF q, z
  <2>4. p - c = (-q) * d + k
    BY <2>2, <2>3
  <2> QED BY <2>3, <2>4, Divided
<1>2. ASSUME (p - c) % d = k
      PROVE  (c + k) % d = p
  <2> DEFINE q == (p - c) \div d
             z == q * d
  <2>1. p - c \in Int
    OBVIOUS
  <2>2. q \in Int /\ p - c = z + k
    BY <1>2, <2>1, Division
  <2>3. -q \in Int /\ (-q) * d = -z /\ z \in Int
    BY <2>2
  <2> HIDE DEF q, z
  <2>4. c + k = (-q) * d + p
    BY <2>2, <2>3
  <2> QED BY <2>3, <2>4, Divided
<1> QED BY <1>1, <1>2

LEMMA Quotients ==
    ASSUME NEW k \in Int
    PROVE  Quotient(k * FLOAT_SCALE, FLOAT_SCALE) = k
<1> DEFINE d == FLOAT_SCALE
           n == k * d
<1>1. d \in Nat /\ d > 0 /\ n \in Int
  BY TilesAssumption
<1> HIDE DEF d
<1>2. ASSUME NEW q \in Int
      PROVE  (q * d) \div d = q
  <2>1. 0 \in 0 .. d - 1 /\ q * d + 0 = q * d
    BY <1>1
  <2>2. (q * d + 0) \div d = q
    BY <1>1, <2>1, Divided
  <2> QED BY <2>1, <2>2
<1>3. n \div d = k
  BY <1>2
<1>4. (-n) \div d = -k
  <2>1. -k \in Int /\ (-k) * d = -n
    BY <1>1
  <2>2. ((-k) * d) \div d = -k
    BY <1>2, <2>1
  <2> QED BY <2>1, <2>2
<1> HIDE DEF n
<1>5. Quotient(n, d) = k
  BY <1>1, <1>3, <1>4 DEF Quotient
<1> QED BY <1>5 DEF n, d

-----------------------------------------------------------------------------
(* Where a dot of the screen is in an object.                              *)
Shift(a, size) == (Doubled(a, size) - size) \div 2

LEMMA Middles ==
    ASSUME NEW a \in Attributes, NEW h \in Nat, NEW size, size = 2 * h
    PROVE  /\ size \div 2 = h /\ Shift(a, size) \in Nat
           /\ Doubled(a, size) = size + 2 * Shift(a, size)
           /\ Doubled(a, size) \div 2 = h + Shift(a, size)
           /\ ~a.objDisable => Shift(a, size) = 0
<1>1. CASE a.objDisable
  <2>1. Doubled(a, size) = 4 * h
    BY <1>1 DEF Doubled
  <2>2. Shift(a, size) = h
    BY <2>1 DEF Shift
  <2> QED BY <1>1, <2>1, <2>2
<1>2. CASE ~a.objDisable
  <2>1. Doubled(a, size) = 2 * h
    BY <1>2 DEF Doubled
  <2>2. Shift(a, size) = 0
    BY <2>1 DEF Shift
  <2> QED BY <1>2, <2>1, <2>2
<1> QED BY <1>1, <1>2

LEMMA EvenSizes ==
    ASSUME NEW a \in Attributes
    PROVE  /\ \E h \in Nat : Width(a) = 2 * h
           /\ \E h \in Nat : Height(a) = 2 * h
<1> DEFINE t == TILE \div 2
           w == a.tiles[1]
           h == a.tiles[2]
<1>1. t \in Nat /\ TILE = 2 * t
  BY ObjectsAssumption, TilesAssumption
<1>2. w \in Nat /\ h \in Nat
  BY DEF Attributes
<1> HIDE DEF t, w, h
<1>3. TILE * w = 2 * (t * w) /\ t * w \in Nat /\ TILE * h = 2 * (t * h) /\ t * h \in Nat
  BY <1>1, <1>2
<1> QED BY <1>3 DEF Width, Height, w, h

SpriteColumn(a, x) == IF a.horizontalFlip /\ ~a.rotationScaling THEN Width(a) - 1 - x ELSE x
SpriteRow(a, y)    == IF a.verticalFlip /\ ~a.rotationScaling THEN Height(a) - y ELSE y

LEMMA SpriteIs ==
    ASSUME NEW a \in Attributes, ~Hidden(a), Identity(a), NEW x \in Int, NEW y \in Int
    PROVE  SpriteAt(a, x, y) = <<SpriteColumn(a, x - Shift(a, Width(a))),
                                 SpriteRow(a, y - Shift(a, Height(a)))>>
<1> DEFINE m == Affine(a)
           p == x - Doubled(a, Width(a)) \div 2
           q == y - Doubled(a, Height(a)) \div 2
           s == Shift(a, Width(a))
           t == Shift(a, Height(a))
           F == FLOAT_SCALE
<1>1. PICK w \in Nat : Width(a) = 2 * w
  BY EvenSizes
<1>2. PICK h \in Nat : Height(a) = 2 * h
  BY EvenSizes
<1>3. /\ Width(a) \div 2 = w /\ s \in Nat /\ Doubled(a, Width(a)) \div 2 = w + s
      /\ ~a.objDisable => s = 0
  BY <1>1, Middles
<1>4. /\ Height(a) \div 2 = h /\ t \in Nat /\ Doubled(a, Height(a)) \div 2 = h + t
      /\ ~a.objDisable => t = 0
  BY <1>2, Middles
<1>5. SpriteAt(a, x, y) = <<Quotient(p * m.dx + q * m.dmx, F) + m.rotX,
                            Quotient(p * m.dy + q * m.dmy, F) + m.rotY>>
  BY Zenon DEF SpriteAt
<1>6. F \in Int
  BY ObjectsAssumption, TilesAssumption
<1> HIDE DEF s, t, F
<1>7. p = x - (w + s) /\ q = y - (h + t) /\ p \in Int /\ q \in Int
  BY <1>3, <1>4
<1> HIDE DEF m, p, q
<1>8. CASE a.rotationScaling
  <2>1. a.params = <<F, 0, 0, F>>
    BY <1>8 DEF Identity, F
  <2>2. m.dx = F /\ m.dmx = 0 /\ m.dy = 0 /\ m.dmy = F /\ m.rotX = w /\ m.rotY = h
    BY <1>3, <1>4, <1>8, <2>1 DEF Affine, m
  <2>3. p * m.dx + q * m.dmx = p * F /\ p * m.dy + q * m.dmy = q * F
    BY <1>6, <1>7, <2>2
  <2>4. Quotient(p * F, F) = p /\ Quotient(q * F, F) = q
    BY <1>7, Quotients DEF F
  <2>5. p + w = x - s /\ q + h = y - t
    BY <1>3, <1>4, <1>7
  <2>6. SpriteColumn(a, x - s) = x - s /\ SpriteRow(a, y - t) = y - t
    BY <1>8 DEF SpriteColumn, SpriteRow
  <2> QED BY <1>5, <2>2, <2>3, <2>4, <2>5, <2>6 DEF s, t
<1>9. CASE ~a.rotationScaling
  <2>1. s = 0 /\ t = 0
    BY <1>3, <1>4, <1>9 DEF Hidden
  <2>2. /\ m.dx = (IF a.horizontalFlip THEN -F ELSE F) /\ m.dmx = 0 /\ m.dy = 0
        /\ m.dmy = (IF a.verticalFlip THEN -F ELSE F)
        /\ m.rotX = w - (IF a.horizontalFlip THEN 1 ELSE 0) /\ m.rotY = h
    BY <1>3, <1>4, <1>9 DEF Affine, m, F
  <2>3. Quotient(p * m.dx + q * m.dmx, F) + m.rotX = SpriteColumn(a, x - s)
    <3>1. CASE a.horizontalFlip
      <4>1. p * m.dx + q * m.dmx = (-p) * F /\ -p \in Int
        BY <1>6, <1>7, <2>2, <3>1
      <4>2. Quotient((-p) * F, F) = -p
        BY <4>1, Quotients DEF F
      <4>3. SpriteColumn(a, x - s) = 2 * w - 1 - (x - s)
        BY <1>1, <1>9, <3>1 DEF SpriteColumn
      <4>4. m.rotX = w - 1
        BY <2>2, <3>1
      <4>5. -p + (w - 1) = 2 * w - 1 - (x - s)
        BY <1>7, <2>1
      <4> QED BY <4>1, <4>2, <4>3, <4>4, <4>5
    <3>2. CASE ~a.horizontalFlip
      <4>1. p * m.dx + q * m.dmx = p * F
        BY <1>6, <1>7, <2>2, <3>2
      <4>2. Quotient(p * F, F) = p
        BY <1>7, Quotients DEF F
      <4>3. SpriteColumn(a, x - s) = x - s
        BY <3>2 DEF SpriteColumn
      <4>4. m.rotX = w
        BY <2>2, <3>2
      <4>5. p + w = x - s
        BY <1>7, <2>1
      <4> QED BY <4>1, <4>2, <4>3, <4>4, <4>5
    <3> QED BY <3>1, <3>2
  <2>4. Quotient(p * m.dy + q * m.dmy, F) + m.rotY = SpriteRow(a, y - t)
    <3>1. CASE a.verticalFlip
      <4>1. p * m.dy + q * m.dmy = (-q) * F /\ -q \in Int
        BY <1>6, <1>7, <2>2, <3>1
      <4>2. Quotient((-q) * F, F) = -q
        BY <4>1, Quotients DEF F
      <4>3. SpriteRow(a, y - t) = 2 * h - (y - t)
        BY <1>2, <1>9, <3>1 DEF SpriteRow
      <4>4. -q + h = 2 * h - (y - t)
        BY <1>7, <2>1
      <4> QED BY <2>2, <4>1, <4>2, <4>3, <4>4
    <3>2. CASE ~a.verticalFlip
      <4>1. p * m.dy + q * m.dmy = q * F
        BY <1>6, <1>7, <2>2, <3>2
      <4>2. Quotient(q * F, F) = q
        BY <1>7, Quotients DEF F
      <4>3. SpriteRow(a, y - t) = y - t
        BY <3>2 DEF SpriteRow
      <4>4. q + h = y - t
        BY <1>7, <2>1
      <4> QED BY <2>2, <4>1, <4>2, <4>3, <4>4
    <3> QED BY <3>1, <3>2
  <2> QED BY <1>5, <2>3, <2>4 DEF s, t
<1> QED BY <1>8, <1>9

\* Where a dot is in the sprite, counted from the sprite's place.
Across(a, at) == (at[1] - a.xCoord - Shift(a, Width(a))) % MAX_SPRITE_X
Down(a, at)   == (at[2] - a.yCoord - Shift(a, Height(a))) % MAX_SPRITE_Y

PlacedBack(m, c, s) == \A p \in 0 .. m - 1 : \A k \in 0 .. m - 1 :
                         (c + (k + s)) % m = p <=> (p - c - s) % m = k

LEMMA Placed ==
    ASSUME NEW m \in Nat, NEW c \in Nat, NEW s \in Nat
    PROVE  PlacedBack(m, c, s)
<1> USE DEF PlacedBack
<1> TAKE p \in 0 .. m - 1
<1> TAKE k \in 0 .. m - 1
<1>1. m \in Nat /\ m > 0 /\ c + s \in Int
  OBVIOUS
<1> DEFINE e == c + s
<1>2. e \in Int
  BY <1>1
<1> HIDE DEF e
<1>4. (e + k) % m = p <=> (p - e) % m = k
  <2>1. BackAgain(m, e)
    BY <1>2, Around, Zenon
  <2> QED BY <2>1, Zenon DEF BackAgain
<1>3. c + (k + s) = (c + s) + k /\ p - c - s = p - (c + s)
  OBVIOUS
<1> QED BY <1>3, <1>4 DEF e

LEMMA SpriteColumns ==
    ASSUME NEW a \in Attributes, Doubled(a, Width(a)) <= MAX_SPRITE_X, NEW at \in Screen
    PROVE  /\ \A x \in 0 .. Doubled(a, Width(a)) - 1 :
                (/\ at[1] = (a.xCoord + x) % MAX_SPRITE_X
                 /\ SpriteColumn(a, x - Shift(a, Width(a))) \in 0 .. Width(a) - 1)
                <=> x = Across(a, at) + Shift(a, Width(a)) /\ Across(a, at) < Width(a)
           /\ Across(a, at) < Width(a) =>
                /\ Across(a, at) + Shift(a, Width(a)) \in 0 .. Doubled(a, Width(a)) - 1
                /\ SpriteColumn(a, Across(a, at)) \in 0 .. Width(a) - 1
           /\ Across(a, at) \in Int /\ Shift(a, Width(a)) \in Int
<1> DEFINE W == Width(a)
           D == Doubled(a, W)
           s == Shift(a, W)
           p == at[1]
           c == a.xCoord
           u == Across(a, at)
           M == MAX_SPRITE_X
<1>1. PICK w \in Nat : W = 2 * w
  BY EvenSizes
<1>2. W \in Nat /\ s \in Nat /\ D = W + 2 * s
  <2>1. W \in Nat
    BY <1>1
  <2> HIDE DEF W
  <2> QED BY <1>1, <2>1, Middles
<1>3. M \in Nat /\ SCREEN_WIDTH \in Nat /\ SCREEN_WIDTH <= M /\ p \in 0 .. SCREEN_WIDTH - 1
  BY ObjectsAssumption DEF Screen
<1>4. c \in Nat /\ a.horizontalFlip \in BOOLEAN /\ a.rotationScaling \in BOOLEAN
  BY DEF Attributes
<1>5. D <= M
  OBVIOUS
<1>6. u = (p - c - s) % M
  BY DEF Across
<1>7. \A k : SpriteColumn(a, k) = IF a.horizontalFlip /\ ~a.rotationScaling THEN W - 1 - k ELSE k
  BY DEF SpriteColumn
<1> HIDE DEF W, D, s, p, c, u, M
<1>8. p \in 0 .. M - 1
  BY <1>3
<1>9. u \in 0 .. M - 1
  <2>1. M \in Nat /\ M > 0 /\ p - c - s \in Int
    BY <1>2, <1>3, <1>4, <1>8
  <2> QED BY <1>6, <2>1, Division
<1>10. \A k \in Int : SpriteColumn(a, k) \in 0 .. W - 1 <=> k \in 0 .. W - 1
  BY <1>2, <1>7
<1>11. ASSUME NEW k \in 0 .. W - 1
       PROVE  p = (c + (k + s)) % M <=> u = k
  <2>1. k \in 0 .. M - 1
    BY <1>2, <1>3, <1>5
  <2>2. (c + (k + s)) % M = p <=> (p - c - s) % M = k
    <3>1. PlacedBack(M, c, s)
      BY <1>2, <1>3, <1>4, Placed, Zenon
    <3> QED BY <1>8, <2>1, <3>1, Zenon DEF PlacedBack
  <2> QED BY <1>6, <2>2
<1>12. ASSUME NEW x \in 0 .. D - 1
       PROVE  (p = (c + x) % M /\ SpriteColumn(a, x - s) \in 0 .. W - 1) <=> (x = u + s /\ u < W)
  <2>1. x - s \in Int /\ x \in Int /\ D \in Int
    BY <1>2
  <2>2. CASE x - s \in 0 .. W - 1
    <3>1. (x - s) + s = x
      BY <1>2, <2>1
    <3>2. p = (c + ((x - s) + s)) % M <=> u = x - s
      BY <1>11, <2>2
    <3>3. p = (c + x) % M <=> u = x - s
      BY <3>1, <3>2
    <3>4. u = x - s <=> (x = u + s /\ u < W)
      BY <1>2, <1>9, <1>3, <2>1, <2>2
    <3> QED BY <1>10, <2>1, <2>2, <3>3, <3>4
  <2>3. CASE x - s \notin 0 .. W - 1
    <3>1. ~(x = u + s /\ u < W)
      BY <1>2, <1>3, <1>9, <2>1, <2>3
    <3> QED BY <1>10, <2>1, <2>3, <3>1
  <2> QED BY <2>2, <2>3
<1>13. u < W => u + s \in 0 .. D - 1 /\ SpriteColumn(a, u) \in 0 .. W - 1
  <2>1. u \in Int
    BY <1>3, <1>9
  <2>2. u < W => u \in 0 .. W - 1 /\ u + s \in 0 .. D - 1
    BY <1>2, <1>9, <2>1
  <2> QED BY <1>10, <2>1, <2>2
<1> QED BY <1>2, <1>3, <1>9, <1>12, <1>13 DEF W, D, s, p, c, u, M

LEMMA SpriteRows ==
    ASSUME NEW a \in Attributes, ~Hidden(a), Doubled(a, Height(a)) <= MAX_SPRITE_Y,
           NEW at \in Screen
    PROVE  /\ \A y \in 0 .. Doubled(a, Height(a)) - 1 :
                (/\ at[2] = (a.yCoord + y) % MAX_SPRITE_Y
                 /\ SpriteRow(a, y - Shift(a, Height(a))) \in 0 .. Height(a) - 1)
                <=> /\ y = Down(a, at) + Shift(a, Height(a))
                    /\ Down(a, at) < Height(a) /\ SpriteRow(a, Down(a, at)) < Height(a)
           /\ Down(a, at) < Height(a) /\ SpriteRow(a, Down(a, at)) < Height(a) =>
                /\ Down(a, at) + Shift(a, Height(a)) \in 0 .. Doubled(a, Height(a)) - 1
                /\ SpriteRow(a, Down(a, at)) \in 0 .. Height(a) - 1
           /\ Down(a, at) \in Int /\ Shift(a, Height(a)) \in Int
<1> DEFINE H == Height(a)
           D == Doubled(a, H)
           s == Shift(a, H)
           p == at[2]
           c == a.yCoord
           u == Down(a, at)
           M == MAX_SPRITE_Y
           turned == a.verticalFlip /\ ~a.rotationScaling
<1>1. PICK h \in Nat : H = 2 * h
  BY EvenSizes
<1>2. H \in Nat /\ s \in Nat /\ D = H + 2 * s /\ (~a.objDisable => s = 0)
  <2>1. H \in Nat
    BY <1>1
  <2> HIDE DEF H
  <2> QED BY <1>1, <2>1, Middles
<1>3. M \in Nat /\ SCREEN_HEIGHT \in Nat /\ SCREEN_HEIGHT <= M /\ p \in 0 .. SCREEN_HEIGHT - 1
  BY ObjectsAssumption DEF Screen
<1>4. c \in Nat /\ turned \in BOOLEAN
  BY DEF Attributes
<1>5. D <= M /\ (turned => s = 0)
  BY <1>2 DEF Hidden
<1>6. u = (p - c - s) % M
  BY DEF Down
<1>7. \A k : SpriteRow(a, k) = IF turned THEN H - k ELSE k
  BY DEF SpriteRow
<1> HIDE DEF H, D, s, p, c, u, M, turned
<1>8. p \in 0 .. M - 1
  BY <1>3
<1>9. u \in 0 .. M - 1
  <2>1. M \in Nat /\ M > 0 /\ p - c - s \in Int
    BY <1>2, <1>3, <1>4, <1>8
  <2> QED BY <1>6, <2>1, Division
<1>10. \A k \in Int : k + s <= D - 1 =>
          (SpriteRow(a, k) \in 0 .. H - 1 <=> k \in 0 .. H - 1 /\ SpriteRow(a, k) < H)
  BY <1>2, <1>4, <1>5, <1>7
<1>11. ASSUME NEW k \in 0 .. H - 1
       PROVE  p = (c + (k + s)) % M <=> u = k
  <2>1. k \in 0 .. M - 1
    BY <1>2, <1>3, <1>5
  <2>2. (c + (k + s)) % M = p <=> (p - c - s) % M = k
    <3>1. PlacedBack(M, c, s)
      BY <1>2, <1>3, <1>4, Placed, Zenon
    <3> QED BY <1>8, <2>1, <3>1, Zenon DEF PlacedBack
  <2> QED BY <1>6, <2>2
<1>12. ASSUME NEW y \in 0 .. D - 1
       PROVE  (p = (c + y) % M /\ SpriteRow(a, y - s) \in 0 .. H - 1)
              <=> (y = u + s /\ u < H /\ SpriteRow(a, u) < H)
  <2>1. y - s \in Int /\ y \in Int /\ D \in Int /\ (y - s) + s <= D - 1
    BY <1>2
  <2>2. CASE y - s \in 0 .. H - 1
    <3>1. (y - s) + s = y
      BY <1>2, <2>1
    <3>2. p = (c + ((y - s) + s)) % M <=> u = y - s
      BY <1>11, <2>2
    <3>3. p = (c + y) % M <=> u = y - s
      BY <3>1, <3>2
    <3>4. u = y - s <=> (y = u + s /\ u < H)
      BY <1>2, <1>9, <1>3, <2>1, <2>2
    <3>5. SpriteRow(a, y - s) \in 0 .. H - 1 <=> SpriteRow(a, y - s) < H
      BY <1>10, <2>1, <2>2
    <3> QED BY <3>3, <3>4, <3>5, Zenon
  <2>3. CASE y - s \notin 0 .. H - 1
    <3>1. ~(y = u + s /\ u < H)
      BY <1>2, <1>3, <1>9, <2>1, <2>3
    <3> QED BY <1>10, <2>1, <2>3, <3>1
  <2> QED BY <2>2, <2>3
<1>13. u < H /\ SpriteRow(a, u) < H => u + s \in 0 .. D - 1 /\ SpriteRow(a, u) \in 0 .. H - 1
  <2>1. u \in Int
    BY <1>3, <1>9
  <2>2. u < H => u \in 0 .. H - 1 /\ u + s \in 0 .. D - 1 /\ u + s <= D - 1
    BY <1>2, <1>9, <2>1
  <2> QED BY <1>10, <2>1, <2>2
<1> QED BY <1>2, <1>3, <1>9, <1>12, <1>13 DEF H, D, s, p, c, u, M

\* Where a dot of the screen has one of the sprite.
InSprite(a, at) == /\ Across(a, at) < Width(a)
                   /\ Down(a, at) < Height(a) /\ SpriteRow(a, Down(a, at)) < Height(a)
DotOf(a, at)    == <<Across(a, at) + Shift(a, Width(a)), Down(a, at) + Shift(a, Height(a))>>
SpriteDot(a, at) == <<SpriteColumn(a, Across(a, at)), SpriteRow(a, Down(a, at))>>
Area(a)       == (0 .. Doubled(a, Width(a)) - 1) \X (0 .. Doubled(a, Height(a)) - 1)
SpriteArea(a) == (0 .. Width(a) - 1) \X (0 .. Height(a) - 1)
Covers(a, at, d) == /\ at = <<(a.xCoord + d[1]) % MAX_SPRITE_X, (a.yCoord + d[2]) % MAX_SPRITE_Y>>
                    /\ SpriteAt(a, d[1], d[2]) \in SpriteArea(a)
Fits(a) == Doubled(a, Width(a)) <= MAX_SPRITE_X /\ Doubled(a, Height(a)) <= MAX_SPRITE_Y

LEMMA DotsOf ==
    ASSUME NEW a \in Attributes, ~Hidden(a), Identity(a), Fits(a), NEW at \in Screen,
           NEW d \in Area(a)
    PROVE  Covers(a, at, d) <=> d = DotOf(a, at) /\ InSprite(a, at)
<1> DEFINE x == d[1]
           y == d[2]
           s == Shift(a, Width(a))
           t == Shift(a, Height(a))
<1>1. x \in 0 .. Doubled(a, Width(a)) - 1 /\ y \in 0 .. Doubled(a, Height(a)) - 1 /\ d = <<x, y>>
  BY DEF Area
<1>2. at = <<at[1], at[2]>>
  BY DEF Screen
<1>3. SpriteAt(a, x, y) = <<SpriteColumn(a, x - s), SpriteRow(a, y - t)>>
  BY <1>1, SpriteIs
<1>4. (/\ at[1] = (a.xCoord + x) % MAX_SPRITE_X
       /\ SpriteColumn(a, x - s) \in 0 .. Width(a) - 1)
      <=> x = Across(a, at) + s /\ Across(a, at) < Width(a)
  BY <1>1, SpriteColumns, Zenon DEF Fits
<1>5. (/\ at[2] = (a.yCoord + y) % MAX_SPRITE_Y
       /\ SpriteRow(a, y - t) \in 0 .. Height(a) - 1)
      <=> y = Down(a, at) + t /\ Down(a, at) < Height(a) /\ SpriteRow(a, Down(a, at)) < Height(a)
  BY <1>1, SpriteRows, Zenon DEF Fits
<1> DEFINE px == (a.xCoord + x) % MAX_SPRITE_X
           py == (a.yCoord + y) % MAX_SPRITE_Y
           cx == SpriteColumn(a, x - s)
           cy == SpriteRow(a, y - t)
           X  == 0 .. Width(a) - 1
           Y  == 0 .. Height(a) - 1
           qx == Across(a, at) + s
           qy == Down(a, at) + t
<1>6. Covers(a, at, d) <=> at = <<px, py>> /\ <<cx, cy>> \in X \X Y
  BY <1>3, Zenon DEF Covers, SpriteArea
<1>7. d = DotOf(a, at) <=> d = <<qx, qy>>
  BY DEF DotOf
<1> HIDE DEF x, y, s, t, px, py, cx, cy, X, Y, qx, qy
<1>8. /\ at = <<px, py>> <=> at[1] = px /\ at[2] = py
      /\ <<cx, cy>> \in X \X Y <=> cx \in X /\ cy \in Y
  BY <1>2
<1>9. d = <<qx, qy>> <=> x = qx /\ y = qy
  BY <1>1
<1> QED BY <1>4, <1>5, <1>6, <1>7, <1>8, <1>9, Zenon DEF InSprite, px, py, cx, cy, X, Y, qx, qy

LEMMA DotInArea ==
    ASSUME NEW a \in Attributes, ~Hidden(a), Fits(a), NEW at \in Screen, InSprite(a, at)
    PROVE  DotOf(a, at) \in Area(a) /\ SpriteDot(a, at) \in SpriteArea(a)
<1>1. /\ Across(a, at) + Shift(a, Width(a)) \in 0 .. Doubled(a, Width(a)) - 1
      /\ SpriteColumn(a, Across(a, at)) \in 0 .. Width(a) - 1
  BY SpriteColumns, Zenon DEF InSprite, Fits
<1>2. /\ Down(a, at) + Shift(a, Height(a)) \in 0 .. Doubled(a, Height(a)) - 1
      /\ SpriteRow(a, Down(a, at)) \in 0 .. Height(a) - 1
  BY SpriteRows, Zenon DEF InSprite, Fits
<1> QED BY <1>1, <1>2 DEF DotOf, Area, SpriteDot, SpriteArea

LEMMA DotOfSprite ==
    ASSUME NEW a \in Attributes, ~Hidden(a), Identity(a), Fits(a), NEW at \in Screen
    PROVE  SpriteAt(a, DotOf(a, at)[1], DotOf(a, at)[2]) = SpriteDot(a, at)
<1> DEFINE s == Shift(a, Width(a))
           t == Shift(a, Height(a))
           u == Across(a, at)
           v == Down(a, at)
<1>1. u \in Int /\ s \in Int
  BY SpriteColumns, Zenon DEF Fits
<1>2. v \in Int /\ t \in Int
  BY SpriteRows, Zenon DEF Fits
<1>3. DotOf(a, at)[1] = u + s /\ DotOf(a, at)[2] = v + t
  BY DEF DotOf
<1>4. SpriteDot(a, at) = <<SpriteColumn(a, u), SpriteRow(a, v)>>
  BY DEF SpriteDot
<1>5. \A x \in Int : \A y \in Int :
         SpriteAt(a, x, y) = <<SpriteColumn(a, x - s), SpriteRow(a, y - t)>>
  BY SpriteIs, Zenon
<1> HIDE DEF s, t, u, v
<1>6. u + s \in Int /\ v + t \in Int /\ (u + s) - s = u /\ (v + t) - t = v
  BY <1>1, <1>2
<1> QED BY <1>3, <1>4, <1>5, <1>6

LEMMA SpriteDomain ==
    ASSUME NEW a, NEW mapping
    PROVE  DOMAIN TempSprite(a, mapping) = SpriteArea(a)
BY DEF TempSprite, SpriteArea

LEMMA UprightIs ==
    ASSUME NEW a, NEW mapping, NEW at
    PROVE  Upright(a, mapping, at) =
             IF InSprite(a, at) THEN TempSprite(a, mapping)[SpriteDot(a, at)] ELSE NoColour
BY Zenon DEF Upright, InSprite, SpriteDot, Across, Down, Shift, SpriteColumn, SpriteRow

LEMMA NothingDrawn ==
    ASSUME NEW old, NEW a
    PROVE  DrawDot(old, NoColour, a) = old
BY DEF DrawDot, SetObjPixel

(* What DrawObject does to a dot of the screen, for an object whose matrix *)
(* is the identity: the colour it has there, if any, is drawn.             *)
LEMMA DrawnDot ==
    ASSUME NEW frame, NEW a \in Attributes, NEW mapping, ~Hidden(a), Identity(a), Fits(a),
           NEW at \in Screen
    PROVE  DrawObject(frame, a, mapping)[at] = DrawDot(frame[at], Upright(a, mapping, at), a)
<1> DEFINE sprite == TempSprite(a, mapping)
           Dots == {d \in Area(a) : Covers(a, at, d)}
           dot  == CHOOSE d \in Dots : TRUE
<1>1. DrawObject(frame, a, mapping)[at] =
        IF Dots = {} THEN frame[at] ELSE DrawDot(frame[at], sprite[SpriteAt(a, dot[1], dot[2])], a)
  <2> DEFINE Raw == {d \in Area(a) :
                       /\ at = <<(a.xCoord + d[1]) % MAX_SPRITE_X,
                                 (a.yCoord + d[2]) % MAX_SPRITE_Y>>
                       /\ SpriteAt(a, d[1], d[2]) \in DOMAIN sprite}
             rawDot == CHOOSE d \in Raw : TRUE
  <2>1. DrawObject(frame, a, mapping)[at] =
          IF Raw = {} THEN frame[at]
          ELSE DrawDot(frame[at], sprite[SpriteAt(a, rawDot[1], rawDot[2])], a)
    BY Zenon DEF DrawObject, Area
  <2>2. Raw = Dots
    BY SpriteDomain, Zenon DEF Covers
  <2> QED BY <2>1, <2>2, Zenon
<1> HIDE DEF sprite, dot
<1>2. CASE InSprite(a, at)
  <2>1. Dots = {DotOf(a, at)}
    BY <1>2, DotsOf, DotInArea
  <2>2. dot = DotOf(a, at)
    BY <2>1 DEF dot
  <2>3. SpriteAt(a, dot[1], dot[2]) = SpriteDot(a, at)
    BY <2>2, DotOfSprite
  <2>4. Upright(a, mapping, at) = sprite[SpriteDot(a, at)]
    BY <1>2, UprightIs DEF sprite
  <2> QED BY <1>1, <2>1, <2>3, <2>4
<1>3. CASE ~InSprite(a, at)
  <2>1. Dots = {}
    BY <1>3, DotsOf
  <2>2. Upright(a, mapping, at) = NoColour
    BY <1>3, UprightIs
  <2> QED BY <1>1, <2>1, <2>2, NothingDrawn
<1> QED BY <1>2, <1>3

-----------------------------------------------------------------------------
(* The frames on the way: from the last object to the first.               *)
Blank == [at \in Screen |-> EmptyObjPixel]
Step(objects, mapping, from, i) ==
    IF i = OAM_ENTRIES THEN Blank
    ELSE IF Hidden(objects[i]) THEN from[i + 1]
    ELSE DrawObject(from[i + 1], objects[i], mapping)

Frames(objects, mapping) ==
    CHOOSE from : from = [i \in 0 .. OAM_ENTRIES |-> Step(objects, mapping, from, i)]

LEMMA DrawnIs ==
    ASSUME NEW objects, NEW mapping
    PROVE  Drawn(objects, mapping) = Frames(objects, mapping)[0]
BY Zenon DEF Drawn, Frames, Step, Blank

LEMMA SomeFramesExist ==
    ASSUME NEW objects, NEW mapping
    PROVE  \A k \in Nat : k <= OAM_ENTRIES =>
              \E g : g = [i \in OAM_ENTRIES - k .. OAM_ENTRIES |-> Step(objects, mapping, g, i)]
<1> DEFINE N == OAM_ENTRIES
           S == {k \in Nat : k <= N =>
                   \E g : g = [i \in N - k .. N |-> Step(objects, mapping, g, i)]}
<1>1. N \in Nat
  BY ObjectsAssumption
<1> HIDE DEF N
<1>2. 0 \in S
  <2> DEFINE g == [i \in N - 0 .. N |-> Blank]
  <2>1. \A i \in N - 0 .. N : i = N
    BY <1>1
  <2>2. g = [i \in N - 0 .. N |-> Step(objects, mapping, g, i)]
    BY <2>1 DEF Step, N
  <2> QED BY <2>2
<1>3. ASSUME NEW k \in Nat, k \in S
      PROVE  k + 1 \in S
  <2> SUFFICES ASSUME k + 1 <= N
               PROVE  \E g : g = [i \in N - (k + 1) .. N |-> Step(objects, mapping, g, i)]
    OBVIOUS
  <2>1. PICK g : g = [i \in N - k .. N |-> Step(objects, mapping, g, i)]
    BY <1>1, <1>3
  <2> DEFINE n == N - (k + 1)
             h == [i \in n .. N |-> IF i = n THEN Step(objects, mapping, g, n) ELSE g[i]]
  <2>2. n \in Nat /\ n < N /\ N - k = n + 1
    BY <1>1
  <2> HIDE DEF n
  <2>3. \A i \in n .. N : i # n => i \in n + 1 .. N
    BY <1>1, <2>2
  <2>4. \A i \in n .. N : i # N => i + 1 \in n + 1 .. N /\ i + 1 \in n .. N /\ i + 1 # n
    BY <1>1, <2>2
  <2>5. \A i \in n .. N : i # N => h[i + 1] = g[i + 1]
    BY <2>4
  <2>6. \A i \in n .. N : Step(objects, mapping, h, i) = Step(objects, mapping, g, i)
    <3> HIDE DEF h
    <3> QED BY <2>5 DEF Step, N
  <2>7. \A i \in n + 1 .. N : g[i] = Step(objects, mapping, g, i)
    BY <2>1, <2>2
  <2>8. h = [i \in n .. N |-> Step(objects, mapping, h, i)]
    <3>1. \A i \in n .. N : h[i] = Step(objects, mapping, g, i)
      BY <2>3, <2>7
    <3>2. \A i \in n .. N : h[i] = Step(objects, mapping, h, i)
      BY <2>6, <3>1
    <3>3. h = [i \in n .. N |-> h[i]]
      OBVIOUS
    <3> HIDE DEF h
    <3> QED BY <3>2, <3>3
  <2> HIDE DEF h
  <2> QED BY <2>8 DEF n
<1> HIDE DEF S
<1>4. \A k \in Nat : k \in S
  BY <1>2, <1>3, Induction
<1> QED BY <1>4 DEF S, N

FramesOf(objects, mapping) ==
    /\ Frames(objects, mapping)[OAM_ENTRIES] = Blank
    /\ \A i \in 0 .. OAM_ENTRIES - 1 :
         Frames(objects, mapping)[i] =
           IF Hidden(objects[i]) THEN Frames(objects, mapping)[i + 1]
           ELSE DrawObject(Frames(objects, mapping)[i + 1], objects[i], mapping)

LEMMA FramesStep ==
    ASSUME NEW objects, NEW mapping
    PROVE  FramesOf(objects, mapping)
<1> DEFINE N == OAM_ENTRIES
           f == Frames(objects, mapping)
<1>1. N \in Nat /\ N - N = 0 /\ N <= N
  BY ObjectsAssumption
<1>2. \E g : g = [i \in 0 .. N |-> Step(objects, mapping, g, i)]
  <2>1. \E g : g = [i \in N - N .. N |-> Step(objects, mapping, g, i)]
    BY <1>1, SomeFramesExist, Zenon
  <2> QED BY <1>1, <2>1
<1>3. f = [i \in 0 .. N |-> Step(objects, mapping, f, i)]
  BY <1>2, Zenon DEF Frames
<1> HIDE DEF f, N
<1>4. \A i \in 0 .. N : f[i] = Step(objects, mapping, f, i)
  <2> TAKE i \in 0 .. N
  <2> QED BY <1>3, Zenon
<1>5. \A i \in 0 .. N - 1 : i \in 0 .. N /\ i # N
  BY <1>1
<1>6. N \in 0 .. N
  BY <1>1
<1> QED BY <1>4, <1>5, <1>6 DEF Step, FramesOf, N, f

-----------------------------------------------------------------------------
(* What the frame has at a dot when the objects from entry i on have been  *)
(* drawn: the invariant of the loop of DrawObjects.                        *)
Memory == {o \in [0 .. OAM_ENTRIES - 1 -> Attributes] :
             \A i \in 0 .. OAM_ENTRIES - 1 : Fits(o[i])}
AllUpright(o) == \A i \in 0 .. OAM_ENTRIES - 1 : Identity(o[i])

ColourOf(o, mapping, at, i) ==
    IF Hidden(o[i]) THEN NoColour ELSE Upright(o[i], mapping, at)

Window(o, mapping, at, i) == o[i].objMode = 2 /\ ColourOf(o, mapping, at, i) # NoColour
SeenFrom(o, mapping, at, i) ==
    {j \in i .. OAM_ENTRIES - 1 : ColourOf(o, mapping, at, j) # NoColour /\ o[j].objMode # 2}
WinsOver(o, i, j) == \/ o[i].priority < o[j].priority
                     \/ o[i].priority = o[j].priority /\ i <= j
Hides(o, j, i)   == j > i /\ o[j].priority < o[i].priority

Shows(p, o, mapping, at, f) ==
    /\ p.pixel = ColourOf(o, mapping, at, f)
    /\ p.prio = o[f].priority
    /\ p.transparency <=> o[f].objMode = 1

PixelRight(p, o, mapping, at, i) ==
    \/ SeenFrom(o, mapping, at, i) = {} /\ p.pixel = NoColour /\ p.prio = 5
    \/ \E f \in SeenFrom(o, mapping, at, i) :
          /\ \A j \in SeenFrom(o, mapping, at, i) : WinsOver(o, f, j)
          /\ Shows(p, o, mapping, at, f)

MaskRight(p, o, mapping, at, i) ==
    p.mask <=> \E w \in i .. OAM_ENTRIES - 1 :
                  /\ Window(o, mapping, at, w)
                  /\ \A j \in SeenFrom(o, mapping, at, i) : ~Hides(o, j, w)

IsPixel(p) == p = [pixel |-> p.pixel, prio |-> p.prio, transparency |-> p.transparency,
                   mask |-> p.mask]

RightFrom(p, o, mapping, at, i) ==
    /\ IsPixel(p) /\ p.mask \in BOOLEAN
    /\ PixelRight(p, o, mapping, at, i)
    /\ MaskRight(p, o, mapping, at, i)

LEMMA NothingYet ==
    ASSUME NEW o, NEW mapping, NEW at
    PROVE  RightFrom(EmptyObjPixel, o, mapping, at, OAM_ENTRIES)
<1>1. OAM_ENTRIES .. OAM_ENTRIES - 1 = {}
  BY ObjectsAssumption
<1>2. SeenFrom(o, mapping, at, OAM_ENTRIES) = {}
  BY <1>1 DEF SeenFrom
<1> QED BY <1>1, <1>2 DEF RightFrom, IsPixel, PixelRight, MaskRight, EmptyObjPixel

LEMMA OneMore ==
    ASSUME NEW o \in Memory, NEW mapping, NEW at, NEW i \in 0 .. OAM_ENTRIES - 1, NEW p,
           RightFrom(p, o, mapping, at, i + 1)
    PROVE  RightFrom(DrawDot(p, ColourOf(o, mapping, at, i), o[i]), o, mapping, at, i)
<1> DEFINE a == o[i]
           c == ColourOf(o, mapping, at, i)
           q == DrawDot(p, c, a)
           N == OAM_ENTRIES
           Seen  == SeenFrom(o, mapping, at, i + 1)
           Seen2 == SeenFrom(o, mapping, at, i)
           W(w)  == Window(o, mapping, at, w)
           G(j)  == o[j].priority
<1>1. N \in Nat /\ i \in Nat /\ i < N
  BY ObjectsAssumption
<1>2. a.priority \in 0 .. 3 /\ \A j \in 0 .. N - 1 : G(j) \in 0 .. 3
  BY DEF Memory, Attributes
<1>3. /\ i .. N - 1 = {i} \cup (i + 1 .. N - 1)
      /\ \A j \in i + 1 .. N - 1 : j \in 0 .. N - 1 /\ j \in Nat /\ j > i
  BY <1>1
<1>4. /\ Seen \subseteq i + 1 .. N - 1
      /\ Seen2 = IF c # NoColour /\ a.objMode # 2 THEN {i} \cup Seen ELSE Seen
  BY <1>3 DEF SeenFrom
<1>5. IsPixel(p) /\ p.mask \in BOOLEAN
  BY DEF RightFrom
<1>6. \/ Seen = {} /\ p.pixel = NoColour /\ p.prio = 5
      \/ \E f \in Seen : (\A j \in Seen : WinsOver(o, f, j)) /\ Shows(p, o, mapping, at, f)
  BY DEF RightFrom, PixelRight
<1>7. p.mask <=> \E w \in i + 1 .. N - 1 : W(w) /\ \A j \in Seen : ~Hides(o, j, w)
  BY DEF RightFrom, MaskRight
<1>8. /\ q = IF p.prio < a.priority \/ c = NoColour THEN p
            ELSE IF a.objMode = 2 THEN [p EXCEPT !.mask = TRUE]
            ELSE [pixel |-> c, prio |-> a.priority, transparency |-> a.objMode = 1,
                  mask |-> p.mask]
  BY DEF DrawDot, SetObjPixel
<1>9. W(i) <=> c # NoColour /\ a.objMode = 2
  BY DEF Window
\* What comes later is not hidden by object i.
<1>10. \A w \in i + 1 .. N - 1 : ~Hides(o, i, w)
  BY <1>1 DEF Hides
<1>11. (\E w \in i + 1 .. N - 1 : W(w) /\ \A j \in Seen2 : ~Hides(o, j, w)) <=> p.mask
  BY <1>4, <1>7, <1>10
<1>12. MaskRight(q, o, mapping, at, i)
         <=> (q.mask <=> (p.mask \/ (W(i) /\ \A j \in Seen2 : ~Hides(o, j, i))))
  <2>1. MaskRight(q, o, mapping, at, i)
          <=> (q.mask <=> \E w \in i .. N - 1 : W(w) /\ \A j \in Seen2 : ~Hides(o, j, w))
    BY Zenon DEF MaskRight
  <2> HIDE DEF W, Seen2, q
  <2> QED BY <1>3, <1>11, <2>1, Zenon
\* The priority of the pixel is the least of those seen.
<1>13. p.prio \in 0 .. 5 /\ (Seen = {} => p.prio = 5) /\ \A j \in Seen : p.prio <= G(j)
  BY <1>2, <1>3, <1>4, <1>6 DEF WinsOver, Shows
<1>14. p.prio < a.priority => \E j \in Seen : G(j) = p.prio
  BY <1>2, <1>6, <1>13 DEF Shows
<1>15. PixelRight(q, o, mapping, at, i) <=>
         \/ Seen2 = {} /\ q.pixel = NoColour /\ q.prio = 5
         \/ \E f \in Seen2 : (\A j \in Seen2 : WinsOver(o, f, j)) /\ Shows(q, o, mapping, at, f)
  BY Zenon DEF PixelRight
<1> HIDE DEF Seen, Seen2, W, q, c
<1>16. CASE c = NoColour
  <2>1. q = p /\ Seen2 = Seen /\ ~W(i)
    BY <1>4, <1>8, <1>9, <1>16
  <2> QED BY <1>5, <1>6, <1>12, <1>15, <2>1 DEF RightFrom, q, c
<1>17. CASE c # NoColour /\ p.prio < a.priority
  <2>1. q = p
    BY <1>8, <1>17
  <2>2. PICK f \in Seen : (\A j \in Seen : WinsOver(o, f, j)) /\ Shows(p, o, mapping, at, f)
    BY <1>6, <1>14, <1>17
  <2>3. G(f) = p.prio
    BY <2>2 DEF Shows
  <2>4. WinsOver(o, f, i)
    BY <1>17, <2>3 DEF WinsOver
  <2>5. f \in Seen2 /\ \A j \in Seen2 : WinsOver(o, f, j)
    BY <1>4, <2>2, <2>4
  <2>6. PixelRight(q, o, mapping, at, i)
    BY <1>15, <2>1, <2>2, <2>5, Zenon
  <2>7. Hides(o, f, i)
    BY <1>3, <1>4, <1>17, <2>3 DEF Hides
  <2>8. MaskRight(q, o, mapping, at, i)
    BY <1>12, <2>1, <2>5, <2>7, Zenon
  <2> QED BY <1>5, <2>1, <2>6, <2>8 DEF RightFrom, q, c
<1>18. CASE c # NoColour /\ ~(p.prio < a.priority) /\ a.objMode = 2
  <2>1. q = [p EXCEPT !.mask = TRUE] /\ Seen2 = Seen /\ W(i)
    BY <1>4, <1>8, <1>9, <1>18
  <2>2. q.mask = TRUE /\ q.pixel = p.pixel /\ q.prio = p.prio /\ q.transparency = p.transparency
        /\ IsPixel(q)
    BY <1>5, <2>1 DEF IsPixel
  <2>3. \A j \in Seen2 : ~Hides(o, j, i)
    BY <1>2, <1>3, <1>4, <1>13, <1>18, <2>1 DEF Hides
  <2>4. MaskRight(q, o, mapping, at, i)
    BY <1>12, <2>1, <2>2, <2>3
  <2>5. PixelRight(q, o, mapping, at, i)
    BY <1>6, <1>15, <2>1, <2>2, Zenon DEF Shows
  <2> QED BY <2>2, <2>4, <2>5 DEF RightFrom, q, c
<1>19. CASE c # NoColour /\ ~(p.prio < a.priority) /\ a.objMode # 2
  <2>1. /\ q = [pixel |-> c, prio |-> a.priority, transparency |-> a.objMode = 1, mask |-> p.mask]
        /\ Seen2 = {i} \cup Seen /\ ~W(i)
    BY <1>4, <1>8, <1>9, <1>19
  <2>2. /\ q.mask = p.mask /\ q.pixel = c /\ q.prio = a.priority
        /\ (q.transparency <=> a.objMode = 1) /\ IsPixel(q)
    BY <2>1 DEF IsPixel
  <2>3. Shows(q, o, mapping, at, i)
    BY <2>2 DEF Shows, c
  <2>4. \A j \in Seen2 : WinsOver(o, i, j)
    BY <1>1, <1>2, <1>3, <1>4, <1>13, <1>19, <2>1 DEF WinsOver
  <2>5. PixelRight(q, o, mapping, at, i)
    BY <1>15, <2>1, <2>3, <2>4
  <2>6. MaskRight(q, o, mapping, at, i)
    BY <1>12, <2>1, <2>2
  <2> QED BY <1>5, <2>2, <2>5, <2>6 DEF RightFrom, q, c
<1> QED BY <1>16, <1>17, <1>18, <1>19

LEMMA FramesRight ==
    ASSUME NEW o \in Memory, AllUpright(o), NEW mapping, NEW at \in Screen
    PROVE  RightFrom(Drawn(o, mapping)[at], o, mapping, at, 0)
<1> DEFINE N == OAM_ENTRIES
           F(i) == Frames(o, mapping)[i]
           S == {k \in Nat : k <= N => RightFrom(F(N - k)[at], o, mapping, at, N - k)}
<1>1. N \in Nat
  BY ObjectsAssumption
<1>2. F(N) = Blank
  BY FramesStep, Zenon DEF FramesOf
<1>3. ASSUME NEW i \in 0 .. N - 1
      PROVE  F(i)[at] = DrawDot(F(i + 1)[at], ColourOf(o, mapping, at, i), o[i])
  <2>1. F(i) = IF Hidden(o[i]) THEN F(i + 1) ELSE DrawObject(F(i + 1), o[i], mapping)
    BY FramesStep, Zenon DEF FramesOf
  <2>2. o[i] \in Attributes /\ Fits(o[i]) /\ Identity(o[i])
    BY DEF Memory, AllUpright
  <2> HIDE DEF F
  <2>3. CASE Hidden(o[i])
    BY <2>1, <2>3, NothingDrawn, Zenon DEF ColourOf
  <2>4. CASE ~Hidden(o[i])
    <3> DEFINE a == o[i]
               f == F(i + 1)
    <3>1. a \in Attributes /\ Fits(a) /\ Identity(a) /\ ~Hidden(a)
      BY <2>2, <2>4
    <3> HIDE DEF a, f
    <3>2. DrawObject(f, a, mapping)[at] = DrawDot(f[at], Upright(a, mapping, at), a)
      BY <3>1, DrawnDot
    <3> QED BY <2>1, <2>4, <3>2, Zenon DEF ColourOf, a, f
  <2> QED BY <2>3, <2>4
<1> HIDE DEF F, N
<1>4. 0 \in S
  <2>1. F(N)[at] = EmptyObjPixel
    BY <1>2 DEF Blank
  <2>2. RightFrom(F(N)[at], o, mapping, at, N)
    BY <2>1, NothingYet DEF N
  <2>3. N - 0 = N
    BY <1>1
  <2> QED BY <2>2, <2>3
<1>5. ASSUME NEW k \in Nat, k \in S
      PROVE  k + 1 \in S
  <2> SUFFICES ASSUME k + 1 <= N
               PROVE  RightFrom(F(N - (k + 1))[at], o, mapping, at, N - (k + 1))
    OBVIOUS
  <2> DEFINE i == N - (k + 1)
  <2>1. i \in 0 .. N - 1 /\ N - k = i + 1
    BY <1>1
  <2>2. RightFrom(F(i + 1)[at], o, mapping, at, i + 1)
    BY <1>1, <1>5, <2>1
  <2> HIDE DEF i
  <2>3. RightFrom(DrawDot(F(i + 1)[at], ColourOf(o, mapping, at, i), o[i]), o, mapping, at, i)
    BY <2>1, <2>2, OneMore DEF N
  <2>4. RightFrom(F(i)[at], o, mapping, at, i)
    BY <1>3, <2>1, <2>3
  <2> QED BY <2>4 DEF i
<1> HIDE DEF S
<1>6. N \in S
  BY <1>1, <1>4, <1>5, Induction
<1>7. N - N = 0 /\ N <= N
  BY <1>1
<1>8. RightFrom(F(0)[at], o, mapping, at, 0)
  BY <1>6, <1>7 DEF S
<1> QED BY <1>8, DrawnIs DEF F

ObjectsIInv == /\ oam \in Memory
               /\ drawn.oam \in Memory
               /\ objFb = Drawn(drawn.oam, drawn.mapping)

LEMMA GuestMemory ==
    \A i \in 0 .. OAM_ENTRIES - 1 : \A a \in GuestObjects[i] : a \in Attributes /\ Fits(a)
BY ObjectsAssumption, Zenon DEF Fits

LEMMA ObjectsStart == InitObjects => ObjectsIInv
<1> SUFFICES ASSUME InitObjects PROVE ObjectsIInv
  OBVIOUS
<1> DEFINE I == 0 .. OAM_ENTRIES - 1
<1>1. oam = [i \in I |-> CHOOSE a \in GuestObjects[i] : TRUE]
  BY DEF InitObjects
<1>2. \A i \in I : oam[i] \in GuestObjects[i]
  <2> TAKE i \in I
  <2>1. GuestObjects[i] # {}
    BY ObjectsAssumption, Zenon
  <2>2. (CHOOSE a \in GuestObjects[i] : TRUE) \in GuestObjects[i]
    BY <2>1
  <2> QED BY <1>1, <2>2
<1>3. oam \in Memory
  BY <1>1, <1>2, GuestMemory DEF Memory
<1>4. drawn.oam = oam /\ drawn.mapping = objMapping /\ objFb = Drawn(oam, objMapping)
  BY DEF InitObjects
<1> QED BY <1>3, <1>4 DEF ObjectsIInv

LEMMA ObjectsStep == ObjectsIInv /\ [NextObject]_objectVars => ObjectsIInv'
<1> SUFFICES ASSUME ObjectsIInv, [NextObject]_objectVars PROVE ObjectsIInv'
  OBVIOUS
<1>1. ASSUME NEW i \in DOMAIN oam, NEW a \in GuestObjects[i], StoreObject(i, a)
      PROVE  ObjectsIInv'
  <2>1. oam \in Memory /\ i \in 0 .. OAM_ENTRIES - 1
    BY DEF ObjectsIInv, Memory
  <2>2. a \in Attributes /\ Fits(a)
    BY <2>1, GuestMemory
  <2>3. oam' = [oam EXCEPT ![i] = a] /\ UNCHANGED <<objFb, drawn>>
    BY <1>1 DEF StoreObject
  <2>4. oam' \in Memory
    BY <2>1, <2>2, <2>3 DEF Memory
  <2> QED BY <2>3, <2>4 DEF ObjectsIInv
<1>2. CASE StoreMapping
  BY <1>2 DEF StoreMapping, ObjectsIInv
<1>3. CASE DrawObjects
  BY <1>3 DEF DrawObjects, ObjectsIInv
<1>4. CASE UNCHANGED objectVars
  BY <1>4 DEF objectVars, ObjectsIInv
<1> QED BY <1>1, <1>2, <1>3, <1>4 DEF NextObject

LEMMA ObjectsRight == ObjectsIInv => ObjectsOrdered
<1> SUFFICES ASSUME ObjectsIInv PROVE ObjectsOrdered
  OBVIOUS
<1> DEFINE o == drawn.oam
           m == drawn.mapping
           I == 0 .. OAM_ENTRIES - 1
           Seen(at) == SeenFrom(o, m, at, 0)
           Best(at) == CHOOSE i \in Seen(at) : \A j \in Seen(at) : WinsOver(o, i, j)
<1>1. o \in Memory /\ DOMAIN o = I /\ objFb = Drawn(o, m)
  BY DEF ObjectsIInv, Memory
<1> SUFFICES ASSUME AllUpright(o), NEW at \in Screen
             PROVE  /\ IF Seen(at) = {} THEN objFb[at].pixel = NoColour /\ objFb[at].prio = 5
                       ELSE Shows(objFb[at], o, m, at, Best(at))
                    /\ objFb[at].mask <=> \E i \in I :
                                             /\ Window(o, m, at, i)
                                             /\ ~\E j \in Seen(at) : Hides(o, j, i)
  <2> DEFINE D == DOMAIN o
             Seen2(at) == {i \in D : ColourOf(o, m, at, i) # NoColour /\ o[i].objMode # 2}
             Best2(at) == CHOOSE i \in Seen2(at) : \A j \in Seen2(at) : WinsOver(o, i, j)
  <2>1. ObjectsOrdered <=>
          ((\A i \in D : Identity(o[i])) =>
           \A at \in Screen :
             /\ IF Seen2(at) = {} THEN objFb[at].pixel = NoColour /\ objFb[at].prio = 5
                ELSE Shows(objFb[at], o, m, at, Best2(at))
             /\ objFb[at].mask <=> \E i \in D :
                                      /\ o[i].objMode = 2
                                      /\ ColourOf(o, m, at, i) # NoColour
                                      /\ ~\E j \in Seen2(at) : Hides(o, j, i))
    BY Zenon DEF ObjectsOrdered, WinsOver, Shows, Hides, ColourOf
  <2>2. D = I
    BY <1>1
  <2>3. \A at \in Screen : Seen2(at) = Seen(at)
    BY <2>2, Zenon DEF SeenFrom
  <2>4. \A at \in Screen : Best2(at) = Best(at)
    BY <2>3, Zenon
  <2> HIDE DEF Seen2, Best2, Seen, Best, D
  <2> QED BY <2>1, <2>2, <2>3, <2>4, Zenon DEF AllUpright, Window
<1> DEFINE p == objFb[at]
<1>2. RightFrom(p, o, m, at, 0)
  BY <1>1, FramesRight
<1>3. p.mask <=> \E i \in I : Window(o, m, at, i) /\ ~\E j \in Seen(at) : Hides(o, j, i)
  BY <1>2, Zenon DEF RightFrom, MaskRight
<1>4. \/ Seen(at) = {} /\ p.pixel = NoColour /\ p.prio = 5
      \/ \E f \in Seen(at) : (\A j \in Seen(at) : WinsOver(o, f, j)) /\ Shows(p, o, m, at, f)
  BY <1>2, Zenon DEF RightFrom, PixelRight
<1>5. ASSUME NEW f \in Seen(at), \A j \in Seen(at) : WinsOver(o, f, j)
      PROVE  Best(at) = f
  <2>1. Best(at) \in Seen(at) /\ \A j \in Seen(at) : WinsOver(o, Best(at), j)
    BY <1>5
  <2> DEFINE b == Best(at)
  <2>2. \A i \in Seen(at) : i \in Int /\ o[i].priority \in Int
    <3> TAKE i \in Seen(at)
    <3>1. i \in I
      BY DEF SeenFrom
    <3>2. o[i] \in Attributes
      BY <1>1, <3>1 DEF Memory
    <3>3. i \in Int
      BY <3>1, ObjectsAssumption
    <3> QED BY <3>2, <3>3 DEF Attributes
  <2>3. WinsOver(o, b, f) /\ WinsOver(o, f, b)
    BY <1>5, <2>1
  <2>5. b \in Seen(at)
    BY <2>1
  <2> HIDE DEF b, Seen
  <2>4. b = f
    BY <1>5, <2>2, <2>3, <2>5 DEF WinsOver
  <2> QED BY <2>4 DEF b
<1> HIDE DEF p, Best
<1>6. IF Seen(at) = {} THEN p.pixel = NoColour /\ p.prio = 5 ELSE Shows(p, o, m, at, Best(at))
  BY <1>4, <1>5
<1> QED BY <1>3, <1>6 DEF p

(* Of the objects that have a colour at a dot the frame shows the one of   *)
(* the best priority, and of several the first in OAM, and a dot is in the *)
(* object window exactly if a window object has a colour there that no     *)
(* better object further back has covered, whatever the guest has stored   *)
(* in OAM as long as the matrices are the identity: PPU::DrawObjects.      *)
THEOREM ObjectsInOrder == ObjectsSpec => []ObjectsOrdered
<1>1. InitObjects => ObjectsIInv
  BY ObjectsStart
<1>2. ObjectsIInv /\ [NextObject]_objectVars => ObjectsIInv'
  BY ObjectsStep
<1>3. ObjectsIInv => ObjectsOrdered
  BY ObjectsRight
<1> QED BY <1>1, <1>2, <1>3, PTL DEF ObjectsSpec

-----------------------------------------------------------------------------
(* The layers.  What one line has of the registers and the objects.        *)
PrioritiesOk == [BGs -> 0 .. 3]

ObjDotOk(o) ==
    /\ o.pixel \in BOOLEAN /\ o.transparency \in BOOLEAN /\ o.mask \in BOOLEAN
    /\ o.prio \in {0, 1, 2, 3, 5}
    /\ o.pixel => o.prio # 5 /\ started
    /\ ~o.pixel /\ started => o.prio = 5

LayersIInv ==
    /\ dispcnt \in GuestDisplays
    /\ bldcnt.first \subseteq AllLayers /\ bldcnt.second \subseteq AllLayers
    /\ bldCnt.first \subseteq AllLayers /\ bldCnt.second \subseteq AllLayers
    /\ bgcnt \in PrioritiesOk /\ bgCnt \in PrioritiesOk
    /\ \A bg \in BGs : bg \notin fresh => bgCnt[bg] = bgcnt[bg]
    /\ started \in BOOLEAN
    /\ \A x \in Columns : ObjDotOk(objRow[x])

LEMMA LayersStart == InitLayers => LayersIInv
<1> SUFFICES ASSUME InitLayers PROVE LayersIInv
  OBVIOUS
<1>1. bgcnt \in PrioritiesOk /\ bgCnt = bgcnt
  BY DEF InitLayers, PrioritiesOk
<1>2. PICK p \in {0, 5} : objRow = [x \in Columns |-> [NoObject EXCEPT !.prio = p]]
  BY DEF InitLayers
<1>3. \A x \in Columns : ObjDotOk(objRow[x])
  BY <1>2 DEF ObjDotOk, NoObject, InitLayers
<1>4. bldcnt.first \subseteq AllLayers /\ bldcnt.second \subseteq AllLayers
  BY LayersAssumption, Zenon DEF InitLayers
<1>5. bldCnt.first \subseteq AllLayers /\ bldCnt.second \subseteq AllLayers
  BY DEF InitLayers
<1>6. dispcnt \in GuestDisplays /\ started = FALSE
  BY DEF InitLayers
<1> QED BY <1>1, <1>3, <1>4, <1>5, <1>6 DEF LayersIInv

LEMMA ActiveBGs == Active \subseteq BGs
BY DEF Active, ModeLayers, BGs

LEMMA Refreshes ==
    ASSUME LayersIInv
    PROVE  /\ RefreshedCnt \in PrioritiesOk
           /\ \A bg \in Active : RefreshedCnt[bg] = bgcnt[bg]
           /\ \A bg \in BGs : bg \notin fresh \ Active => RefreshedCnt[bg] = bgcnt[bg]
BY ActiveBGs DEF RefreshedCnt, PrioritiesOk, LayersIInv

LEMMA LayersStep == LayersIInv /\ [NextLayer]_layerVars => LayersIInv'
<1> SUFFICES ASSUME LayersIInv, [NextLayer]_layerVars PROVE LayersIInv'
  OBVIOUS
<1> DEFINE Kept == UNCHANGED <<objRow, started>>
<1>1. ASSUME Kept
      PROVE  \A x \in Columns : ObjDotOk(objRow[x])'
  BY <1>1 DEF LayersIInv, ObjDotOk
<1>2. CASE StoreDispCnt
  BY <1>1, <1>2 DEF StoreDispCnt, LayersIInv
<1>3. CASE StoreWindows
  BY <1>1, <1>3 DEF StoreWindows, LayersIInv
<1>4. CASE StoreBlend
  <2>1. bldcnt'.first \subseteq AllLayers /\ bldcnt'.second \subseteq AllLayers
    BY <1>4, LayersAssumption, Zenon DEF StoreBlend
  <2> QED BY <1>1, <1>4, <2>1 DEF StoreBlend, LayersIInv
<1>5. ASSUME NEW bg \in BGs, NEW priority \in GuestPriorities[bg], StoreControl(bg, priority)
      PROVE  LayersIInv'
  <2>1. priority \in 0 .. 3
    BY LayersAssumption
  <2>2. bgcnt' = [bgcnt EXCEPT ![bg] = priority] /\ fresh' = fresh \cup {bg} /\ bgCnt' = bgCnt
    BY <1>5 DEF StoreControl
  <2>3. bgcnt' \in PrioritiesOk /\ bgCnt' \in PrioritiesOk
    BY <2>1, <2>2 DEF LayersIInv, PrioritiesOk
  <2>4. \A c \in BGs : c \notin fresh' => bgCnt'[c] = bgcnt'[c]
    BY <2>2 DEF LayersIInv, PrioritiesOk
  <2> QED BY <1>1, <1>5, <2>3, <2>4 DEF StoreControl, LayersIInv
<1>6. CASE DrawLine
  <2>1. bgCnt' = RefreshedCnt /\ bgcnt' = bgcnt /\ fresh' = fresh \ Active
    BY <1>6 DEF DrawLine
  <2>2. \A bg \in BGs : bg \notin fresh' => bgCnt'[bg] = bgcnt'[bg]
    BY <2>1, Refreshes
  <2>3. bgCnt' \in PrioritiesOk
    BY <2>1, Refreshes
  <2> QED BY <1>1, <1>6, <2>2, <2>3 DEF DrawLine, LayersIInv
<1>7. CASE VBlank
  <2>1. objRow' \in [Columns -> ObjDots] /\ started' = TRUE
    BY <1>7, LayersAssumption DEF VBlank
  <2>2. \A x \in Columns : ObjDotOk(objRow[x])'
    <3> SUFFICES ASSUME NEW x \in Columns PROVE ObjDotOk(objRow[x])'
      BY DEF Columns
    <3>1. objRow'[x] \in ObjDots
      BY <2>1
    <3> QED BY <2>1, <3>1 DEF ObjDotOk, ObjDots
  <2> QED BY <1>7, <2>1, <2>2 DEF VBlank, LayersIInv
<1>8. CASE FrameEnd
  BY <1>1, <1>8 DEF FrameEnd, LayersIInv
<1>9. CASE UNCHANGED layerVars
  BY <1>1, <1>9 DEF layerVars, LayersIInv
<1> QED BY <1>2, <1>3, <1>4, <1>5, <1>6, <1>7, <1>8, <1>9 DEF NextLayer

LEMMA WindowIs ==
    ASSUME LayersIInv, NEW x \in Columns
    PROVE  GetActiveWindow(x) = Inside(x)
<1> DEFINE H(w) == IF w = "Obj" THEN objRow[x].mask ELSE InRange(winRegs[w], x, vcount)
           W  == dispcnt.windows
           In == {w \in W : H(w)}
           R  == WindowRank
           least == CHOOSE w \in In : \A v \in In : R[w] <= R[v]
<1>1. W \subseteq {"Win0", "Win1", "Obj"}
  BY LayersAssumption, Zenon DEF LayersIInv
<1>2. R["Win0"] = 0 /\ R["Win1"] = 1 /\ R["Obj"] = 2
  BY DEF WindowRank
<1>3. Inside(x) = CASE W = {} -> BGs \cup {Sprites, Effects}
                    [] W # {} /\ In = {} -> winRegs.inside["Outside"]
                    [] OTHER -> winRegs.inside[least]
  BY Zenon DEF Inside
<1>4. GetActiveWindow(x) =
        IF "Win0" \in In THEN winRegs.inside["Win0"]
        ELSE IF "Win1" \in In THEN winRegs.inside["Win1"]
        ELSE IF "Obj" \in In THEN winRegs.inside["Obj"]
        ELSE IF W # {} THEN winRegs.inside["Outside"]
        ELSE BGs \cup {Sprites, Effects}
  <2>1. /\ "Win0" \in In <=> InRange(winRegs["Win0"], x, vcount) /\ "Win0" \in W
        /\ "Win1" \in In <=> InRange(winRegs["Win1"], x, vcount) /\ "Win1" \in W
        /\ "Obj" \in In <=> objRow[x].mask /\ "Obj" \in W
    OBVIOUS
  <2> HIDE DEF In
  <2> QED BY <2>1, Zenon DEF GetActiveWindow
<1>5. In \subseteq {"Win0", "Win1", "Obj"} /\ (In # {} => W # {})
  BY <1>1
<1>6. ASSUME NEW w \in In, \A v \in In : R[w] <= R[v]
      PROVE  least = w
  <2>1. least \in In /\ \A v \in In : R[least] <= R[v]
    BY <1>6
  <2> HIDE DEF least, In, R
  <2>2. R[least] <= R[w] /\ R[w] <= R[least]
    BY <1>6, <2>1
  <2> QED BY <1>2, <1>5, <2>1, <2>2
<1> HIDE DEF In, R, W, least
<1>7. CASE "Win0" \in In
  <2>1. least = "Win0"
    BY <1>2, <1>5, <1>6, <1>7
  <2> QED BY <1>3, <1>4, <1>5, <1>7, <2>1
<1>8. CASE "Win0" \notin In /\ "Win1" \in In
  <2>1. least = "Win1"
    BY <1>2, <1>5, <1>6, <1>8
  <2> QED BY <1>3, <1>4, <1>5, <1>8, <2>1
<1>9. CASE "Win0" \notin In /\ "Win1" \notin In /\ "Obj" \in In
  <2>1. least = "Obj"
    BY <1>2, <1>5, <1>6, <1>9
  <2> QED BY <1>3, <1>4, <1>5, <1>9, <2>1
<1>10. CASE "Win0" \notin In /\ "Win1" \notin In /\ "Obj" \notin In
  <2>1. In = {}
    BY <1>5, <1>10
  <2> QED BY <1>3, <1>4, <1>10, <2>1
<1> QED BY <1>7, <1>8, <1>9, <1>10

\* Which of two backgrounds is drawn first, by these priorities.
DrawnBefore(p, a, b) == p[a] < p[b] \/ (p[a] = p[b] /\ a <= b)

LEMMA FirstIs ==
    ASSUME NEW S, S \subseteq BGs, NEW p \in PrioritiesOk
    PROVE  /\ S = {} => FirstDrawn(S, p) = NoLayer
           /\ S # {} => FirstDrawn(S, p) \in S /\ \A b \in S : DrawnBefore(p, FirstDrawn(S, p), b)
<1>1. CASE S = {}
  BY <1>1 DEF FirstDrawn
<1>2. CASE S # {}
  <2> DEFINE Score(a) == a + 4 * p[a]
             T == {n \in Nat : \E a \in S : Score(a) = n}
             f == CHOOSE a \in S : \A b \in S : Score(a) <= Score(b)
  <2>1. \A a \in S : a \in 0 .. 3 /\ p[a] \in 0 .. 3 /\ Score(a) \in Nat
    BY DEF BGs, PrioritiesOk
  <2> HIDE DEF Score
  <2>2. T # {}
    BY <1>2, <2>1
  <2>3. PICK n \in T : \A m \in T : ~(<<m, n>> \in Earlier)
    BY <2>2, NaturalsFounded, WFMin
  <2>4. PICK a \in S : Score(a) = n
    BY <2>3
  <2>5. \A b \in S : Score(a) <= Score(b)
    <3> TAKE b \in S
    <3>1. Score(b) \in T
      BY <2>1
    <3>2. ~(Score(b) < n)
      BY <2>1, <2>3, <2>4, <3>1 DEF Earlier
    <3> QED BY <2>1, <2>4, <3>2
  <2>6. f \in S /\ \A b \in S : Score(f) <= Score(b)
    BY <2>5
  <2>7. FirstDrawn(S, p) = f
    BY <1>2, Zenon DEF FirstDrawn, Score
  <2> HIDE DEF f
  <2>8. \A b \in S : DrawnBefore(p, f, b)
    BY <2>1, <2>6 DEF DrawnBefore, Score
  <2> QED BY <1>2, <2>6, <2>7, <2>8
<1> QED BY <1>1, <1>2

-----------------------------------------------------------------------------
(* The parts of MergeDot, for the dot at a column.                         *)
Opaque(x)    == {bg \in Active : bg \in Inside(x) /\ x \in Picture[bg]}
First(x)     == FirstDrawn(Opaque(x), bgCnt)
Behind(x)    == FirstDrawn(Opaque(x) \ {First(x)}, bgCnt)
FirstPrio(x) == IF First(x) = NoLayer THEN 5 ELSE RefreshedCnt[First(x)]
OnTop(x)     == Sprites \in Inside(x) /\ objRow[x].prio <= FirstPrio(x)
Top(x)       == IF ~OnTop(x) THEN First(x)
                ELSE IF objRow[x].pixel THEN Sprites ELSE NoLayer
Target(x)    == (IF OnTop(x) THEN Sprites ELSE First(x)) \in bldCnt.first
Forced(x)    == OnTop(x) /\ objRow[x].transparency
Second(x)    == IF OnTop(x) THEN First(x)
                ELSE BelowTop(Behind(x), RefreshedCnt, Inside(x), objRow[x])
Plainly(top) == [top |-> top, below |-> NoLayer, effect |-> "None"]

LEMMA DotIs ==
    ASSUME LayersIInv, NEW x \in Columns
    PROVE  MergeDot(bgCnt, RefreshedCnt, x) =
             IF Top(x) = NoLayer THEN Plainly(Backdrop)
             ELSE IF Forced(x) THEN SetSFXPixel(Top(x), Second(x), "AlphaBlending")
             ELSE IF Target(x) /\ Effects \in Inside(x)
             THEN SetSFXPixel(Top(x), Second(x), bldCnt.effect)
             ELSE Plainly(Top(x))
<1> DEFINE T == Top(x) = NoLayer
           F == Forced(x)
           E == Target(x) /\ Effects \in Inside(x)
<1>1. MergeDot(bgCnt, RefreshedCnt, x) =
        CASE T -> Plainly(Backdrop)
          [] ~T /\ F -> SetSFXPixel(Top(x), Second(x), "AlphaBlending")
          [] ~T /\ ~F /\ Target(x) /\ Effects \in Inside(x) ->
               SetSFXPixel(Top(x), Second(x), bldCnt.effect)
          [] OTHER -> Plainly(Top(x))
  BY WindowIs, Zenon
     DEF MergeDot, Opaque, First, Behind, FirstPrio, OnTop, Top, Target, Forced, Second, Plainly
<1> HIDE DEF T, F
<1>2. CASE T
  BY <1>1, <1>2 DEF T
<1>3. CASE ~T /\ F
  BY <1>1, <1>3 DEF T, F
<1>4. CASE ~T /\ ~F /\ E
  BY <1>1, <1>4 DEF T, F
<1>5. CASE ~T /\ ~F /\ ~E
  BY <1>1, <1>5 DEF T, F
<1> QED BY <1>2, <1>3, <1>4, <1>5

SFXTop(dot, top, second, effect) ==
    LET below == IF second = NoLayer /\ Backdrop \in bldCnt.second THEN Backdrop ELSE second
    IN  /\ dot.top = top
        /\ effect # "AlphaBlending" => dot.effect = effect
        /\ effect = "AlphaBlending" => /\ dot.below = below
                                       /\ dot.effect = IF below = NoLayer THEN "None" ELSE effect

LEMMA SFXIs ==
    ASSUME NEW top, NEW second, NEW effect
    PROVE  SFXTop(SetSFXPixel(top, second, effect), top, second, effect)
BY DEF SFXTop, SetSFXPixel

\* What is shown at a column, in these terms.
Facts(x) ==
    /\ Opaque(x) \subseteq BGs /\ Opaque(x) \subseteq Active
    /\ Shown(x) = Opaque(x) \cup
                     (IF Sprites \in Inside(x) /\ objRow[x].pixel THEN {Sprites} ELSE {})
    /\ IF Opaque(x) = {} THEN First(x) = NoLayer
       ELSE First(x) \in Opaque(x) /\ \A bg \in Opaque(x) : DrawnBefore(bgCnt, First(x), bg)
    /\ IF Opaque(x) \ {First(x)} = {} THEN Behind(x) = NoLayer
       ELSE /\ Behind(x) \in Opaque(x) \ {First(x)}
            /\ \A bg \in Opaque(x) \ {First(x)} : DrawnBefore(bgCnt, Behind(x), bg)
    /\ FirstPrio(x) \in {0, 1, 2, 3, 5} /\ (FirstPrio(x) = 5 <=> Opaque(x) = {})

LEMMA FactsHold ==
    ASSUME LayersIInv, NEW x \in Columns
    PROVE  Facts(x)
<1>1. /\ Opaque(x) \subseteq BGs /\ Opaque(x) \subseteq Active
      /\ Sprites \notin Active /\ NoLayer \notin BGs
  <2>1. Opaque(x) \subseteq Active
    BY DEF Opaque
  <2>2. Sprites \notin BGs /\ NoLayer \notin BGs
    BY DEF Sprites, NoLayer, BGs
  <2> QED BY <2>1, <2>2, ActiveBGs
<1>2. Shown(x) = Opaque(x) \cup (IF Sprites \in Inside(x) /\ objRow[x].pixel THEN {Sprites} ELSE {})
  BY <1>1 DEF Shown, Opaque
<1>3. bgCnt \in PrioritiesOk /\ RefreshedCnt \in PrioritiesOk
  BY Refreshes DEF LayersIInv
<1>4. IF Opaque(x) = {} THEN First(x) = NoLayer
      ELSE First(x) \in Opaque(x) /\ \A bg \in Opaque(x) : DrawnBefore(bgCnt, First(x), bg)
  BY <1>1, <1>3, FirstIs, Zenon DEF First
<1>5. IF Opaque(x) \ {First(x)} = {} THEN Behind(x) = NoLayer
      ELSE /\ Behind(x) \in Opaque(x) \ {First(x)}
           /\ \A bg \in Opaque(x) \ {First(x)} : DrawnBefore(bgCnt, Behind(x), bg)
  <2> DEFINE S == Opaque(x) \ {First(x)}
  <2>1. S \subseteq BGs
    BY <1>1
  <2> HIDE DEF S
  <2>2. IF S = {} THEN FirstDrawn(S, bgCnt) = NoLayer
        ELSE /\ FirstDrawn(S, bgCnt) \in S
             /\ \A bg \in S : DrawnBefore(bgCnt, FirstDrawn(S, bgCnt), bg)
    BY <1>3, <2>1, FirstIs, Zenon
  <2> QED BY <2>2, Zenon DEF Behind, S
<1>6. FirstPrio(x) \in {0, 1, 2, 3, 5} /\ (FirstPrio(x) = 5 <=> Opaque(x) = {})
  BY <1>1, <1>3, <1>4 DEF FirstPrio, PrioritiesOk
<1> QED BY <1>1, <1>2, <1>4, <1>5, <1>6 DEF Facts

LEMMA DotTop ==
    ASSUME LayersIInv, NEW x \in Columns
    PROVE  MergeDot(bgCnt, RefreshedCnt, x).top = IF Top(x) = NoLayer THEN Backdrop ELSE Top(x)
BY DotIs, SFXIs DEF SFXTop, Plainly

LEMMA TopShown ==
    ASSUME LayersIInv, NEW x \in Columns
    PROVE  /\ Top(x) \in Shown(x) \cup {NoLayer}
           /\ started /\ Shown(x) # {} => Top(x) # NoLayer
<1>1. Facts(x) /\ ObjDotOk(objRow[x])
  BY FactsHold DEF LayersIInv
<1>2. Sprites # NoLayer /\ NoLayer \notin BGs
  BY DEF Sprites, NoLayer, BGs
<1> HIDE DEF Sprites, NoLayer
<1>3. Top(x) \in Shown(x) \cup {NoLayer}
  BY <1>1, <1>2 DEF Facts, Top, OnTop
<1>4. ASSUME started, Shown(x) # {}
      PROVE  Top(x) # NoLayer
  <2>1. CASE OnTop(x)
    <3>1. objRow[x].pixel
      <4> SUFFICES ASSUME ~objRow[x].pixel PROVE FALSE
        OBVIOUS
      <4>1. objRow[x].prio = 5 /\ FirstPrio(x) = 5
        BY <1>1, <1>4, <2>1 DEF ObjDotOk, OnTop, Facts
      <4> QED BY <1>1, <1>4, <4>1 DEF Facts
    <3> QED BY <1>2, <2>1, <3>1 DEF Top
  <2>2. CASE ~OnTop(x)
    <3>1. Opaque(x) # {}
      <4> SUFFICES ASSUME Opaque(x) = {} PROVE FALSE
        OBVIOUS
      <4>1. FirstPrio(x) = 5 /\ Sprites \in Inside(x)
        BY <1>1, <1>4 DEF Facts
      <4> QED BY <1>1, <2>2, <4>1 DEF OnTop, ObjDotOk
    <3>2. First(x) \in BGs
      BY <1>1, <3>1 DEF Facts
    <3> QED BY <1>2, <2>2, <3>2 DEF Top
  <2> QED BY <2>1, <2>2
<1> QED BY <1>3, <1>4

-----------------------------------------------------------------------------
(* Which layer is in front, once no priority is fresh.                     *)
Ahead(x, m, k) == Rank(m, x) < Rank(k, x)

Ranks(x) ==
    /\ \A bg \in Opaque(x) : /\ bg \in 0 .. 3 /\ bgcnt[bg] \in 0 .. 3
                             /\ bgCnt[bg] = bgcnt[bg] /\ RefreshedCnt[bg] = bgcnt[bg]
                             /\ Rank(bg, x) = 5 * bgcnt[bg] + 1 + bg
    /\ Rank(Sprites, x) = 5 * objRow[x].prio
    /\ Rank(Backdrop, x) = 20
    /\ Opaque(x) # {} => FirstPrio(x) = bgcnt[First(x)]

LEMMA RanksHold ==
    ASSUME LayersIInv, Settled, NEW x \in Columns
    PROVE  Ranks(x)
<1>1. Facts(x) /\ ObjDotOk(objRow[x])
  BY FactsHold DEF LayersIInv
<1>2. ASSUME NEW bg \in Opaque(x)
      PROVE  /\ bg \in 0 .. 3 /\ bgcnt[bg] \in 0 .. 3
             /\ bgCnt[bg] = bgcnt[bg] /\ RefreshedCnt[bg] = bgcnt[bg]
             /\ Rank(bg, x) = 5 * bgcnt[bg] + 1 + bg
  <2>1. bg \in BGs /\ bg \in Active /\ bg \notin fresh
    BY <1>1 DEF Facts, Settled
  <2>2. bgCnt[bg] = bgcnt[bg] /\ RefreshedCnt[bg] = bgcnt[bg] /\ bgcnt[bg] \in 0 .. 3
    BY <2>1, Refreshes DEF LayersIInv, PrioritiesOk
  <2>3. bg \in 0 .. 3 /\ bg # Sprites /\ bg # Backdrop
    BY <2>1 DEF BGs, Sprites, Backdrop
  <2>4. Rank(bg, x) = 5 * bgcnt[bg] + 1 + bg
    BY <2>3 DEF Rank
  <2> QED BY <2>2, <2>3, <2>4
<1>3. Rank(Sprites, x) = 5 * objRow[x].prio /\ Rank(Backdrop, x) = 20
  BY DEF Rank, Sprites, Backdrop
<1>4. Opaque(x) # {} => FirstPrio(x) = bgcnt[First(x)]
  <2> SUFFICES ASSUME Opaque(x) # {} PROVE FirstPrio(x) = bgcnt[First(x)]
    OBVIOUS
  <2>1. First(x) \in Opaque(x)
    BY <1>1 DEF Facts
  <2>2. First(x) # NoLayer
    BY <1>2, <2>1 DEF NoLayer
  <2> QED BY <1>2, <2>1, <2>2 DEF FirstPrio
<1> QED BY <1>2, <1>3, <1>4 DEF Ranks

LEMMA FrontIs ==
    ASSUME NEW x, NEW L, NEW m \in L, \A k \in L : Rank(k, x) \in Int,
           \A k \in L : k = m \/ Ahead(x, m, k)
    PROVE  Frontmost(L, x) = m
<1> DEFINE f == CHOOSE l \in L : \A k \in L : Rank(l, x) <= Rank(k, x)
<1>1. \A k \in L : Rank(m, x) <= Rank(k, x)
  BY DEF Ahead
<1>2. f \in L /\ \A k \in L : Rank(f, x) <= Rank(k, x)
  BY <1>1
<1>3. Frontmost(L, x) = f
  BY DEF Frontmost
<1> HIDE DEF f
<1>4. f = m
  BY <1>2 DEF Ahead
<1> QED BY <1>3, <1>4

\* The ranks there are, of what is shown.
LEMMA RankTypes ==
    ASSUME LayersIInv, Settled, NEW x \in Columns
    PROVE  \A l \in Shown(x) \cup {Backdrop} :
             Rank(l, x) \in 0 .. 20 /\ (l # Backdrop => Rank(l, x) < 20)
<1>1. Facts(x) /\ ObjDotOk(objRow[x]) /\ Ranks(x)
  BY FactsHold, RanksHold DEF LayersIInv
<1> SUFFICES ASSUME NEW l \in Shown(x) \cup {Backdrop}
             PROVE  Rank(l, x) \in 0 .. 20 /\ (l # Backdrop => Rank(l, x) < 20)
  OBVIOUS
<1>2. CASE l = Backdrop
  BY <1>1, <1>2 DEF Ranks
<1>3. CASE l = Sprites /\ l \in Shown(x) /\ l \notin Opaque(x)
  <2>1. objRow[x].pixel
    BY <1>1, <1>3 DEF Facts
  <2>2. objRow[x].prio \in 0 .. 3
    BY <1>1, <2>1 DEF ObjDotOk
  <2>3. Rank(l, x) = 5 * objRow[x].prio
    BY <1>1, <1>3 DEF Ranks
  <2> QED BY <2>2, <2>3
<1>4. CASE l \in Opaque(x)
  BY <1>1, <1>4 DEF Ranks
<1> QED BY <1>1, <1>2, <1>3, <1>4 DEF Facts

\* Of two backgrounds the one drawn first is ahead.
LEMMA DrawnAhead ==
    ASSUME LayersIInv, Settled, NEW x \in Columns, NEW a \in Opaque(x), NEW b \in Opaque(x),
           DrawnBefore(bgCnt, a, b)
    PROVE  (a = b \/ Ahead(x, a, b)) /\ bgcnt[a] <= bgcnt[b]
BY RanksHold DEF Ranks, DrawnBefore, Ahead

LEMMA SpriteOverAll ==
    ASSUME LayersIInv, Settled, NEW x \in Columns, OnTop(x)
    PROVE  /\ \A bg \in Opaque(x) : Ahead(x, Sprites, bg)
           /\ ~objRow[x].pixel => Opaque(x) = {}
<1>1. Facts(x) /\ ObjDotOk(objRow[x]) /\ Ranks(x)
  BY FactsHold, RanksHold DEF LayersIInv
<1>2. ASSUME NEW bg \in Opaque(x)
      PROVE  Ahead(x, Sprites, bg)
  <2>1. First(x) \in Opaque(x) /\ DrawnBefore(bgCnt, First(x), bg)
    BY <1>1 DEF Facts
  <2>2. bgcnt[First(x)] <= bgcnt[bg]
    BY <2>1, DrawnAhead
  <2>3. objRow[x].prio <= bgcnt[First(x)]
    BY <1>1 DEF OnTop, Ranks
  <2>4. objRow[x].prio \in Int /\ bgcnt[First(x)] \in Int /\ bgcnt[bg] \in 0 .. 3 /\ bg \in 0 .. 3
    BY <1>1, <2>1 DEF ObjDotOk, Ranks
  <2>5. Rank(Sprites, x) = 5 * objRow[x].prio /\ Rank(bg, x) = 5 * bgcnt[bg] + 1 + bg
    BY <1>1 DEF Ranks
  <2> QED BY <2>2, <2>3, <2>4, <2>5 DEF Ahead
<1>3. ASSUME ~objRow[x].pixel
      PROVE  Opaque(x) = {}
  BY <1>1, <1>3 DEF Facts, OnTop, ObjDotOk, Settled
<1> QED BY <1>2, <1>3

LEMMA FirstOverSprite ==
    ASSUME LayersIInv, Settled, NEW x \in Columns, ~OnTop(x), Sprites \in Inside(x)
    PROVE  Opaque(x) # {} /\ Ahead(x, First(x), Sprites)
<1>1. Facts(x) /\ ObjDotOk(objRow[x]) /\ Ranks(x)
  BY FactsHold, RanksHold DEF LayersIInv
<1>2. FirstPrio(x) < objRow[x].prio /\ FirstPrio(x) \in {0, 1, 2, 3, 5}
  BY <1>1 DEF OnTop, Facts, ObjDotOk
<1>3. Opaque(x) # {}
  BY <1>1, <1>2 DEF Facts, ObjDotOk
<1>4. First(x) \in Opaque(x) /\ FirstPrio(x) = bgcnt[First(x)]
  BY <1>1, <1>3 DEF Facts, Ranks
<1> DEFINE f == First(x)
           p == objRow[x].prio
<1>5. f \in 0 .. 3 /\ Rank(f, x) = 5 * bgcnt[f] + 1 + f /\ Rank(Sprites, x) = 5 * p
      /\ bgcnt[f] < p /\ bgcnt[f] \in Int /\ p \in Int
  BY <1>1, <1>2, <1>4 DEF Ranks, ObjDotOk
<1> HIDE DEF f, p
<1>6. Rank(f, x) < Rank(Sprites, x)
  BY <1>5
<1> QED BY <1>3, <1>6 DEF Ahead, f

LEMMA TopFront ==
    ASSUME LayersIInv, Settled, NEW x \in Columns
    PROVE  (IF Top(x) = NoLayer THEN Backdrop ELSE Top(x)) = Frontmost(Shown(x) \cup {Backdrop}, x)
<1> DEFINE L == Shown(x) \cup {Backdrop}
           S == Opaque(x)
<1>1. Facts(x) /\ Ranks(x) /\ ObjDotOk(objRow[x])
  BY FactsHold, RanksHold DEF LayersIInv
<1>2. \A k \in L : Rank(k, x) \in Int
  BY RankTypes
<1>3. ASSUME NEW m \in Shown(x), m # Backdrop
      PROVE  Ahead(x, m, Backdrop)
  BY <1>1, <1>3, RankTypes DEF Ahead, Ranks
<1>4. /\ Sprites # Backdrop /\ Sprites # NoLayer
      /\ \A bg \in S : bg # Backdrop /\ bg # NoLayer /\ bg # Sprites
  BY <1>1 DEF Facts, BGs, Sprites, Backdrop, NoLayer
<1>5. L = S \cup (IF Sprites \in Inside(x) /\ objRow[x].pixel THEN {Sprites} ELSE {})
            \cup {Backdrop}
  BY <1>1 DEF Facts
<1> HIDE DEF Sprites, Backdrop, NoLayer
<1>6. CASE Shown(x) = {}
  <2>1. Top(x) = NoLayer
    BY <1>6, TopShown
  <2>2. Frontmost(L, x) = Backdrop
    BY <1>2, <1>6, FrontIs
  <2> QED BY <2>1, <2>2
<1>7. CASE Shown(x) # {} /\ OnTop(x)
  <2>1. objRow[x].pixel /\ Sprites \in Inside(x)
    BY <1>1, <1>7, SpriteOverAll DEF Facts, OnTop
  <2>2. Top(x) = Sprites /\ Sprites \in L /\ Sprites \in Shown(x)
    BY <1>1, <1>5, <1>7, <2>1 DEF Top, Facts
  <2>3. \A k \in L : k = Sprites \/ Ahead(x, Sprites, k)
    BY <1>3, <1>4, <1>5, <1>7, <2>2, SpriteOverAll
  <2>4. Frontmost(L, x) = Sprites
    BY <1>2, <2>2, <2>3, FrontIs
  <2> QED BY <1>4, <2>2, <2>4
<1>8. CASE Shown(x) # {} /\ ~OnTop(x)
  <2>1. S # {}
    BY <1>1, <1>8, FirstOverSprite DEF Facts
  <2>2. First(x) \in S /\ \A bg \in S : DrawnBefore(bgCnt, First(x), bg)
    BY <1>1, <2>1 DEF Facts
  <2>3. \A bg \in S : bg = First(x) \/ Ahead(x, First(x), bg)
    BY <2>2, DrawnAhead
  <2>4. First(x) \in Shown(x)
    BY <1>1, <2>2 DEF Facts
  <2>5. \A k \in L : k = First(x) \/ Ahead(x, First(x), k)
    BY <1>3, <1>4, <1>5, <1>8, <2>2, <2>3, <2>4, FirstOverSprite
  <2>6. Frontmost(L, x) = First(x)
    BY <1>2, <2>4, <2>5, FrontIs
  <2> QED BY <1>4, <1>8, <2>2, <2>6 DEF Top
<1> QED BY <1>6, <1>7, <1>8

LEMMA LineLayered ==
    ASSUME LayersIInv, Layered, NEW x \in Columns
    PROVE  row'[x] = MergeDot(bgCnt, RefreshedCnt, x)
<1>1. row' = CASE dispcnt.bgMode <= 2 -> [y \in Columns |-> MergeDot(bgCnt, RefreshedCnt, y)]
               [] dispcnt.bgMode \in {3, 4} ->
                    [y \in Columns |-> [top |-> Bitmap, below |-> NoLayer, effect |-> "None"]]
               [] OTHER -> NoRow
  BY Zenon DEF Layered, DrawLine
<1>2. dispcnt.bgMode <= 2 /\ dispcnt.bgMode \in 0 .. 7
  BY LayersAssumption, Zenon DEF Layered, LayersIInv
<1>3. dispcnt.bgMode \notin {3, 4}
  BY <1>2
<1>4. row' = [y \in Columns |-> MergeDot(bgCnt, RefreshedCnt, y)]
  BY <1>1, <1>2, <1>3, Zenon
<1> QED BY <1>4, Zenon

LEMMA OneDotOrdered ==
    ASSUME LayersIInv, Layered, NEW x \in Columns
    PROVE  LET top == row'[x].top
           IN  /\ top \in Shown(x) \cup {Backdrop}
               /\ started /\ Shown(x) # {} => top # Backdrop
               /\ Settled => top = Frontmost(Shown(x) \cup {Backdrop}, x)
<1>1. row'[x].top = IF Top(x) = NoLayer THEN Backdrop ELSE Top(x)
  BY LineLayered, DotTop
<1>2. Top(x) \in Shown(x) \cup {NoLayer} /\ (started /\ Shown(x) # {} => Top(x) # NoLayer)
  BY TopShown
<1>3. Settled => row'[x].top = Frontmost(Shown(x) \cup {Backdrop}, x)
  BY <1>1, TopFront
<1>4. Backdrop \notin Shown(x)
  <2>1. Facts(x)
    BY FactsHold
  <2> QED BY <2>1 DEF Facts, BGs, Sprites, Backdrop
<1> QED BY <1>1, <1>2, <1>3, <1>4

(* A line shows, at every dot, a layer that has a colour there and that    *)
(* the window lets through, and the frontmost of them as long as no shown  *)
(* background has been stored to since a line last drew it; and the        *)
(* backdrop only where there is nothing else, after the first VBlank:      *)
(* PPU::DrawLine and MergeRows, for all registers, maps and objects.       *)
THEOREM FrontmostShown == LayersSpec => LayersOrdered
<1>1. InitLayers => LayersIInv
  BY LayersStart
<1>2. LayersIInv /\ [NextLayer]_layerVars => LayersIInv'
  BY LayersStep
<1>3. LayersIInv /\ [NextLayer]_layerVars =>
        [Layered => \A x \in Columns :
            LET top == row'[x].top
            IN  /\ top \in Shown(x) \cup {Backdrop}
                /\ started /\ Shown(x) # {} => top # Backdrop
                /\ Settled => top = Frontmost(Shown(x) \cup {Backdrop}, x)]_layerVars
  BY OneDotOrdered
<1> QED BY <1>1, <1>2, <1>3, PTL DEF LayersSpec, LayersOrdered

-----------------------------------------------------------------------------
(* The effects.                                                            *)
BehindOf(x, top) == (Shown(x) \cup {Backdrop}) \ {top}

\* Under an object on top there is the first background, if there is one.
LEMMA BehindSprite ==
    ASSUME LayersIInv, Settled, NEW x \in Columns, OnTop(x), Top(x) # NoLayer
    PROVE  /\ Top(x) = Sprites /\ Sprites \in Inside(x) /\ objRow[x].pixel
           /\ BehindOf(x, Sprites) = Opaque(x) \cup {Backdrop}
           /\ Frontmost(BehindOf(x, Sprites), x) = IF First(x) = NoLayer THEN Backdrop ELSE First(x)
           /\ \A k \in Opaque(x) \cup {Backdrop} : Ahead(x, Sprites, k)
           /\ Opaque(x) = {} <=> First(x) = NoLayer
           /\ Opaque(x) # {} => First(x) \in Opaque(x)
<1> DEFINE S == Opaque(x)
           L == S \cup {Backdrop}
<1>1. Facts(x) /\ Ranks(x) /\ ObjDotOk(objRow[x])
  BY FactsHold, RanksHold DEF LayersIInv
<1>2. Top(x) = Sprites /\ Sprites \in Inside(x) /\ objRow[x].pixel
  BY DEF Top, OnTop
<1>3. Sprites # Backdrop /\ \A bg \in S : bg # Backdrop /\ bg # NoLayer /\ bg # Sprites
  BY <1>1 DEF Facts, BGs, Sprites, Backdrop, NoLayer
<1>4. BehindOf(x, Sprites) = L
  BY <1>1, <1>2, <1>3 DEF BehindOf, Facts
<1>5. \A k \in L : Rank(k, x) \in Int
  BY <1>1, RankTypes DEF Facts
<1>6. \A m \in Shown(x) : Ahead(x, m, Backdrop)
  <2>1. Backdrop \notin Shown(x)
    BY <1>1, <1>3 DEF Facts
  <2> QED BY <1>1, <2>1, RankTypes DEF Ahead, Ranks
<1>7. Sprites \in Shown(x)
  BY <1>1, <1>2 DEF Facts
<1>8. \A k \in L : Ahead(x, Sprites, k)
  BY <1>6, <1>7, SpriteOverAll
<1>9. S = {} <=> First(x) = NoLayer
  BY <1>1, <1>3 DEF Facts
<1>10. S # {} => First(x) \in S /\ \A bg \in S : DrawnBefore(bgCnt, First(x), bg)
  BY <1>1 DEF Facts
<1>11. CASE S = {}
  <2>1. Frontmost(L, x) = Backdrop
    BY <1>5, <1>11, FrontIs
  <2> QED BY <1>2, <1>4, <1>8, <1>9, <1>10, <1>11, <2>1
<1>12. CASE S # {}
  <2>1. First(x) \in S /\ \A bg \in S : DrawnBefore(bgCnt, First(x), bg)
    BY <1>10, <1>12
  <2>2. \A bg \in S : bg = First(x) \/ Ahead(x, First(x), bg)
    BY <2>1, DrawnAhead
  <2>3. First(x) \in Shown(x)
    BY <1>1, <2>1 DEF Facts
  <2>4. \A k \in L : k = First(x) \/ Ahead(x, First(x), k)
    BY <1>6, <2>2, <2>3
  <2>5. Frontmost(L, x) = First(x)
    BY <1>5, <2>1, <2>4, FrontIs
  <2> QED BY <1>2, <1>4, <1>8, <1>9, <1>10, <1>12, <2>5
<1> QED BY <1>11, <1>12

LEMMA LastOfAll ==
    ASSUME LayersIInv, Settled, NEW x \in Columns
    PROVE  \A m \in Shown(x) : Ahead(x, m, Backdrop) /\ m # Backdrop
<1>1. Facts(x) /\ Ranks(x)
  BY FactsHold, RanksHold
<1>2. Backdrop \notin Shown(x)
  BY <1>1 DEF Facts, BGs, Sprites, Backdrop
<1> QED BY <1>1, <1>2, RankTypes DEF Ahead, Ranks

\* Under a background there is the front one of the next background, of an
\* object that is not before the first, and of the backdrop.
LEMMA BehindBackground ==
    ASSUME LayersIInv, Settled, NEW x \in Columns, ~OnTop(x), Top(x) # NoLayer
    PROVE  LET f == First(x)
               b == Behind(x)
               S == Opaque(x)
               L == BehindOf(x, f)
               object == Sprites \in Inside(x) /\ objRow[x].pixel
           IN  /\ Top(x) = f /\ f \in S /\ f # Sprites /\ f # Backdrop
               /\ L = (S \ {f}) \cup (IF object THEN {Sprites} ELSE {}) \cup {Backdrop}
               /\ \A k \in L : Ahead(x, f, k)
               /\ IF S \ {f} = {}
                  THEN b = NoLayer /\ Frontmost(L, x) = IF object THEN Sprites ELSE Backdrop
                  ELSE /\ b \in S \ {f} /\ b # NoLayer /\ RefreshedCnt[b] = bgcnt[b]
                       /\ Frontmost(L, x) = IF object /\ objRow[x].prio <= bgcnt[b]
                                            THEN Sprites ELSE b
<1> DEFINE f == First(x)
           b == Behind(x)
           S == Opaque(x)
           L == BehindOf(x, f)
           object == Sprites \in Inside(x) /\ objRow[x].pixel
           p == objRow[x].prio
<1>1. Facts(x) /\ Ranks(x) /\ ObjDotOk(objRow[x])
  BY FactsHold, RanksHold DEF LayersIInv
<1>2. Top(x) = f /\ S # {} /\ f \in S /\ \A bg \in S : DrawnBefore(bgCnt, f, bg)
  BY <1>1 DEF Top, Facts
<1>3. Sprites # Backdrop /\ \A bg \in S : bg # Backdrop /\ bg # NoLayer /\ bg # Sprites
  BY <1>1 DEF Facts, BGs, Sprites, Backdrop, NoLayer
<1>4. L = (S \ {f}) \cup (IF object THEN {Sprites} ELSE {}) \cup {Backdrop}
  BY <1>1, <1>2, <1>3 DEF BehindOf, Facts
<1>5. S \subseteq Shown(x) /\ (object => Sprites \in Shown(x))
  BY <1>1 DEF Facts
<1>6. \A m \in Shown(x) : Ahead(x, m, Backdrop)
  BY LastOfAll
<1>7. \A k \in L : Rank(k, x) \in Int
  BY <1>4, <1>5, RankTypes
<1>8. \A k \in L : Ahead(x, f, k)
  <2>1. \A bg \in S : bg = f \/ Ahead(x, f, bg)
    BY <1>2, DrawnAhead
  <2>2. object => Ahead(x, f, Sprites)
    BY FirstOverSprite
  <2> QED BY <1>2, <1>4, <1>5, <1>6, <2>1, <2>2
<1> HIDE DEF f, b, S, L
<1>9. CASE S \ {f} = {}
  <2>1. b = NoLayer
    BY <1>1, <1>9 DEF Facts, f, b, S
  <2>2. CASE object
    <3>1. Frontmost(L, x) = Sprites
      BY <1>4, <1>5, <1>6, <1>7, <1>9, <2>2, FrontIs
    <3> QED BY <1>2, <1>3, <1>4, <1>8, <1>9, <2>1, <2>2, <3>1 DEF f, b, S, L
  <2>3. CASE ~object
    <3>1. Frontmost(L, x) = Backdrop
      BY <1>4, <1>7, <1>9, <2>3, FrontIs
    <3> QED BY <1>2, <1>3, <1>4, <1>8, <1>9, <2>1, <2>3, <3>1 DEF f, b, S, L
  <2> QED BY <2>2, <2>3
<1>10. CASE S \ {f} # {}
  <2>1. b \in S \ {f} /\ \A bg \in S \ {f} : DrawnBefore(bgCnt, b, bg)
    BY <1>1, <1>10 DEF Facts, f, b, S
  <2>2. /\ RefreshedCnt[b] = bgcnt[b] /\ bgcnt[b] \in 0 .. 3 /\ b \in 0 .. 3
        /\ Rank(b, x) = 5 * bgcnt[b] + 1 + b
    BY <1>1, <2>1 DEF Ranks, S
  <2>3. \A bg \in S \ {f} : bg = b \/ Ahead(x, b, bg)
    BY <2>1, DrawnAhead DEF S
  <2>4. p \in Int /\ Rank(Sprites, x) = 5 * p
    BY <1>1 DEF ObjDotOk, Ranks
  <2>5. CASE object /\ p <= bgcnt[b]
    <3>1. \A bg \in S \ {f} : Ahead(x, Sprites, bg)
      <4>1. \A bg \in S \ {f} : bgcnt[b] <= bgcnt[bg]
        BY <2>1, DrawnAhead DEF S
      <4>2. \A bg \in S \ {f} : /\ bg \in 0 .. 3 /\ bgcnt[bg] \in 0 .. 3
                                /\ Rank(bg, x) = 5 * bgcnt[bg] + 1 + bg
        BY <1>1 DEF Ranks, S
      <4> HIDE DEF p
      <4> QED BY <2>2, <2>4, <2>5, <4>1, <4>2 DEF Ahead
    <3>2. \A k \in L : k = Sprites \/ Ahead(x, Sprites, k)
      BY <1>4, <1>5, <1>6, <2>5, <3>1
    <3>3. Frontmost(L, x) = Sprites
      BY <1>4, <1>7, <2>5, <3>2, FrontIs
    <3> QED BY <1>2, <1>3, <1>4, <1>8, <1>10, <2>1, <2>2, <2>5, <3>3 DEF f, b, S, L
  <2>6. CASE ~(object /\ p <= bgcnt[b])
    <3>1. object => Ahead(x, b, Sprites)
      <4> HIDE DEF p
      <4> QED BY <2>2, <2>4, <2>6 DEF Ahead
    <3>2. \A k \in L : k = b \/ Ahead(x, b, k)
      BY <1>4, <1>5, <1>6, <2>1, <2>3, <3>1
    <3>3. Frontmost(L, x) = b
      BY <1>4, <1>7, <2>1, <3>2, FrontIs
    <3> QED BY <1>2, <1>3, <1>4, <1>8, <1>10, <2>1, <2>2, <2>6, <3>3 DEF f, b, S, L
  <2> QED BY <2>5, <2>6
<1> QED BY <1>9, <1>10

BlendOf(second) == IF second = NoLayer /\ Backdrop \in bldCnt.second THEN Backdrop ELSE second

\* What alpha blending finds under a background.
LEMMA BlendedUnder ==
    ASSUME LayersIInv, Settled, NEW x \in Columns, ~OnTop(x), Top(x) # NoLayer,
           bldCnt.effect = "AlphaBlending"
    PROVE  LET below == BlendOf(Second(x))
               L == BehindOf(x, Top(x))
           IN  /\ below # NoLayer => /\ below \in L /\ below \in bldCnt.second
                                     /\ Ahead(x, Top(x), below)
               /\ Frontmost(L, x) \in bldCnt.second => below = Frontmost(L, x) /\ below # NoLayer
<1> DEFINE f == First(x)
           b == Behind(x)
           S == Opaque(x)
           L == BehindOf(x, f)
           object == Sprites \in Inside(x) /\ objRow[x].pixel
           p == objRow[x].prio
           second == Second(x)
           T == bldCnt.second
           n == Frontmost(L, x)
           N == IF b \in T THEN b ELSE NoLayer
<1>1. ObjDotOk(objRow[x]) /\ started /\ NoLayer \notin T /\ Ranks(x)
  BY RanksHold DEF LayersIInv, Settled, AllLayers, BGs, NoLayer, Sprites, Backdrop
<1>2. /\ Top(x) = f /\ f \in S
      /\ L = (S \ {f}) \cup (IF object THEN {Sprites} ELSE {}) \cup {Backdrop}
      /\ \A k \in L : Ahead(x, f, k)
      /\ S \ {f} = {} => b = NoLayer /\ n = IF object THEN Sprites ELSE Backdrop
      /\ S \ {f} # {} => /\ b \in S \ {f} /\ b # NoLayer /\ RefreshedCnt[b] = bgcnt[b]
                         /\ n = IF object /\ p <= bgcnt[b] THEN Sprites ELSE b
  BY BehindBackground
<1>3. second = IF Sprites \in Inside(x) /\ p <= (IF N = NoLayer THEN 5 ELSE RefreshedCnt[N])
               THEN IF Sprites \in T /\ objRow[x].pixel THEN Sprites ELSE NoLayer
               ELSE N
  BY Zenon DEF Second, BelowTop
<1>4. p <= 5 /\ (~objRow[x].pixel => p = 5)
  BY <1>1 DEF ObjDotOk
<1>5. S \ {f} # {} => bgcnt[b] \in 0 .. 3
  BY <1>1, <1>2 DEF Ranks
<1>6. Sprites # NoLayer /\ Backdrop # NoLayer
  BY DEF Sprites, Backdrop, NoLayer
<1> HIDE DEF Sprites, Backdrop, NoLayer, f, b, S, L, second, T, n, p
<1>7. CASE S \ {f} = {}
  <2>1. N = NoLayer
    BY <1>2, <1>7
  <2>2. second = IF object /\ Sprites \in T THEN Sprites ELSE NoLayer
    BY <1>3, <1>4, <2>1
  <2>3. n = IF object THEN Sprites ELSE Backdrop
    BY <1>2, <1>7
  <2>4. BlendOf(second) # NoLayer => BlendOf(second) \in L /\ BlendOf(second) \in T
    BY <1>2, <1>6, <2>2 DEF BlendOf, T
  <2>5. n \in T => BlendOf(second) = n /\ n # NoLayer
    BY <1>6, <2>2, <2>3 DEF BlendOf, T
  <2> QED BY <1>2, <2>4, <2>5 DEF L, n, T, second, f
<1>8. CASE S \ {f} # {}
  <2>1. /\ b \in S \ {f} /\ b # NoLayer /\ RefreshedCnt[b] = bgcnt[b] /\ bgcnt[b] \in 0 .. 3
        /\ n = IF object /\ p <= bgcnt[b] THEN Sprites ELSE b
    BY <1>2, <1>5, <1>8
  <2>2. p \in Int
    BY <1>1 DEF ObjDotOk, p
  <2>3. CASE object /\ p <= bgcnt[b]
    <3>1. second = IF Sprites \in T THEN Sprites ELSE NoLayer
      BY <1>3, <1>4, <2>1, <2>2, <2>3
    <3>2. n = Sprites
      BY <2>1, <2>3
    <3> QED BY <1>2, <1>6, <2>3, <3>1, <3>2 DEF BlendOf, L, n, T, second, f
  <2>4. CASE ~(object /\ p <= bgcnt[b])
    <3>1. n = b
      BY <2>1, <2>4
    <3>2. ~(Sprites \in Inside(x) /\ p <= bgcnt[b])
      BY <1>4, <2>1, <2>4
    <3>3. b \in T => second = b
      BY <1>3, <2>1, <3>2
    <3>4. b \notin T => second = IF object /\ Sprites \in T THEN Sprites ELSE NoLayer
      BY <1>3, <1>4
    <3>5. BlendOf(second) # NoLayer => BlendOf(second) \in L /\ BlendOf(second) \in T
      BY <1>2, <1>6, <2>1, <3>3, <3>4 DEF BlendOf, T
    <3>6. n \in T => BlendOf(second) = n /\ n # NoLayer
      BY <2>1, <3>1, <3>3 DEF BlendOf
    <3> QED BY <1>2, <3>5, <3>6 DEF L, n, T, second, f
  <2> QED BY <2>3, <2>4
<1> QED BY <1>7, <1>8

LEMMA BlendedSprite ==
    ASSUME LayersIInv, Settled, NEW x \in Columns, OnTop(x), Top(x) # NoLayer
    PROVE  LET below == BlendOf(Second(x))
               L == BehindOf(x, Top(x))
           IN  /\ below # NoLayer => below \in L /\ Ahead(x, Top(x), below)
               /\ Frontmost(L, x) \in bldCnt.second => below = Frontmost(L, x) /\ below # NoLayer
<1> DEFINE f == First(x)
           S == Opaque(x)
           L == BehindOf(x, Sprites)
<1>1. /\ Top(x) = Sprites
      /\ L = S \cup {Backdrop}
      /\ Frontmost(L, x) = IF f = NoLayer THEN Backdrop ELSE f
      /\ \A k \in S \cup {Backdrop} : Ahead(x, Sprites, k)
      /\ S = {} <=> f = NoLayer
      /\ S # {} => f \in S
  BY BehindSprite
<1>2. Second(x) = f
  BY DEF Second
<1>3. Backdrop # NoLayer
  BY DEF Backdrop, NoLayer
<1> HIDE DEF Sprites, Backdrop, NoLayer, f, S, L
<1> QED BY <1>1, <1>2, <1>3 DEF BlendOf, L

Aimed(x) ==
    LET dot    == row'[x]
        force  == dot.top = Sprites /\ objRow[x].transparency
        asked  == \/ dot.top \in bldCnt.first /\ Effects \in Inside(x)
                  \/ force
        effect == IF force THEN "AlphaBlending" ELSE bldCnt.effect
        behind == (Shown(x) \cup {Backdrop}) \ {dot.top}
        next   == Frontmost(behind, x)
    IN  /\ dot.effect # "None" => asked /\ dot.effect = effect
        /\ dot.effect = "AlphaBlending" =>
              /\ dot.below \in behind
              /\ Rank(dot.top, x) < Rank(dot.below, x)
              /\ dot.top = Sprites \/ dot.below \in bldCnt.second
        /\ dot.top # Backdrop /\ asked =>
              CASE effect = "AlphaBlending" ->
                     next \in bldCnt.second => dot.effect = effect /\ dot.below = next
                [] OTHER -> dot.effect = effect

\* The same in the terms of MergeDot, for a dot and the effect asked for.
AimedAs(dot, x, top, asked, effect) ==
    LET behind == BehindOf(x, top)
        next   == Frontmost(behind, x)
    IN  /\ dot.effect # "None" => asked /\ dot.effect = effect
        /\ dot.effect = "AlphaBlending" =>
              /\ dot.below \in behind /\ Ahead(x, top, dot.below)
              /\ top = Sprites \/ dot.below \in bldCnt.second
        /\ top # Backdrop /\ asked /\ effect = "AlphaBlending" =>
              (next \in bldCnt.second => dot.effect = effect /\ dot.below = next)
        /\ top # Backdrop /\ asked /\ effect # "AlphaBlending" => dot.effect = effect

LEMMA SFXAimed ==
    ASSUME NEW x, NEW dot, NEW top, NEW second, NEW effect, SFXTop(dot, top, second, effect),
           effect = "AlphaBlending" =>
              /\ BlendOf(second) # NoLayer =>
                    /\ BlendOf(second) \in BehindOf(x, top) /\ Ahead(x, top, BlendOf(second))
                    /\ top = Sprites \/ BlendOf(second) \in bldCnt.second
              /\ Frontmost(BehindOf(x, top), x) \in bldCnt.second =>
                    BlendOf(second) = Frontmost(BehindOf(x, top), x) /\ BlendOf(second) # NoLayer
    PROVE  AimedAs(dot, x, top, TRUE, effect)
<1> DEFINE L == BehindOf(x, top)
           n == Frontmost(L, x)
           below == BlendOf(second)
<1>1. CASE effect = "AlphaBlending"
  <2>1. dot.below = below /\ dot.effect = IF below = NoLayer THEN "None" ELSE "AlphaBlending"
    BY <1>1 DEF SFXTop, BlendOf
  <2>2. below # NoLayer => /\ below \in L /\ Ahead(x, top, below)
                           /\ (top = Sprites \/ below \in bldCnt.second)
    BY <1>1
  <2>3. n \in bldCnt.second => below = n /\ below # NoLayer
    BY <1>1
  <2> HIDE DEF below, n, L, Sprites, NoLayer
  <2>4. AimedAs(dot, x, top, TRUE, effect) <=>
          /\ dot.effect # "None" => dot.effect = effect
          /\ dot.effect = "AlphaBlending" =>
                /\ dot.below \in L /\ Ahead(x, top, dot.below)
                /\ top = Sprites \/ dot.below \in bldCnt.second
          /\ top # Backdrop /\ effect = "AlphaBlending" =>
                (n \in bldCnt.second => dot.effect = effect /\ dot.below = n)
          /\ top # Backdrop /\ effect # "AlphaBlending" => dot.effect = effect
    BY Zenon DEF AimedAs, L, n
  <2> QED BY <1>1, <2>1, <2>2, <2>3, <2>4
<1>2. CASE effect # "AlphaBlending"
  <2>1. dot.effect = effect
    BY <1>2 DEF SFXTop
  <2> QED BY <1>2, <2>1 DEF AimedAs
<1> QED BY <1>1, <1>2

LEMMA OneDotAimed ==
    ASSUME LayersIInv, Layered, Settled, NEW x \in Columns
    PROVE  Aimed(x)
<1> DEFINE dot == row'[x]
           top == IF Top(x) = NoLayer THEN Backdrop ELSE Top(x)
           force == top = Sprites /\ objRow[x].transparency
           plain == top \in bldCnt.first /\ Effects \in Inside(x)
           effect == IF force THEN "AlphaBlending" ELSE bldCnt.effect
<1>1. dot.top = top
  BY LineLayered, DotTop
<1>2. SUFFICES AimedAs(dot, x, top, plain \/ force, effect)
  <2>1. ASSUME AimedAs(dot, x, top, plain \/ force, effect)
        PROVE  Aimed(x)
    <3> DEFINE behind == BehindOf(x, top)
               next == Frontmost(behind, x)
               A == effect = "AlphaBlending"
               N == next \in bldCnt.second => dot.effect = effect /\ dot.below = next
               E == dot.effect = effect
    <3>1. CASE A
      BY <1>1, <2>1, <3>1, Zenon DEF AimedAs, Aimed, BehindOf, Ahead
    <3>2. CASE ~A
      BY <1>1, <2>1, <3>2, Zenon DEF AimedAs, Aimed, BehindOf, Ahead
    <3> QED BY <3>1, <3>2
  <2> QED BY <2>1
<1>3. dot = IF Top(x) = NoLayer THEN Plainly(Backdrop)
            ELSE IF Forced(x) THEN SetSFXPixel(Top(x), Second(x), "AlphaBlending")
            ELSE IF Target(x) /\ Effects \in Inside(x)
            THEN SetSFXPixel(Top(x), Second(x), bldCnt.effect)
            ELSE Plainly(Top(x))
  BY LineLayered, DotIs, Zenon
<1>4. Facts(x) /\ \A bg \in Opaque(x) : bg # Sprites
  BY FactsHold DEF Facts, BGs, Sprites
<1>5. Top(x) # NoLayer => (Forced(x) <=> force) /\ (Target(x) <=> top \in bldCnt.first)
  <2>1. ASSUME Top(x) # NoLayer, OnTop(x)
        PROVE  Top(x) = Sprites
    BY <2>1 DEF Top
  <2>2. ASSUME Top(x) # NoLayer, ~OnTop(x)
        PROVE  Top(x) = First(x) /\ Top(x) # Sprites
    BY <1>4, <2>2 DEF Top, Facts
  <2> QED BY <2>1, <2>2 DEF Forced, Target
<1> HIDE DEF dot, Sprites, Backdrop, NoLayer
<1>6. CASE Top(x) = NoLayer
  <2>1. dot.effect = "None" /\ top = Backdrop
    BY <1>3, <1>6 DEF Plainly
  <2> QED BY <2>1 DEF AimedAs
<1>7. ASSUME Top(x) # NoLayer, NEW e, dot = SetSFXPixel(Top(x), Second(x), e),
             OnTop(x) \/ e = bldCnt.effect
      PROVE  AimedAs(dot, x, Top(x), TRUE, e)
  <2>1. SFXTop(dot, Top(x), Second(x), e)
    BY <1>7, SFXIs
  <2> DEFINE below == BlendOf(Second(x))
             L == BehindOf(x, Top(x))
  <2>2. e = "AlphaBlending" =>
          /\ below # NoLayer =>
                /\ below \in L /\ Ahead(x, Top(x), below)
                /\ Top(x) = Sprites \/ below \in bldCnt.second
          /\ Frontmost(L, x) \in bldCnt.second => below = Frontmost(L, x) /\ below # NoLayer
    <3>1. CASE OnTop(x)
      <4>1. Top(x) = Sprites
        BY <1>7, <3>1 DEF Top
      <4> QED BY <1>7, <3>1, <4>1, BlendedSprite
    <3>2. CASE ~OnTop(x)
      BY <1>7, <3>2, BlendedUnder
    <3> QED BY <3>1, <3>2
  <2> QED BY <2>1, <2>2, SFXAimed, Zenon
<1>8. CASE Top(x) # NoLayer /\ Forced(x)
  <2>1. top = Top(x) /\ force /\ effect = "AlphaBlending" /\ OnTop(x)
    BY <1>5, <1>8 DEF Forced
  <2>2. dot = SetSFXPixel(Top(x), Second(x), "AlphaBlending")
    BY <1>3, <1>8
  <2>3. AimedAs(dot, x, top, TRUE, effect)
    BY <1>7, <1>8, <2>1, <2>2
  <2> QED BY <2>1, <2>3 DEF AimedAs
<1>9. CASE Top(x) # NoLayer /\ ~Forced(x) /\ Target(x) /\ Effects \in Inside(x)
  <2>1. top = Top(x) /\ ~force /\ plain /\ effect = bldCnt.effect
    BY <1>5, <1>9
  <2>2. dot = SetSFXPixel(Top(x), Second(x), bldCnt.effect)
    BY <1>3, <1>9
  <2>3. AimedAs(dot, x, top, TRUE, effect)
    BY <1>7, <1>9, <2>1, <2>2
  <2> QED BY <2>1, <2>3 DEF AimedAs
<1>10. CASE Top(x) # NoLayer /\ ~Forced(x) /\ ~(Target(x) /\ Effects \in Inside(x))
  <2>1. ~(plain \/ force)
    BY <1>5, <1>10
  <2>2. dot.effect = "None"
    BY <1>3, <1>10 DEF Plainly
  <2> QED BY <2>1, <2>2 DEF AimedAs
<1> QED BY <1>6, <1>8, <1>9, <1>10

(* Blending happens where it was asked for and with what lies behind: its  *)
(* top layer is a first target in a window with effects, or a half-        *)
(* transparent object; the one below is behind it and, under a background, *)
(* a second target; and a second target directly behind is blended with:   *)
(* MergeRows and SetSFXPixel, for all registers, maps and objects, as long *)
(* as no priority is fresh.                                                *)
THEOREM EffectsRight == LayersSpec => EffectsAimed
<1>1. InitLayers => LayersIInv
  BY LayersStart
<1>2. LayersIInv /\ [NextLayer]_layerVars => LayersIInv'
  BY LayersStep
<1>3. LayersIInv /\ [NextLayer]_layerVars =>
        [Layered /\ Settled => \A x \in Columns : Aimed(x)]_layerVars
  BY OneDotAimed
<1> QED BY <1>1, <1>2, <1>3, PTL DEF LayersSpec, EffectsAimed, Aimed

-----------------------------------------------------------------------------
(* The backgrounds.  First text: where the tile of a dot was fetched.      *)
FetchStep(g, hofs, size, x) ==
    IF x = 0 THEN 0
    ELSE IF (AbsoluteX(g[x - 1], hofs, size) % TILE) + (x - g[x - 1]) < TILE
         THEN g[x - 1] ELSE x

LEMMA FetchedAtIs ==
    ASSUME NEW hofs, NEW size
    PROVE  FetchedAt(hofs, size) =
             CHOOSE g : g = [x \in Columns |-> FetchStep(g, hofs, size, x)]
BY Zenon DEF FetchedAt, FetchStep

FetchedUpTo(n, hofs, size) ==
    \E g : g = [x \in 0 .. n - 1 |-> FetchStep(g, hofs, size, x)]

LEMMA SomeFetched ==
    ASSUME NEW hofs, NEW size
    PROVE  \A n \in Nat : FetchedUpTo(n, hofs, size)
<1> DEFINE S == {n \in Nat : \E g : g = [x \in 0 .. n - 1 |-> FetchStep(g, hofs, size, x)]}
<1>1. 0 \in S
  <2> DEFINE g == [x \in 0 .. 0 - 1 |-> 0]
  <2>1. g = [x \in 0 .. 0 - 1 |-> FetchStep(g, hofs, size, x)]
    OBVIOUS
  <2> QED BY <2>1
<1>2. ASSUME NEW n \in Nat, n \in S
      PROVE  n + 1 \in S
  <2>1. PICK g : g = [x \in 0 .. n - 1 |-> FetchStep(g, hofs, size, x)]
    BY <1>2
  <2> DEFINE h == [x \in 0 .. n |-> IF x = n THEN FetchStep(g, hofs, size, n) ELSE g[x]]
  <2>2. \A x \in 0 .. n : x # 0 => x - 1 \in 0 .. n - 1 /\ x - 1 \in 0 .. n /\ x - 1 # n
    OBVIOUS
  <2>3. \A x \in 0 .. n : x # 0 => h[x - 1] = g[x - 1]
    BY <2>2
  <2>4. \A x \in 0 .. n : FetchStep(h, hofs, size, x) = FetchStep(g, hofs, size, x)
    <3> HIDE DEF h
    <3> QED BY <2>3 DEF FetchStep
  <2>5. \A x \in 0 .. n - 1 : g[x] = FetchStep(g, hofs, size, x)
    BY <2>1
  <2>6. \A x \in 0 .. n : x # n => x \in 0 .. n - 1
    OBVIOUS
  <2>7. \A x \in 0 .. n : h[x] = FetchStep(h, hofs, size, x)
    BY <2>4, <2>5, <2>6
  <2>8. h = [x \in 0 .. n |-> h[x]]
    OBVIOUS
  <2> HIDE DEF h
  <2>9. h = [x \in 0 .. n |-> FetchStep(h, hofs, size, x)]
    BY <2>7, <2>8
  <2>10. (n + 1) - 1 = n
    OBVIOUS
  <2> QED BY <2>9, <2>10
<1> HIDE DEF S
<1>3. \A n \in Nat : n \in S
  BY <1>1, <1>2, Induction
<1> QED BY <1>3 DEF S, FetchedUpTo

LEMMA Fetched ==
    ASSUME NEW hofs, NEW size, NEW x \in Columns
    PROVE  FetchedAt(hofs, size)[x] = FetchStep(FetchedAt(hofs, size), hofs, size, x)
<1> DEFINE f == FetchedAt(hofs, size)
<1>1. \E g : g = [y \in Columns |-> FetchStep(g, hofs, size, y)]
  <2>1. SCREEN_WIDTH \in Nat
    BY ScreenAssumption
  <2>2. FetchedUpTo(SCREEN_WIDTH, hofs, size)
    BY <2>1, SomeFetched
  <2> QED BY <2>2, Zenon DEF FetchedUpTo, Columns
<1>2. f = [y \in Columns |-> FetchStep(f, hofs, size, y)]
  BY <1>1, FetchedAtIs, Zenon
<1> HIDE DEF f
<1>3. f[x] = FetchStep(f, hofs, size, x)
  BY <1>2
<1> QED BY <1>3 DEF f

\* The width and height of a map, in areas and in dots.
Areas(size) == <<IF size \in {1, 3} THEN 2 ELSE 1, IF size \in {2, 3} THEN 2 ELSE 1>>

LEMMA Sizes ==
    ASSUME NEW size \in 0 .. 3
    PROVE  \A i \in {1, 2} :
             /\ Areas(size)[i] \in {1, 2} /\ TextSize(size)[i] = Areas(size)[i] * AREA
             /\ AREA \in Nat \ {0} /\ AREA = TILE * TILE_AREA
             /\ TextSize(size)[i] \in Nat \ {0}
<1>1. TILE \in Nat \ {0} /\ TILE_AREA \in Nat \ {0}
  BY TilesAssumption, BackgroundsAssumption
<1>2. AREA \in Nat \ {0} /\ AREA = TILE * TILE_AREA
  BY <1>1 DEF AREA
<1> QED BY <1>2 DEF TextSize, Areas

LEMMA FetchedIn ==
    ASSUME NEW hofs \in Nat, NEW size \in 0 .. 3, NEW x \in Columns
    PROVE  /\ FetchedAt(hofs, size)[x] \in 0 .. x
           /\ (AbsoluteX(FetchedAt(hofs, size)[x], hofs, size) % TILE)
                + (x - FetchedAt(hofs, size)[x]) < TILE
<1> DEFINE f == FetchedAt(hofs, size)
           Rest(b) == AbsoluteX(b, hofs, size) % TILE
           S == {n \in Nat : n \in Columns => f[n] \in 0 .. n /\ Rest(f[n]) + (n - f[n]) < TILE}
<1>1. TILE \in Nat \ {0}
  BY TilesAssumption
<1>2. \A b \in Nat : Rest(b) \in 0 .. TILE - 1
  <2> TAKE b \in Nat
  <2>1. AbsoluteX(b, hofs, size) \in Int
    BY Sizes DEF AbsoluteX
  <2> QED BY <1>1, <2>1
<1>3. \A n \in Columns : f[n] = IF n = 0 THEN 0
                                ELSE IF Rest(f[n - 1]) + (n - f[n - 1]) < TILE
                                     THEN f[n - 1] ELSE n
  BY Fetched, Zenon DEF FetchStep
<1> HIDE DEF f, Rest
<1>4. 0 \in S
  BY <1>1, <1>2, <1>3
<1>5. ASSUME NEW n \in Nat, n \in S
      PROVE  n + 1 \in S
  <2> SUFFICES ASSUME n + 1 \in Columns
               PROVE  f[n + 1] \in 0 .. n + 1 /\ Rest(f[n + 1]) + ((n + 1) - f[n + 1]) < TILE
    OBVIOUS
  <2>1. n \in Columns /\ f[n] \in 0 .. n
    BY <1>5, ScreenAssumption DEF Columns
  <2>2. f[n + 1] = IF Rest(f[n]) + ((n + 1) - f[n]) < TILE THEN f[n] ELSE n + 1
    <3>1. (n + 1) - 1 = n /\ n + 1 # 0
      OBVIOUS
    <3> QED BY <1>3, <3>1
  <2>3. Rest(n + 1) \in 0 .. TILE - 1
    BY <1>2
  <2> QED BY <1>1, <2>1, <2>2, <2>3
<1> HIDE DEF S
<1>6. \A n \in Nat : n \in S
  BY <1>4, <1>5, Induction
<1>7. x \in Nat
  BY ScreenAssumption DEF Columns
<1> QED BY <1>6, <1>7 DEF S, f, Rest

Whole(w, t) == \E m \in Nat \ {0} : w = m * t

StaysIn(t, w, b, j) == /\ (b + j) % w = (b % w) + j
                       /\ ((b % w) + j) \div t = (b % w) \div t
                       /\ ((b % w) + j) % t = ((b % w) % t) + j

LEMMA SameTile ==
    ASSUME NEW t \in Nat \ {0}, NEW w \in Nat \ {0}, Whole(w, t),
           NEW b \in Nat, NEW j \in Nat, ((b % w) % t) + j < t
    PROVE  StaysIn(t, w, b, j)
<1> DEFINE a == b % w
           q == b \div w
           p == a \div t
           r == a % t
<1>1. a \in 0 .. w - 1 /\ q \in Int /\ b = q * w + a
  <2>1. w \in Nat /\ w > 0 /\ b \in Int
    OBVIOUS
  <2> QED BY <2>1, Division, Zenon
<1>2. a \in Int /\ t \in Nat /\ t > 0
  BY <1>1
<1>3. p \in Int /\ r \in 0 .. t - 1 /\ a = p * t + r
  BY <1>2, Division
<1> HIDE DEF a, q, p, r
<1>4. r + j \in 0 .. t - 1
  BY <1>3 DEF a, r
<1>5. a + j = p * t + (r + j)
  BY <1>1, <1>3
<1>6. (a + j) \div t = p /\ (a + j) % t = r + j
  BY <1>2, <1>3, <1>4, <1>5, Divided
<1>7. a + j \in 0 .. w - 1
  <2>0. PICK m \in Nat \ {0} : w = m * t
    BY DEF Whole
  <2>1. p < m
    <3>1. CASE p >= m
      <4>1. (p - m) * t >= 0
        BY <1>2, <1>3, <3>1
      <4>2. (p - m) * t = p * t - m * t
        BY <1>2, <1>3
      <4>3. p * t \in Int /\ m * t \in Int
        BY <1>2, <1>3
      <4> QED BY <1>1, <1>3, <2>0, <4>1, <4>2, <4>3
    <3> QED BY <1>3, <3>1
  <2>2. ((m - 1) - p) * t >= 0
    BY <1>2, <1>3, <2>1
  <2>3. ((m - 1) - p) * t = (m * t - t) - p * t
    BY <1>2, <1>3
  <2>4. p * t \in Int /\ m * t \in Int
    BY <1>2, <1>3
  <2> QED BY <1>1, <1>4, <1>5, <2>0, <2>2, <2>3, <2>4
<1>8. (b + j) % w = a + j
  <2>1. b + j = q * w + (a + j)
    <3>1. q * w \in Int
      BY <1>1
    <3> QED BY <1>1, <3>1
  <2>2. w \in Nat /\ w > 0
    OBVIOUS
  <2> QED BY <1>1, <1>7, <2>1, <2>2, Divided
<1> QED BY <1>6, <1>8 DEF a, p, r, StaysIn

\* A number by tiles and then by areas of tiles is one by areas of dots.
LEMMA Nested ==
    ASSUME NEW n \in Nat
    PROVE  /\ n \div AREA = (n \div TILE) \div TILE_AREA
           /\ (n % AREA) \div TILE = (n \div TILE) % TILE_AREA
<1> DEFINE t == TILE
           a == TILE_AREA
           d == AREA
<1>0. /\ t \in Nat /\ t > 0 /\ a \in Nat /\ a > 0
      /\ d \in Nat /\ d > 0 /\ d = t * a
  BY Sizes, TilesAssumption, BackgroundsAssumption
<1> HIDE DEF t, a, d
<1> DEFINE p == n \div t
           r == n % t
           q == p \div a
           s == p % a
           st == s * t
           rest == st + r
<1>1. p \in Int /\ r \in 0 .. t - 1 /\ n = p * t + r
  BY <1>0, Division
<1>2. q \in Int /\ s \in 0 .. a - 1 /\ p = q * a + s
  BY <1>0, <1>1, Division
<1> HIDE DEF p, r, q, s
<1>3. st \in Int /\ st >= 0 /\ st <= d - t
  <2>1. (a - 1 - s) * t >= 0
    BY <1>0, <1>2
  <2>2. (a - 1 - s) * t = (a * t - t) - s * t
    BY <1>0, <1>2
  <2>3. s * t \in Int /\ s * t >= 0 /\ a * t = d
    BY <1>0, <1>2
  <2> QED BY <1>0, <2>1, <2>2, <2>3
<1>4. n = q * d + rest
  <2>1. p * t = q * d + st
    BY <1>0, <1>1, <1>2
  <2>2. q * d \in Int /\ p * t \in Int
    BY <1>0, <1>1, <1>2
  <2> HIDE DEF st
  <2> QED BY <1>0, <1>1, <1>3, <2>1, <2>2
<1>5. rest \in 0 .. d - 1
  <2> HIDE DEF st
  <2> QED BY <1>0, <1>1, <1>3
<1>6. rest \div t = s
  BY <1>0, <1>1, <1>2, Divided
<1> HIDE DEF rest
<1>7. n \div d = q /\ n % d = rest
  BY <1>0, <1>2, <1>4, <1>5, Divided
<1> QED BY <1>6, <1>7 DEF p, q, s, t, a, d

\* Which area a dot is in, of one or two.
LEMMA AreaOf ==
    ASSUME NEW d \in Nat \ {0}, NEW k \in {1, 2}, NEW n \in Nat,
           n < d \/ (k = 2 /\ n < d + d)
    PROVE  n \div d = IF k = 1 \/ n < d THEN 0 ELSE 1
<1>1. CASE n < d
  <2>1. n \in 0 .. d - 1 /\ n = 0 * d + n
    BY <1>1
  <2>2. n \div d = 0
    BY <2>1, Divided
  <2> QED BY <1>1, <2>2
<1>2. CASE n >= d
  <2>1. n - d \in 0 .. d - 1 /\ n = 1 * d + (n - d) /\ k = 2
    BY <1>2
  <2>2. n \div d = 1
    BY <2>1, Divided
  <2> QED BY <1>2, <2>1, <2>2
<1> QED BY <1>1, <1>2

LEMMA AreaNumber ==
    ASSUME NEW size \in 0 .. 3, NEW ax \in Nat, NEW ay \in Nat,
           ax < TextSize(size)[1], ay < TextSize(size)[2]
    PROVE  GetScreenAreaOffset(ax \div TILE, ay \div TILE, size) =
             (ay \div AREA) * (TextSize(size)[1] \div AREA) + ax \div AREA
<1> DEFINE cx == ax \div AREA
           cy == ay \div AREA
           dx == (ax \div TILE) \div TILE_AREA
           dy == (ay \div TILE) \div TILE_AREA
           wide == TextSize(size)[1] \div AREA
<1>1. AREA \in Nat \ {0} /\ AREA = TILE * TILE_AREA /\ TILE \in Nat \ {0} /\ TILE_AREA \in Nat \ {0}
  BY Sizes, TilesAssumption, BackgroundsAssumption
<1>2. /\ Areas(size)[1] \in {1, 2} /\ TextSize(size)[1] = Areas(size)[1] * AREA
      /\ Areas(size)[2] \in {1, 2} /\ TextSize(size)[2] = Areas(size)[2] * AREA
  BY Sizes
<1>3. cx = dx /\ cy = dy
  BY Nested
<1>4. wide = Areas(size)[1]
  <2>1. 0 \in 0 .. AREA - 1 /\ Areas(size)[1] * AREA = Areas(size)[1] * AREA + 0
    BY <1>1, <1>2
  <2> QED BY <1>1, <1>2, <2>1, Divided
<1>5. /\ cx = IF Areas(size)[1] = 1 \/ ax < AREA THEN 0 ELSE 1
      /\ cy = IF Areas(size)[2] = 1 \/ ay < AREA THEN 0 ELSE 1
  <2>1. /\ ax < AREA \/ (Areas(size)[1] = 2 /\ ax < AREA + AREA)
        /\ ay < AREA \/ (Areas(size)[2] = 2 /\ ay < AREA + AREA)
    BY <1>1, <1>2
  <2> QED BY <1>1, <1>2, <2>1, AreaOf
<1>6. GetScreenAreaOffset(ax \div TILE, ay \div TILE, size) =
        CASE size = 0 -> 0 [] size = 1 -> dx [] size = 2 -> dy [] size = 3 -> dx + dy * 2
  BY Zenon DEF GetScreenAreaOffset
<1> HIDE DEF cx, cy, dx, dy, wide
<1> QED BY <1>3, <1>4, <1>5, <1>6 DEF Areas, cx, cy, wide

LEMMA TextDot ==
    ASSUME NEW size \in 0 .. 3, NEW hofs \in Nat, NEW vofs \in Nat, NEW y \in Nat,
           NEW x \in Columns
    PROVE  TextRow(size, hofs, vofs, y)[x] = TorusDot(x + hofs, y + vofs, size)
<1> DEFINE b == FetchedAt(hofs, size)[x]
           w == TextSize(size)[1]
           h == TextSize(size)[2]
           a == AbsoluteX(b, hofs, size)
           ax == (x + hofs) % w
           ay == (y + vofs) % h
           e == MapEntry(GetScreenAreaOffset(a \div TILE, ay \div TILE, size),
                         ((a \div TILE) % TILE_AREA) + ((ay \div TILE) % TILE_AREA) * TILE_AREA)
           px == (a % TILE) + (x - b)
           py == ay % TILE
           f == MapEntry((ay \div AREA) * (w \div AREA) + ax \div AREA,
                         ((ay % AREA) \div TILE) * TILE_AREA + (ax % AREA) \div TILE)
<1>1. /\ TILE \in Nat \ {0} /\ TILE_AREA \in Nat \ {0}
      /\ AREA \in Nat \ {0} /\ AREA = TILE * TILE_AREA
      /\ w \in Nat \ {0} /\ h \in Nat \ {0}
  BY Sizes, TilesAssumption, BackgroundsAssumption
<1>2. TextRow(size, hofs, vofs, y)[x] =
        <<e.tile, IF e.horizontalFlip THEN TILE - (px + 1) ELSE px,
                  IF e.verticalFlip THEN TILE - (py + 1) ELSE py>>
  BY DEF TextRow
<1>3. TorusDot(x + hofs, y + vofs, size) =
        <<f.tile, IF f.horizontalFlip THEN (TILE - 1) - (ax % TILE) ELSE ax % TILE,
                  IF f.verticalFlip THEN (TILE - 1) - (ay % TILE) ELSE ay % TILE>>
  BY Zenon DEF TorusDot
<1>4. x \in Nat /\ b \in 0 .. x /\ (a % TILE) + (x - b) < TILE
  BY FetchedIn, ScreenAssumption DEF Columns
<1>5. Whole(w, TILE)
  <2>1. Areas(size)[1] \in {1, 2} /\ w = Areas(size)[1] * AREA
    BY Sizes
  <2>2. Areas(size)[1] * TILE_AREA \in Nat \ {0}
    BY <1>1, <2>1
  <2>3. Areas(size)[1] * (TILE * TILE_AREA) = (Areas(size)[1] * TILE_AREA) * TILE
    BY <1>1, <2>1
  <2> QED BY <1>1, <2>1, <2>2, <2>3 DEF Whole
<1>6. a = (b + hofs) % w /\ (b + hofs) + (x - b) = x + hofs /\ b + hofs \in Nat /\ x - b \in Nat
  BY <1>4 DEF AbsoluteX
<1> HIDE DEF b, a, w, h
<1>7. ax = a + (x - b) /\ ax \div TILE = a \div TILE /\ ax % TILE = px
  <2> DEFINE n == b + hofs
             j == x - b
  <2>1. n \in Nat /\ j \in Nat /\ ((n % w) % TILE) + j < TILE
    BY <1>4, <1>6
  <2>2. ax = (n + j) % w /\ a = n % w /\ px = (a % TILE) + j
    BY <1>6
  <2> HIDE DEF n, j
  <2>3. StaysIn(TILE, w, n, j)
    BY <1>1, <1>5, <2>1, SameTile
  <2> HIDE DEF ax, px
  <2>4. ax = a + j /\ ax \div TILE = a \div TILE /\ ax % TILE = px
    BY <2>2, <2>3 DEF StaysIn
  <2> QED BY <2>4 DEF ax, px, j
<1>8. ax \in Nat /\ ax < w /\ ay \in Nat /\ ay < h
  BY <1>1, <1>4
<1> HIDE DEF ax, ay
<1>9. /\ (ax % AREA) \div TILE = (ax \div TILE) % TILE_AREA
      /\ (ay % AREA) \div TILE = (ay \div TILE) % TILE_AREA
  BY <1>8, Nested
<1>10. e = f
  <2>1. GetScreenAreaOffset(ax \div TILE, ay \div TILE, size) =
          (ay \div AREA) * (w \div AREA) + ax \div AREA
    BY <1>8, AreaNumber, Zenon DEF w, h
  <2> DEFINE ix == (ax \div TILE) % TILE_AREA
             iy == (ay \div TILE) % TILE_AREA
  <2>2. ix \in Int /\ iy \in Int
    BY <1>1, <1>8
  <2> HIDE DEF ix, iy
  <2>3. ix + iy * TILE_AREA = iy * TILE_AREA + ix
    BY <1>1, <2>2
  <2> QED BY <1>7, <1>9, <2>1, <2>3 DEF ix, iy
<1>11. px \in Int /\ py \in Int
  BY <1>1, <1>4, <1>6, <1>8
<1> HIDE DEF e, f
<1> QED BY <1>1, <1>2, <1>3, <1>7, <1>10, <1>11

-----------------------------------------------------------------------------
(* Rotation.  A division that rounds towards 0 and one that rounds down.   *)
LEMMA Negated ==
    ASSUME NEW d \in Nat \ {0}, NEW n \in Int, n < 0
    PROVE  /\ (-n) \div d \in Int /\ (-n) % d \in 0 .. d - 1
           /\ -n = ((-n) \div d) * d + ((-n) % d)
           /\ (-n) % d = 0 => n \div d = -((-n) \div d) /\ n % d = 0
           /\ (-n) % d # 0 => n \div d = -((-n) \div d) - 1 /\ n % d = d - ((-n) % d)
<1> DEFINE q == (-n) \div d
           r == (-n) % d
           qd == q * d
<1>1. q \in Int /\ r \in 0 .. d - 1 /\ -n = q * d + r
  <2>1. -n \in Int /\ d \in Nat /\ d > 0
    OBVIOUS
  <2> QED BY <2>1, Division, Zenon
<1>2. (-q) * d = -qd /\ (-q - 1) * d = -qd - d /\ qd \in Int /\ -q \in Int /\ -q - 1 \in Int
  <2> HIDE DEF q
  <2> QED BY <1>1
<1>3. n = -qd - r
  <2>1. -n = qd + r
    BY <1>1
  <2> HIDE DEF qd, r
  <2> QED BY <1>1, <1>2, <2>1
<1> HIDE DEF qd, q, r
<1>4. ASSUME r = 0
      PROVE  n \div d = -q /\ n % d = 0
  <2>1. n = (-q) * d + 0 /\ 0 \in 0 .. d - 1
    BY <1>2, <1>3, <1>4
  <2> QED BY <1>2, <2>1, Divided
<1>5. ASSUME r # 0
      PROVE  n \div d = -q - 1 /\ n % d = d - r
  <2>1. n = (-q - 1) * d + (d - r) /\ d - r \in 0 .. d - 1
    BY <1>1, <1>2, <1>3, <1>5
  <2> QED BY <1>2, <2>1, Divided
<1> QED BY <1>1, <1>4, <1>5 DEF q, r

LEMMA TexelIs ==
    ASSUME NEW n \in Int
    PROVE  Quotient(n, FLOAT_SCALE) = Texel(n) /\ Texel(n) \in Int
<1> DEFINE d == FLOAT_SCALE
<1>1. d \in Nat \ {0}
  BY TilesAssumption
<1>2. Texel(n) = (n \div d) + (IF n < 0 /\ n % d # 0 THEN 1 ELSE 0)
  BY Zenon DEF Texel
<1>3. Quotient(n, d) = IF n >= 0 THEN n \div d ELSE -((-n) \div d)
  BY Zenon DEF Quotient
<1> HIDE DEF d
<1>4. CASE n >= 0
  BY <1>1, <1>2, <1>3, <1>4 DEF d
<1>5. CASE n < 0
  <2> DEFINE q == (-n) \div d
             r == (-n) % d
  <2>1. /\ q \in Int /\ r \in 0 .. d - 1
        /\ r = 0 => n \div d = -q /\ n % d = 0
        /\ r # 0 => n \div d = -q - 1 /\ n % d = d - r
    BY <1>1, <1>5, Negated
  <2>2. Quotient(n, d) = -q
    BY <1>3, <1>5
  <2> HIDE DEF q, r
  <2>3. Texel(n) = -q
    BY <1>1, <1>2, <1>5, <2>1
  <2> QED BY <2>1, <2>2, <2>3 DEF d
<1> QED BY <1>4, <1>5

LEMMA WrappedIs ==
    ASSUME NEW max \in Nat \ {0}, NEW n \in Int
    PROVE  Wrapped(n, max) = n % max
<1> DEFINE e == Remainder(n, max)
<1>1. Wrapped(n, max) = IF e < 0 THEN e + max ELSE e
  BY Zenon DEF Wrapped
<1>2. e = n - max * (IF n >= 0 THEN n \div max ELSE -((-n) \div max))
  BY Zenon DEF Remainder, Quotient
<1> HIDE DEF e
<1>3. CASE n >= 0
  <2> DEFINE q == n \div max
             r == n % max
  <2>1. q \in Int /\ r \in 0 .. max - 1 /\ n = q * max + r
    BY Division
  <2>2. e = n - max * q
    BY <1>2, <1>3
  <2> HIDE DEF q, r
  <2>3. max * q = q * max /\ q * max \in Int
    BY <2>1
  <2>4. e = r
    BY <2>1, <2>2, <2>3
  <2> QED BY <1>1, <2>1, <2>4 DEF r
<1>4. CASE n < 0
  <2> DEFINE q == (-n) \div max
             r == (-n) % max
             qm == q * max
  <2>1. /\ q \in Int /\ r \in 0 .. max - 1 /\ -n = q * max + r
        /\ r = 0 => n % max = 0
        /\ r # 0 => n % max = max - r
    BY <1>4, Negated
  <2>2. e = n - max * (-q)
    BY <1>2, <1>4
  <2> HIDE DEF q, r
  <2>3. max * (-q) = -qm /\ qm \in Int
    BY <2>1
  <2>4. -n = qm + r
    BY <2>1
  <2> HIDE DEF qm
  <2>5. e = -r
    BY <2>1, <2>2, <2>3, <2>4
  <2> QED BY <1>1, <2>1, <2>5
<1> QED BY <1>3, <1>4

\* What bgCnt and the reference point are, from the lines that were drawn and
\* the registers the frame began with.
BackgroundIInv ==
    /\ control \in [screenSize : 0 .. 3, wrap : BOOLEAN]
    /\ offsets \in Nat \X Nat
    /\ reference \in (0 .. RefRange - 1) \X (0 .. RefRange - 1)
    /\ matrix \in [dx : Int, dmx : Int, dy : Int, dmy : Int]
    /\ bgLine \in Nat
    /\ textDrawn \in BOOLEAN /\ ID = (IF textDrawn THEN BG_ID ELSE 0)
    /\ frameRef \in (0 .. RefRange - 1) \X (0 .. RefRange - 1)
    /\ \A i \in {1, 2} : bgRef[i] = AsSigned(frameRef[i])

LEMMA ReloadIs ==
    ASSUME NEW v \in 0 .. RefRange - 1
    PROVE  Reload(v) = AsSigned(v) /\ AsSigned(v) \in Int
<1> DEFINE h == RefRange \div 2
<1>1. h \in Nat /\ RefRange = h + h /\ RefRange \in Nat /\ RefRange > 0
  BY BackgroundsAssumption
<1>2. AsSigned(v) = ((v + h) % RefRange) - h
  BY Zenon DEF AsSigned
<1>3. Reload(v) = IF v >= h THEN v - RefRange ELSE v
  BY Zenon DEF Reload
<1> HIDE DEF h
<1>4. CASE v >= h
  <2>1. v + h = 1 * RefRange + (v - h) /\ v - h \in 0 .. RefRange - 1
    BY <1>1, <1>4
  <2>2. (v + h) % RefRange = v - h
    BY <1>1, <2>1, Divided
  <2> QED BY <1>1, <1>2, <1>3, <1>4, <2>2
<1>5. CASE v < h
  <2>1. v + h = 0 * RefRange + (v + h) /\ v + h \in 0 .. RefRange - 1
    BY <1>1, <1>5
  <2>2. (v + h) % RefRange = v + h
    BY <1>1, <2>1, Divided
  <2> QED BY <1>1, <1>2, <1>3, <1>5, <2>2
<1> QED BY <1>1, <1>4, <1>5

LEMMA BackgroundStart == InitBackground => BackgroundIInv
<1> SUFFICES ASSUME InitBackground PROVE BackgroundIInv
  OBVIOUS
<1>1. RefRange \in Nat \ {0} /\ 0 \in 0 .. RefRange - 1
  BY BackgroundsAssumption
<1>2. \A i \in {1, 2} : bgRef[i] = AsSigned(frameRef[i])
  <2>1. Reload(0) = 0
    <3>1. RefRange \div 2 \in Nat /\ RefRange \div 2 > 0
      BY BackgroundsAssumption
    <3> QED BY <3>1 DEF Reload
  <2>2. AsSigned(0) = 0
    BY <1>1, <2>1, ReloadIs
  <2> QED BY <2>2 DEF InitBackground
<1>3. /\ control \in [screenSize : 0 .. 3, wrap : BOOLEAN]
      /\ offsets \in Nat \X Nat
      /\ matrix \in [dx : Int, dmx : Int, dy : Int, dmy : Int]
  BY BackgroundsAssumption, Zenon DEF InitBackground
<1> QED BY <1>1, <1>2, <1>3 DEF InitBackground, BackgroundIInv

LEMMA BackgroundStep == BackgroundIInv /\ [NextBackground]_bgVars => BackgroundIInv'
<1> SUFFICES ASSUME BackgroundIInv, [NextBackground]_bgVars PROVE BackgroundIInv'
  OBVIOUS
<1>1. CASE StoreBackground
  <2>1. /\ control' \in [screenSize : 0 .. 3, wrap : BOOLEAN]
        /\ offsets' \in Nat \X Nat
        /\ reference' \in (0 .. RefRange - 1) \X (0 .. RefRange - 1)
        /\ matrix' \in [dx : Int, dmx : Int, dy : Int, dmy : Int]
    BY <1>1, BackgroundsAssumption, Zenon DEF StoreBackground, BackgroundIInv
  <2>2. UNCHANGED <<ID, bgRef, bgLine, textDrawn, frameRef>>
    BY <1>1, Zenon DEF StoreBackground
  <2> QED BY <2>1, <2>2 DEF BackgroundIInv, AsSigned
<1>2. CASE TextBGLine
  BY <1>2 DEF TextBGLine, BackgroundIInv, AsSigned
<1>3. CASE RotScaleBGLine
  BY <1>3 DEF RotScaleBGLine, BackgroundIInv, AsSigned
<1>4. CASE ReloadRefs
  <2>1. \A i \in {1, 2} : bgRef'[i] = AsSigned(frameRef'[i])
    <3> TAKE i \in {1, 2}
    <3>1. reference[i] \in 0 .. RefRange - 1
      BY DEF BackgroundIInv
    <3>2. bgRef'[i] = Reload(reference[i]) /\ frameRef'[i] = reference[i]
      BY <1>4 DEF ReloadRefs
    <3> QED BY <3>1, <3>2, ReloadIs
  <2>2. (\A i \in {1, 2} : bgRef[i] = AsSigned(frameRef[i]))'
    BY <2>1 DEF AsSigned
  <2> QED BY <1>4, <2>2 DEF ReloadRefs, BackgroundIInv
<1>5. CASE UNCHANGED bgVars
  BY <1>5 DEF bgVars, BackgroundIInv, AsSigned
<1> QED BY <1>1, <1>2, <1>3, <1>4, <1>5 DEF NextBackground

\* One dot of a rotated line, at a position: as it is drawn, and on the map.
DrawnPlace(px, py, max, wrap) ==
    LET mx == Quotient(px, FLOAT_SCALE)
        my == Quotient(py, FLOAT_SCALE)
    IN  IF mx < max /\ my < max /\ px >= 0 /\ py >= 0 THEN MapPlace(mx, my, max)
        ELSE IF wrap THEN MapPlace(Wrapped(mx, max), Wrapped(my, max), max)
        ELSE Transparent
PlaceOnMap(px, py, max, wrap) ==
    IF {px, py} = {p \in {px, py} : p >= 0 /\ p \div FLOAT_SCALE < max} \/ wrap
    THEN MapPlace(Texel(px) % max, Texel(py) % max, max)
    ELSE Transparent

LEMMA PlaceIs ==
    ASSUME NEW max \in Nat \ {0}, NEW px \in Int, NEW py \in Int, NEW wrap \in BOOLEAN
    PROVE  DrawnPlace(px, py, max, wrap) = PlaceOnMap(px, py, max, wrap)
<1> DEFINE F == FLOAT_SCALE
           On == {p \in {px, py} : p >= 0 /\ p \div F < max}
           mx == Texel(px)
           my == Texel(py)
           Fits2 == mx < max /\ my < max /\ px >= 0 /\ py >= 0
<1>1. /\ Quotient(px, F) = mx /\ mx \in Int /\ Quotient(py, F) = my /\ my \in Int
  BY TexelIs
<1>2. Wrapped(mx, max) = mx % max /\ Wrapped(my, max) = my % max
  BY <1>1, WrappedIs
<1>3. ASSUME NEW p \in Int, p >= 0
      PROVE  Texel(p) = p \div F /\ Texel(p) >= 0
  <2>1. Quotient(p, F) = p \div F
    BY <1>3 DEF Quotient
  <2>2. F \in Nat /\ F > 0
    BY TilesAssumption
  <2> HIDE DEF F
  <2>3. p \div F >= 0
    BY <1>3, <2>2
  <2> QED BY <2>1, <2>3, TexelIs DEF F
<1>4. {px, py} = On <=> Fits2
  <2>1. px >= 0 => mx = px \div F
    BY <1>3
  <2>2. py >= 0 => my = py \div F
    BY <1>3
  <2> HIDE DEF F, mx, my
  <2> QED BY <2>1, <2>2
<1>5. Fits2 => mx % max = mx /\ my % max = my
  <2> SUFFICES ASSUME Fits2 PROVE mx % max = mx /\ my % max = my
    OBVIOUS
  <2>1. mx >= 0 /\ my >= 0
    BY <1>3
  <2> HIDE DEF mx, my
  <2>2. mx \in 0 .. max - 1 /\ mx = 0 * max + mx /\ my \in 0 .. max - 1 /\ my = 0 * max + my
    BY <1>1, <2>1
  <2>3. max \in Nat /\ max > 0
    OBVIOUS
  <2> QED BY <2>2, <2>3, Divided
<1> DEFINE qx == Quotient(px, F)
           qy == Quotient(py, F)
<1>6. DrawnPlace(px, py, max, wrap) =
        IF qx < max /\ qy < max /\ px >= 0 /\ py >= 0 THEN MapPlace(qx, qy, max)
        ELSE IF wrap THEN MapPlace(Wrapped(qx, max), Wrapped(qy, max), max)
        ELSE Transparent
  BY Zenon DEF DrawnPlace
<1>7. PlaceOnMap(px, py, max, wrap) =
        IF {px, py} = On \/ wrap THEN MapPlace(mx % max, my % max, max) ELSE Transparent
  BY Zenon DEF PlaceOnMap
<1>8. qx = mx /\ qy = my
  BY <1>1
<1> HIDE DEF F, mx, my, On, qx, qy
<1> QED BY <1>2, <1>4, <1>5, <1>6, <1>7, <1>8

LEMMA RotatedDotIs ==
    ASSUME BackgroundIInv, NEW x \in Columns
    PROVE  RotScaleRow(bgLine)[x] = RotatedDot(x, bgLine)
<1> DEFINE y == bgLine
           max == RotScaleSize(control.screenSize)
           px == bgRef[1] + y * matrix.dmx + x * matrix.dx
           py == bgRef[2] + y * matrix.dmy + x * matrix.dy
<1>1. RotScaleRow(y)[x] = DrawnPlace(px, py, max, WrapAround)
  BY DEF RotScaleRow, DrawnPlace
<1>2. /\ px = Position(frameRef[1], x, y, matrix.dx, matrix.dmx)
      /\ py = Position(frameRef[2], x, y, matrix.dy, matrix.dmy)
  BY Zenon DEF BackgroundIInv, Position
<1> DEFINE wrap == control.wrap \/ ~textDrawn
<1>3. RotatedDot(x, y) = PlaceOnMap(px, py, max, wrap)
  <2>1. RotatedDot(x, y) =
          IF \/ {px, py} = {p \in {px, py} : p >= 0 /\ p \div FLOAT_SCALE < max}
             \/ control.wrap \/ ~textDrawn
          THEN MapPlace(Texel(px) % max, Texel(py) % max, max)
          ELSE Transparent
    BY <1>2, Zenon DEF RotatedDot
  <2>2. PlaceOnMap(px, py, max, wrap) =
          IF {px, py} = {p \in {px, py} : p >= 0 /\ p \div FLOAT_SCALE < max} \/ wrap
          THEN MapPlace(Texel(px) % max, Texel(py) % max, max)
          ELSE Transparent
    BY Zenon DEF PlaceOnMap
  <2> HIDE DEF px, py, max
  <2> QED BY <2>1, <2>2
<1>4. max \in Nat \ {0}
  <2>1. control.screenSize \in 0 .. 3
    BY DEF BackgroundIInv
  <2>2. <<1, 2, 4, 8>>[control.screenSize + 1] \in {1, 2, 4, 8}
    BY <2>1
  <2> DEFINE k == <<1, 2, 4, 8>>[control.screenSize + 1]
  <2> HIDE DEF k
  <2>3. ROTSCALE_MAP * k \in Nat \ {0}
    BY <2>2, BackgroundsAssumption DEF k
  <2> QED BY <2>3, Zenon DEF RotScaleSize, k
<1>5. px \in Int /\ py \in Int
  <2>1. bgRef[1] \in Int /\ bgRef[2] \in Int
    <3>1. frameRef[1] \in 0 .. RefRange - 1 /\ frameRef[2] \in 0 .. RefRange - 1
      BY DEF BackgroundIInv
    <3> QED BY <3>1, ReloadIs DEF BackgroundIInv
  <2>2. y \in Int /\ x \in Int
    BY ScreenAssumption DEF Columns, BackgroundIInv
  <2>3. matrix.dx \in Int /\ matrix.dmx \in Int /\ matrix.dy \in Int /\ matrix.dmy \in Int
    BY DEF BackgroundIInv
  <2> QED BY <2>1, <2>2, <2>3
<1>6. WrapAround = wrap
  <2>1. WrapAround <=> wrap
    BY BackgroundsAssumption DEF WrapAround, BackgroundIInv
  <2>2. control.wrap \in BOOLEAN
    BY DEF BackgroundIInv
  <2> QED BY <2>1, <2>2 DEF WrapAround
<1>7. wrap \in BOOLEAN
  OBVIOUS
<1> HIDE DEF px, py, max, wrap
<1>8. DrawnPlace(px, py, max, wrap) = PlaceOnMap(px, py, max, wrap)
  BY <1>4, <1>5, <1>7, PlaceIs
<1> QED BY <1>1, <1>3, <1>6, <1>8, Zenon

(* A background's line is its map: a text line the torus of its areas,     *)
(* scrolled, also where a line starts inside a tile or crosses the edge;   *)
(* a rotated line the places its matrix leads to from the reference point  *)
(* the frame began with, around the map if BGxCNT says so or if no line    *)
(* was ever drawn as text, and else nothing outside it.  PPU::TextBGLine   *)
(* and RotScaleBGLine, for every screen, map and matrix.                   *)
THEOREM BackgroundsRight == BackgroundsSpec => BackgroundsExact
<1>1. InitBackground => BackgroundIInv
  BY BackgroundStart
<1>2. BackgroundIInv /\ [NextBackground]_bgVars => BackgroundIInv'
  BY BackgroundStep
<1>3. BackgroundIInv /\ [NextBackground]_bgVars =>
        [/\ TextBGLine => \A x \in Columns :
               bgRow'[x] = TorusDot(x + offsets[1], bgLine + offsets[2], control.screenSize)
         /\ RotScaleBGLine => \A x \in Columns : bgRow'[x] = RotatedDot(x, bgLine)]_bgVars
  <2> SUFFICES ASSUME BackgroundIInv, NEW x \in Columns
               PROVE  /\ TextBGLine => bgRow'[x] = TorusDot(x + offsets[1], bgLine + offsets[2],
                                                            control.screenSize)
                      /\ RotScaleBGLine => bgRow'[x] = RotatedDot(x, bgLine)
    BY Zenon
  <2>1. control.screenSize \in 0 .. 3 /\ offsets[1] \in Nat /\ offsets[2] \in Nat /\ bgLine \in Nat
    BY DEF BackgroundIInv
  <2>2. TextRow(control.screenSize, offsets[1], offsets[2], bgLine)[x] =
          TorusDot(x + offsets[1], bgLine + offsets[2], control.screenSize)
    BY <2>1, TextDot
  <2>3. RotScaleRow(bgLine)[x] = RotatedDot(x, bgLine)
    BY RotatedDotIs
  <2> QED BY <2>2, <2>3, Zenon DEF TextBGLine, RotScaleBGLine
<1> QED BY <1>1, <1>2, <1>3, PTL DEF BackgroundsSpec, BackgroundsExact
=============================================================================
