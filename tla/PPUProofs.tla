----------------------------- MODULE PPUProofs -----------------------------
(***************************************************************************)
(* Proofs about PPU.tla, for every geometry of the display, every longest  *)
(* batch of at most half a line and every store of the guest.              *)
(***************************************************************************)
EXTENDS PPU, TLAPS

\* q is p but for DISPSTAT and the interrupts requested.
SameBeam(p, q) ==
    /\ q \in Fields
    /\ q.state = p.state
    /\ q.tickCount = p.tickCount
    /\ q.vcount = p.vcount
    /\ q.vcountSetting = p.vcountSetting
    /\ q.calls.hBlankCallback = p.calls.hBlankCallback
    /\ q.calls.vBlankCallback = p.calls.vBlankCallback
    /\ q.calls.drawLine = p.calls.drawLine
    /\ q.calls.render = p.calls.render

\* The line after p's: what IncrementVCount stores and returns.
After(p) == (p.vcount + 1) % VCountRange

LEMMA SetFlag ==
    ASSUME NEW p \in Fields, NEW flag \in DispStatBits, NEW set \in BOOLEAN
    PROVE  /\ SameBeam(p, UpdateDispStat(p, flag, set))
           /\ \A bit : bit \in UpdateDispStat(p, flag, set).dispstat
                        <=> IF bit = flag THEN set ELSE bit \in p.dispstat
BY DEF Fields, SameBeam, UpdateDispStat

LEMMA Request ==
    ASSUME NEW p \in Fields, NEW enable,
           NEW irq \in {"VBlank", "HBlank", "VCounter"}
    PROVE  /\ SameBeam(p, RequestIfEnabled(p, enable, irq))
           /\ RequestIfEnabled(p, enable, irq).dispstat = p.dispstat
<1>1. p.calls \in Calls
  BY DEF Fields
<1>2. [p.calls EXCEPT !.irqs = @ \cup {irq}] \in Calls
  BY <1>1 DEF Calls
<1>3. [p EXCEPT !.calls.irqs = @ \cup {irq}]
        = [p EXCEPT !.calls = [p.calls EXCEPT !.irqs = @ \cup {irq}]]
  OBVIOUS
<1> QED BY <1>1, <1>2, <1>3 DEF RequestIfEnabled, SameBeam, Fields, Calls

LEMMA Bits == /\ "HBlankFlag" \in DispStatBits
              /\ "VBlankFlag" \in DispStatBits
              /\ "VCounterFlag" \in DispStatBits
BY DEF DispStatBits, Flags

LEMMA SameBeamTrans ==
    ASSUME NEW p, NEW q, NEW r, SameBeam(p, q), SameBeam(q, r)
    PROVE  SameBeam(p, r)
BY DEF SameBeam

LEMMA Increment ==
    ASSUME NEW p \in Fields
    PROVE  /\ SameBeam([p EXCEPT !.vcount = (@ + 1) % VCountRange], IncrementVCount(p))
           /\ \A bit : bit \in IncrementVCount(p).dispstat
                        <=> IF bit = "VCounterFlag" THEN p.vcountSetting = p.vcount + 1
                                                    ELSE bit \in p.dispstat
<1> DEFINE q == [p EXCEPT !.vcount = (@ + 1) % VCountRange]
           hit == p.vcountSetting = p.vcount + 1
           r == UpdateDispStat(q, "VCounterFlag", hit)
<1>1. (p.vcount + 1) % VCountRange \in 0 .. VCountRange - 1
  BY PPUAssumption DEF Fields, TOTAL_LINES
<1>2. q \in Fields
  BY <1>1 DEF Fields
<1>0. hit \in BOOLEAN /\ q.dispstat = p.dispstat
  BY DEF Fields
<1>3. /\ SameBeam(q, r)
      /\ \A bit : bit \in r.dispstat
                   <=> IF bit = "VCounterFlag" THEN hit ELSE bit \in p.dispstat
  <2> HIDE DEF q, hit
  <2> QED BY <1>0, <1>2, SetFlag, Bits
<1>4. r \in Fields
  BY <1>3 DEF SameBeam
<1>5. /\ SameBeam(r, RequestIfEnabled(r, "VCounterIRQEnable", "VCounter"))
      /\ RequestIfEnabled(r, "VCounterIRQEnable", "VCounter").dispstat = r.dispstat
  BY <1>4, Request
<1>6. IncrementVCount(p) = IF hit THEN RequestIfEnabled(r, "VCounterIRQEnable", "VCounter")
                           ELSE r
  BY DEF IncrementVCount
<1> HIDE DEF q, hit, r
<1>7. SameBeam(q, IncrementVCount(p)) /\ IncrementVCount(p).dispstat = r.dispstat
  BY <1>3, <1>5, <1>6, SameBeamTrans
<1> QED BY <1>3, <1>7 DEF q, hit
-----------------------------------------------------------------------------
(* The transitions, and what they do to the beam.                          *)
LEMMA CallsOfP == \A p \in Fields : p.calls \in Calls
BY DEF Fields

LEMMA ToHBlankFacts ==
    ASSUME NEW p \in Fields, p.tickCount > CYCLES_PER_VISIBLE, p.calls = NoCalls
    PROVE  LET n == ToHBlank(p) IN
           /\ n \in Fields
           /\ n.state = "HBlank"
           /\ n.tickCount = p.tickCount - CYCLES_PER_VISIBLE
           /\ n.vcount = p.vcount
           /\ n.vcountSetting = p.vcountSetting
           /\ n.calls.drawLine
           /\ ~n.calls.render
           /\ n.calls.hBlankCallback = {TRUE}
           /\ n.calls.vBlankCallback = {}
           /\ n.dispstat = p.dispstat \cup {"HBlankFlag"}
<1> DEFINE c == [NoCalls EXCEPT !.hBlankCallback = {TRUE}, !.drawLine = TRUE]
           q == [p EXCEPT !.state = "HBlank",
                          !.tickCount = p.tickCount - CYCLES_PER_VISIBLE,
                          !.calls = c]
           r == UpdateDispStat(q, "HBlankFlag", TRUE)
<1>1. /\ c \in Calls /\ c.drawLine /\ c.render = FALSE
      /\ c.hBlankCallback = {TRUE} /\ c.vBlankCallback = {}
  BY DEF NoCalls, Calls
<1>2. p.tickCount - CYCLES_PER_VISIBLE \in Nat
  BY PPUAssumption DEF Fields
<1>3. q \in Fields
  BY <1>1, <1>2 DEF Fields, States
<1>4. ToHBlank(p) = RequestIfEnabled(r, "HBlankIRQEnable", "HBlank")
  <2>1. q = [p EXCEPT !.state = "HBlank",
                      !.tickCount = @ - CYCLES_PER_VISIBLE,
                      !.calls.hBlankCallback = {TRUE},
                      !.calls.drawLine = TRUE]
    BY CallsOfP DEF Fields, Calls
  <2> HIDE DEF q
  <2> QED BY <2>1 DEF ToHBlank
<1>5. SameBeam(q, r) /\ r.dispstat = q.dispstat \cup {"HBlankFlag"}
  <2>1. SameBeam(q, r)
    <3> HIDE DEF q
    <3> QED BY <1>3, SetFlag, Bits
  <2>2. r.dispstat = q.dispstat \cup {"HBlankFlag"}
    <3> HIDE DEF q
    <3> QED BY <1>3 DEF UpdateDispStat, Fields
  <2> QED BY <2>1, <2>2
<1>6. SameBeam(q, ToHBlank(p)) /\ ToHBlank(p).dispstat = r.dispstat
  <2>1. r \in Fields
    BY <1>5 DEF SameBeam
  <2> HIDE DEF q, r
  <2> QED BY <1>4, <1>5, <2>1, Request, SameBeamTrans
<1>7. /\ q.state = "HBlank"
      /\ q.tickCount = p.tickCount - CYCLES_PER_VISIBLE
      /\ q.vcount = p.vcount
      /\ q.vcountSetting = p.vcountSetting
      /\ q.dispstat = p.dispstat
      /\ q.calls = c
  BY DEF Fields
<1> HIDE DEF q, r, c
<1> QED BY <1>1, <1>5, <1>6, <1>7 DEF SameBeam

LEMMA ToVBlankFacts ==
    ASSUME NEW p \in Fields
    PROVE  LET n == ToVBlank(p) IN
           /\ n \in Fields
           /\ n.state = "VBlank"
           /\ n.tickCount = p.tickCount
           /\ n.vcount = p.vcount
           /\ n.vcountSetting = p.vcountSetting
           /\ n.calls.drawLine = p.calls.drawLine
           /\ n.calls.render = TRUE
           /\ n.calls.hBlankCallback = p.calls.hBlankCallback
           /\ n.calls.vBlankCallback = {TRUE}
           /\ n.dispstat = p.dispstat \cup {"VBlankFlag"}
<1> DEFINE c == [p.calls EXCEPT !.render = TRUE, !.vBlankCallback = {TRUE}]
           q == [p EXCEPT !.state = "VBlank", !.calls = c]
           r == UpdateDispStat(q, "VBlankFlag", TRUE)
<1>1. /\ c \in Calls /\ c.drawLine = p.calls.drawLine /\ c.render = TRUE
      /\ c.hBlankCallback = p.calls.hBlankCallback /\ c.vBlankCallback = {TRUE}
  BY CallsOfP DEF Calls
<1>3. q \in Fields
  BY <1>1 DEF Fields, States
<1>4. ToVBlank(p) = RequestIfEnabled(r, "VBlankIRQEnable", "VBlank")
  <2>1. q = [p EXCEPT !.state = "VBlank", !.calls.render = TRUE,
                      !.calls.vBlankCallback = {TRUE}]
    BY CallsOfP DEF Fields, Calls
  <2> HIDE DEF q
  <2> QED BY <2>1 DEF ToVBlank
<1>5. SameBeam(q, r) /\ r.dispstat = q.dispstat \cup {"VBlankFlag"}
  <2>1. SameBeam(q, r)
    <3> HIDE DEF q
    <3> QED BY <1>3, SetFlag, Bits
  <2>2. r.dispstat = q.dispstat \cup {"VBlankFlag"}
    <3> HIDE DEF q
    <3> QED BY <1>3 DEF UpdateDispStat, Fields
  <2> QED BY <2>1, <2>2
<1>6. SameBeam(q, ToVBlank(p)) /\ ToVBlank(p).dispstat = r.dispstat
  <2>1. r \in Fields
    BY <1>5 DEF SameBeam
  <2> HIDE DEF q, r
  <2> QED BY <1>4, <1>5, <2>1, Request, SameBeamTrans
<1>7. /\ q.state = "VBlank"
      /\ q.tickCount = p.tickCount
      /\ q.vcount = p.vcount
      /\ q.vcountSetting = p.vcountSetting
      /\ q.dispstat = p.dispstat
      /\ q.calls = c
  BY DEF Fields
<1> HIDE DEF q, r, c
<1> QED BY <1>1, <1>5, <1>6, <1>7 DEF SameBeam

LEMMA OnHBlankFinishFacts ==
    ASSUME NEW p \in Fields, p.tickCount > CYCLES_PER_HBLANK, p.calls = NoCalls
    PROVE  LET n == OnHBlankFinish(p) IN
           /\ n \in Fields
           /\ n.state = IF After(p) >= VISIBLE_LINES THEN "VBlank" ELSE "Visible"
           /\ n.tickCount = p.tickCount - CYCLES_PER_HBLANK
           /\ n.vcount = After(p)
           /\ n.vcountSetting = p.vcountSetting
           /\ ~n.calls.drawLine
           /\ n.calls.render <=> n.state = "VBlank"
           /\ n.calls.hBlankCallback = {FALSE}
           /\ n.calls.vBlankCallback = IF n.state = "VBlank" THEN {TRUE} ELSE {}
           /\ "HBlankFlag" \notin n.dispstat
           /\ "VCounterFlag" \in n.dispstat <=> p.vcountSetting = p.vcount + 1
           /\ "VBlankFlag" \in n.dispstat
                <=> n.state = "VBlank" \/ "VBlankFlag" \in p.dispstat
<1> DEFINE c == [NoCalls EXCEPT !.hBlankCallback = {FALSE}]
           q == [p EXCEPT !.tickCount = p.tickCount - CYCLES_PER_HBLANK, !.calls = c]
           u == UpdateDispStat(q, "HBlankFlag", FALSE)
           r == IncrementVCount(u)
<1>1. /\ c \in Calls /\ c.drawLine = FALSE /\ c.render = FALSE
      /\ c.hBlankCallback = {FALSE} /\ c.vBlankCallback = {}
  BY DEF NoCalls, Calls
<1>2. p.tickCount - CYCLES_PER_HBLANK \in Nat
  BY PPUAssumption DEF Fields
<1>3. q \in Fields
  BY <1>1, <1>2 DEF Fields
<1>4. q = [p EXCEPT !.tickCount = @ - CYCLES_PER_HBLANK,
                    !.calls.hBlankCallback = {FALSE}]
  BY CallsOfP DEF Fields, Calls
<1>5. /\ q.tickCount = p.tickCount - CYCLES_PER_HBLANK
      /\ q.vcount = p.vcount
      /\ q.vcountSetting = p.vcountSetting
      /\ q.dispstat = p.dispstat
      /\ q.calls = c
  BY DEF Fields
<1> HIDE DEF q
<1>6. /\ SameBeam(q, u) /\ u \in Fields
      /\ \A bit : bit \in u.dispstat
                   <=> bit # "HBlankFlag" /\ bit \in q.dispstat
  BY <1>3, SetFlag, Bits DEF SameBeam
<1>7. OnHBlankFinish(p) = IF r.vcount >= VISIBLE_LINES THEN ToVBlank(r)
                          ELSE [r EXCEPT !.state = "Visible"]
  BY <1>4 DEF OnHBlankFinish
<1> HIDE DEF u
<1>8. /\ SameBeam([u EXCEPT !.vcount = (@ + 1) % VCountRange], r)
      /\ \A bit : bit \in r.dispstat
                   <=> IF bit = "VCounterFlag" THEN u.vcountSetting = u.vcount + 1
                                               ELSE bit \in u.dispstat
  BY <1>6, Increment
<1>9. /\ r \in Fields
      /\ r.tickCount = p.tickCount - CYCLES_PER_HBLANK
      /\ r.vcount = After(p)
      /\ r.vcountSetting = p.vcountSetting
      /\ r.calls.drawLine = FALSE
      /\ r.calls.render = FALSE
      /\ r.calls.hBlankCallback = {FALSE}
      /\ r.calls.vBlankCallback = {}
  BY <1>1, <1>5, <1>6, <1>8 DEF SameBeam, Fields, After
<1>12. /\ "HBlankFlag" \notin r.dispstat
       /\ "VCounterFlag" \in r.dispstat <=> p.vcountSetting = p.vcount + 1
       /\ "VBlankFlag" \in r.dispstat <=> "VBlankFlag" \in p.dispstat
  BY <1>5, <1>6, <1>8 DEF SameBeam
<1> HIDE DEF r
<1>10. CASE After(p) >= VISIBLE_LINES
  <2>1. OnHBlankFinish(p) = ToVBlank(r)
    BY <1>7, <1>9, <1>10
  <2> DEFINE n == ToVBlank(r)
  <2>2. /\ n \in Fields /\ n.state = "VBlank"
        /\ n.tickCount = r.tickCount /\ n.vcount = r.vcount
        /\ n.vcountSetting = r.vcountSetting
        /\ n.calls.drawLine = r.calls.drawLine /\ n.calls.render = TRUE
        /\ n.calls.hBlankCallback = r.calls.hBlankCallback
        /\ n.calls.vBlankCallback = {TRUE}
        /\ n.dispstat = r.dispstat \cup {"VBlankFlag"}
    BY <1>9, ToVBlankFacts
  <2> HIDE DEF n
  <2> QED BY <1>9, <1>10, <1>12, <2>1, <2>2 DEF n
<1>11. CASE ~(After(p) >= VISIBLE_LINES)
  <2>1. OnHBlankFinish(p) = [r EXCEPT !.state = "Visible"]
    BY <1>7, <1>9, <1>11
  <2> QED BY <1>9, <1>11, <1>12, <2>1 DEF Fields, States
<1> QED BY <1>10, <1>11

LEMMA OnVBlankLineFinishFacts ==
    ASSUME NEW p \in Fields, p.tickCount > CYCLES_PER_LINE, p.calls = NoCalls
    PROVE  LET n == OnVBlankLineFinish(p) IN
           /\ n \in Fields
           /\ n.tickCount = p.tickCount - CYCLES_PER_LINE
           /\ n.vcountSetting = p.vcountSetting
           /\ ~n.calls.drawLine
           /\ ~n.calls.render
           /\ n.calls.hBlankCallback = {}
           /\ After(p) >= TOTAL_LINES =>
                n.vcount = 0 /\ n.state = "Visible" /\ n.calls.vBlankCallback = {FALSE}
           /\ After(p) < TOTAL_LINES =>
                /\ n.vcount = After(p)
                /\ n.state = p.state
                /\ n.calls.vBlankCallback = {}
           /\ "HBlankFlag" \in n.dispstat <=> "HBlankFlag" \in p.dispstat
           /\ "VCounterFlag" \in n.dispstat <=> p.vcountSetting = p.vcount + 1
           /\ "VBlankFlag" \in n.dispstat
                <=> "VBlankFlag" \in p.dispstat /\ After(p) # TOTAL_LINES - 1
<1> DEFINE q == [p EXCEPT !.tickCount = @ - CYCLES_PER_LINE]
           u == IncrementVCount(q)
           r == IF u.vcount = TOTAL_LINES - 1
                THEN UpdateDispStat(u, "VBlankFlag", FALSE) ELSE u
<1>1. /\ NoCalls \in Calls /\ NoCalls.drawLine = FALSE /\ NoCalls.render = FALSE
      /\ NoCalls.hBlankCallback = {} /\ NoCalls.vBlankCallback = {}
  BY DEF NoCalls, Calls
<1>2. p.tickCount - CYCLES_PER_LINE \in Nat
  BY PPUAssumption DEF Fields, CYCLES_PER_LINE
<1>3. /\ q \in Fields
      /\ q.tickCount = p.tickCount - CYCLES_PER_LINE
      /\ q.vcount = p.vcount
      /\ q.state = p.state
      /\ q.vcountSetting = p.vcountSetting
      /\ q.dispstat = p.dispstat
      /\ q.calls = NoCalls
  BY <1>2 DEF Fields
<1>4. OnVBlankLineFinish(p) =
         IF u.vcount >= TOTAL_LINES
         THEN [r EXCEPT !.vcount = 0, !.state = "Visible",
                        !.calls.vBlankCallback = {FALSE}]
         ELSE r
  BY DEF OnVBlankLineFinish
<1> HIDE DEF q
<1>5. /\ SameBeam([q EXCEPT !.vcount = (@ + 1) % VCountRange], u) /\ u \in Fields
      /\ \A bit : bit \in u.dispstat
                   <=> IF bit = "VCounterFlag" THEN q.vcountSetting = q.vcount + 1
                                               ELSE bit \in q.dispstat
  BY <1>3, Increment DEF SameBeam
<1>11. u.vcount = After(p)
  BY <1>3, <1>5 DEF SameBeam, Fields, After
<1> HIDE DEF u
<1>6. /\ SameBeam(u, r)
      /\ \A bit : bit \in r.dispstat
                   <=> /\ bit \in u.dispstat
                       /\ bit = "VBlankFlag" => After(p) # TOTAL_LINES - 1
  <2>1. CASE After(p) = TOTAL_LINES - 1
    <3>1. \A set \in BOOLEAN :
             LET v == UpdateDispStat(u, "VBlankFlag", set)
             IN  /\ SameBeam(u, v)
                 /\ \A bit : bit \in v.dispstat
                              <=> IF bit = "VBlankFlag" THEN set ELSE bit \in u.dispstat
      BY <1>5, SetFlag, Bits
    <3> QED BY <1>11, <2>1, <3>1
  <2>2. CASE After(p) # TOTAL_LINES - 1
    BY <1>5, <1>11, <2>2 DEF SameBeam
  <2> QED BY <2>1, <2>2
<1>7. /\ r \in Fields
      /\ r.tickCount = p.tickCount - CYCLES_PER_LINE
      /\ r.vcount = After(p)
      /\ r.state = p.state
      /\ r.vcountSetting = p.vcountSetting
      /\ r.calls.drawLine = FALSE
      /\ r.calls.render = FALSE
      /\ r.calls.hBlankCallback = {}
      /\ r.calls.vBlankCallback = {}
  BY <1>1, <1>3, <1>5, <1>6, <1>11 DEF SameBeam, Fields
<1>10. /\ "HBlankFlag" \in r.dispstat <=> "HBlankFlag" \in p.dispstat
       /\ "VCounterFlag" \in r.dispstat <=> p.vcountSetting = p.vcount + 1
       /\ "VBlankFlag" \in r.dispstat
            <=> "VBlankFlag" \in p.dispstat /\ After(p) # TOTAL_LINES - 1
  BY <1>3, <1>5, <1>6
<1> HIDE DEF r
<1>8. CASE After(p) >= TOTAL_LINES
  <2> DEFINE c == [r.calls EXCEPT !.vBlankCallback = {FALSE}]
  <2>1. /\ c \in Calls /\ c.drawLine = FALSE /\ c.render = FALSE
        /\ c.hBlankCallback = {} /\ c.vBlankCallback = {FALSE}
    BY <1>7, CallsOfP DEF Calls
  <2>2. OnVBlankLineFinish(p)
          = [r EXCEPT !.vcount = 0, !.state = "Visible", !.calls = c]
    BY <1>4, <1>7, <1>8, <1>11 DEF Fields
  <2> HIDE DEF c
  <2>3. 0 \in 0 .. VCountRange - 1
    BY PPUAssumption DEF TOTAL_LINES
  <2>4. ~(After(p) < TOTAL_LINES)
    BY <1>7, <1>8, PPUAssumption DEF Fields, TOTAL_LINES
  <2>5. LET n == OnVBlankLineFinish(p) IN
        /\ n \in Fields
        /\ n.tickCount = r.tickCount
        /\ n.calls = c
        /\ n.vcountSetting = r.vcountSetting
        /\ n.dispstat = r.dispstat
        /\ n.vcount = 0
        /\ n.state = "Visible"
    BY <1>7, <2>1, <2>2, <2>3 DEF Fields, States
  <2> QED BY <1>7, <1>8, <1>10, <2>1, <2>4, <2>5
<1>9. CASE ~(After(p) >= TOTAL_LINES)
  BY <1>4, <1>7, <1>9, <1>10, <1>11
<1> QED BY <1>8, <1>9

LEMMA ThresholdValues ==
    /\ Threshold("Visible") = CYCLES_PER_VISIBLE
    /\ Threshold("HBlank") = CYCLES_PER_HBLANK
    /\ Threshold("VBlank") = CYCLES_PER_LINE
BY DEF Threshold

(* PPU::Execute as a whole: stay, or one of the three transitions.         *)
Stays(p, n, total) ==
    /\ total <= Threshold(p.state)
    /\ n.state = p.state /\ n.tickCount = total /\ n.vcount = p.vcount
    /\ n.dispstat = p.dispstat
    /\ ~n.calls.drawLine /\ ~n.calls.render
    /\ n.calls.hBlankCallback = {} /\ n.calls.vBlankCallback = {}
Draws(p, n, total) ==
    /\ p.state = "Visible" /\ total > CYCLES_PER_VISIBLE
    /\ n.state = "HBlank" /\ n.tickCount = total - CYCLES_PER_VISIBLE
    /\ n.vcount = p.vcount
    /\ n.dispstat = p.dispstat \cup {"HBlankFlag"}
    /\ n.calls.drawLine /\ ~n.calls.render
    /\ n.calls.hBlankCallback = {TRUE} /\ n.calls.vBlankCallback = {}
EndsLine(p, n, total) ==
    /\ p.state = "HBlank" /\ total > CYCLES_PER_HBLANK
    /\ n.state = IF After(p) >= VISIBLE_LINES THEN "VBlank" ELSE "Visible"
    /\ n.tickCount = total - CYCLES_PER_HBLANK
    /\ n.vcount = After(p)
    /\ ~n.calls.drawLine
    /\ n.calls.render <=> n.state = "VBlank"
    /\ n.calls.hBlankCallback = {FALSE}
    /\ n.calls.vBlankCallback = IF n.state = "VBlank" THEN {TRUE} ELSE {}
    /\ "HBlankFlag" \notin n.dispstat
    /\ "VCounterFlag" \in n.dispstat <=> p.vcountSetting = p.vcount + 1
    /\ "VBlankFlag" \in n.dispstat
         <=> n.state = "VBlank" \/ "VBlankFlag" \in p.dispstat
EndsBlankLine(p, n, total) ==
    /\ p.state = "VBlank" /\ total > CYCLES_PER_LINE
    /\ n.tickCount = total - CYCLES_PER_LINE
    /\ ~n.calls.drawLine /\ ~n.calls.render
    /\ n.calls.hBlankCallback = {}
    /\ \/ /\ After(p) >= TOTAL_LINES
          /\ n.vcount = 0 /\ n.state = "Visible"
          /\ n.calls.vBlankCallback = {FALSE}
       \/ /\ After(p) < TOTAL_LINES
          /\ n.vcount = After(p)
          /\ n.state = "VBlank"
          /\ n.calls.vBlankCallback = {}
    /\ "HBlankFlag" \in n.dispstat <=> "HBlankFlag" \in p.dispstat
    /\ "VCounterFlag" \in n.dispstat <=> p.vcountSetting = p.vcount + 1
    /\ "VBlankFlag" \in n.dispstat
         <=> "VBlankFlag" \in p.dispstat /\ After(p) # TOTAL_LINES - 1

LEMMA ExecuteFacts ==
    ASSUME NEW p \in Fields, NEW ticks \in Nat
    PROVE  LET n == ExecutePPU(p, ticks)
               total == p.tickCount + ticks IN
           /\ n \in Fields
           /\ n.vcountSetting = p.vcountSetting
           /\ \/ Stays(p, n, total)
              \/ Draws(p, n, total)
              \/ EndsLine(p, n, total)
              \/ EndsBlankLine(p, n, total)
<1> DEFINE q == [p EXCEPT !.tickCount = @ + ticks, !.calls = NoCalls]
           n == ExecutePPU(p, ticks)
           total == p.tickCount + ticks
           goal == /\ n \in Fields
                   /\ n.vcountSetting = p.vcountSetting
                   /\ \/ Stays(p, n, total)
                      \/ Draws(p, n, total)
                      \/ EndsLine(p, n, total)
                      \/ EndsBlankLine(p, n, total)
<1> SUFFICES goal
  OBVIOUS
<1>1. /\ NoCalls \in Calls /\ NoCalls.drawLine = FALSE /\ NoCalls.render = FALSE
      /\ NoCalls.hBlankCallback = {} /\ NoCalls.vBlankCallback = {}
  BY DEF NoCalls, Calls
<1>2. /\ q \in Fields /\ q.tickCount = total /\ q.vcount = p.vcount
      /\ q.state = p.state /\ q.calls = NoCalls
      /\ q.vcountSetting = p.vcountSetting /\ q.dispstat = p.dispstat
  <2>1. total \in Nat
    BY DEF Fields
  <2> QED BY <1>1, <2>1 DEF Fields
<1>3. n = IF q.tickCount <= Threshold(q.state) THEN q
          ELSE CASE q.state = "Visible" -> ToHBlank(q)
                 [] q.state = "HBlank"  -> OnHBlankFinish(q)
                 [] q.state = "VBlank"  -> OnVBlankLineFinish(q)
  BY DEF ExecutePPU
<1>4. p.tickCount \in Nat /\ total \in Nat /\ p.state \in States /\ p.vcount \in Nat
  BY PPUAssumption DEF Fields
<1> HIDE DEF q, n, total
<1>5. CASE total <= Threshold(p.state)
  BY <1>1, <1>2, <1>3, <1>5 DEF Stays
<1>6. CASE ~(total <= Threshold(p.state)) /\ p.state = "Visible"
  <2>1. n = ToHBlank(q) /\ total > CYCLES_PER_VISIBLE
    BY <1>2, <1>3, <1>4, <1>6, ThresholdValues, PPUAssumption
  <2> QED BY <1>2, <1>6, <2>1, ToHBlankFacts DEF Draws
<1>7. CASE ~(total <= Threshold(p.state)) /\ p.state = "HBlank"
  <2>1. n = OnHBlankFinish(q) /\ total > CYCLES_PER_HBLANK
    BY <1>2, <1>3, <1>4, <1>7, ThresholdValues, PPUAssumption
  <2>2. After(q) = After(p)
    BY <1>2 DEF After
  <2> QED BY <1>2, <1>7, <2>1, <2>2, OnHBlankFinishFacts DEF EndsLine
<1>8. CASE ~(total <= Threshold(p.state)) /\ p.state = "VBlank"
  <2>1. n = OnVBlankLineFinish(q) /\ total > CYCLES_PER_LINE
    BY <1>2, <1>3, <1>4, <1>8, ThresholdValues, PPUAssumption DEF CYCLES_PER_LINE
  <2>2. /\ After(p) >= TOTAL_LINES \/ After(p) < TOTAL_LINES
        /\ After(q) = After(p)
    BY <1>2, <1>4, PPUAssumption DEF TOTAL_LINES, After
  <2> DEFINE m == OnVBlankLineFinish(q)
  <2>3. q.tickCount > CYCLES_PER_LINE
    BY <1>2, <2>1
  <2>4. /\ m \in Fields /\ m.tickCount = q.tickCount - CYCLES_PER_LINE
        /\ m.vcountSetting = q.vcountSetting
        /\ ~m.calls.drawLine /\ ~m.calls.render
        /\ m.calls.hBlankCallback = {}
        /\ After(q) >= TOTAL_LINES =>
             m.vcount = 0 /\ m.state = "Visible" /\ m.calls.vBlankCallback = {FALSE}
        /\ After(q) < TOTAL_LINES =>
             /\ m.vcount = After(q)
             /\ m.state = q.state
             /\ m.calls.vBlankCallback = {}
        /\ "HBlankFlag" \in m.dispstat <=> "HBlankFlag" \in q.dispstat
        /\ "VCounterFlag" \in m.dispstat <=> q.vcountSetting = q.vcount + 1
        /\ "VBlankFlag" \in m.dispstat
             <=> "VBlankFlag" \in q.dispstat /\ After(q) # TOTAL_LINES - 1
    BY <1>2, <2>3, OnVBlankLineFinishFacts
  <2> HIDE DEF m
  <2>5. EndsBlankLine(p, m, total)
    BY <1>2, <1>8, <2>1, <2>2, <2>4 DEF EndsBlankLine
  <2> QED BY <1>2, <2>1, <2>4, <2>5 DEF m
<1> QED BY <1>4, <1>5, <1>6, <1>7, <1>8 DEF States
-----------------------------------------------------------------------------
LEMMA SmallMod ==
    ASSUME NEW a \in Nat, NEW r \in Nat, a < r
    PROVE  a % r = a
OBVIOUS

LEMMA NextLineTicks ==
    ASSUME NEW v \in Nat, NEW l \in Nat
    PROVE  (v + 1) * l = v * l + l /\ v * l \in Nat
OBVIOUS

LEMMA Geometry ==
    /\ CYCLES_PER_LINE \in Nat
    /\ CYCLES_PER_LINE = CYCLES_PER_VISIBLE + CYCLES_PER_HBLANK
    /\ CYCLES_PER_VISIBLE \in Nat /\ CYCLES_PER_HBLANK \in Nat
    /\ CYCLES_PER_HBLANK > 0 /\ CYCLES_PER_HBLANK <= CYCLES_PER_VISIBLE
    /\ TOTAL_LINES \in Nat /\ VISIBLE_LINES \in Nat
    /\ VISIBLE_LINES > 0 /\ VISIBLE_LINES + 2 <= TOTAL_LINES
    /\ TOTAL_LINES < VCountRange /\ VCountRange \in Nat
    /\ MaxTicks \in Nat /\ 2 * MaxTicks <= CYCLES_PER_LINE
BY PPUAssumption, PPUBatchAssumption DEF CYCLES_PER_LINE, TOTAL_LINES

(* The inductive invariant.                                                *)
IInv == TypeOK /\ KeepsUp /\ StateMatchesVCount /\ NoDrift /\ DrawnInOrder

LEMMA InitIInv == Init => IInv
<1> SUFFICES ASSUME Init PROVE IInv
  OBVIOUS
<1>1. NoCalls \in Calls
  BY DEF NoCalls, Calls
<1>2. 0 \in 0 .. VCountRange - 1
  BY Geometry
<1>3. PowerOn \in Fields
  BY <1>1, <1>2 DEF PowerOn, Fields, States
<1>4. ppu.state = "Visible" /\ ppu.tickCount = 0 /\ ppu.vcount = 0
  BY DEF Init, PowerOn
<1>5. TypeOK
  <2>1. << >> \in Seq(0 .. VCountRange - 1)
    OBVIOUS
  <2>2. touched \in BOOLEAN /\ frameTicks \in Nat /\ clobbered \subseteq Flags
    BY DEF Init
  <2> QED BY <1>3, <2>1, <2>2 DEF Init, TypeOK
<1>6. KeepsUp /\ StateMatchesVCount /\ NoDrift
  BY <1>4, Geometry, ThresholdValues
     DEF Init, KeepsUp, StateMatchesVCount, NoDrift
<1>7. DrawnInOrder
  BY <1>4 DEF Init, DrawnInOrder
<1> QED BY <1>5, <1>6, <1>7 DEF IInv

(* A batch of ticks preserves the invariant.                               *)
LEMMA ExecuteIInv ==
    ASSUME IInv, NEW ticks \in 0 .. MaxTicks, Execute(ticks)
    PROVE  IInv'
<1> DEFINE total == ppu.tickCount + ticks
           newFrame == FALSE \in ppu'.calls.vBlankCallback
<1>1. ppu \in Fields /\ ticks \in Nat /\ ticks <= MaxTicks
  BY Geometry DEF IInv, TypeOK
<1>2. /\ ppu' \in Fields
      /\ \/ Stays(ppu, ppu', total)
         \/ Draws(ppu, ppu', total)
         \/ EndsLine(ppu, ppu', total)
         \/ EndsBlankLine(ppu, ppu', total)
  BY <1>1, ExecuteFacts DEF Execute
<1>3. /\ ppu.tickCount \in Nat /\ ppu'.tickCount \in Nat /\ total \in Nat
      /\ ppu.vcount \in Nat /\ ppu.vcount < VCountRange
      /\ ppu'.vcount \in Nat
      /\ ppu.state \in States /\ ppu'.state \in States
      /\ frameTicks \in Nat
  BY <1>1, <1>2, Geometry DEF Fields, IInv, TypeOK
<1>4. /\ touched' = (touched /\ ~newFrame)
      /\ frameTicks' = CASE touched /\ newFrame   -> ppu'.tickCount
                         [] touched /\ ~newFrame  -> 0
                         [] ~touched /\ newFrame  -> frameTicks + ticks
                                                      - CYCLES_PER_FRAME
                         [] ~touched /\ ~newFrame -> frameTicks + ticks
      /\ lines' = CASE newFrame \/ touched -> << >>
                    [] ~newFrame /\ ~touched /\ ppu'.calls.drawLine ->
                         Append(lines, ppu.vcount)
                    [] OTHER -> lines
      /\ clobbered' \subseteq clobbered
  BY DEF Execute
<1>5. touched \in BOOLEAN /\ newFrame \in BOOLEAN /\ clobbered \subseteq Flags
        /\ lines \in Seq(0 .. VCountRange - 1)
  BY DEF IInv, TypeOK
<1> HIDE DEF newFrame
<1>6. KeepsUp'
  <2>1. CASE Stays(ppu, ppu', total)
    BY <2>1 DEF Stays, KeepsUp
  <2>2. CASE Draws(ppu, ppu', total)
    <3>1. ppu.tickCount <= CYCLES_PER_VISIBLE
      BY <2>2, ThresholdValues DEF IInv, KeepsUp, Draws
    <3>2. ppu'.state = "HBlank" /\ ppu'.tickCount <= MaxTicks
      BY <1>1, <1>3, <2>2, <3>1, Geometry DEF Draws
    <3> QED BY <3>2 DEF KeepsUp
  <2>3. CASE EndsLine(ppu, ppu', total)
    <3>1. ppu.tickCount <= CYCLES_PER_HBLANK \/ ppu.tickCount <= MaxTicks
      BY <2>3, ThresholdValues DEF IInv, KeepsUp, EndsLine
    <3>4. ppu'.tickCount = ppu.tickCount + ticks - CYCLES_PER_HBLANK
      BY <1>1, <1>3, <2>3, Geometry DEF EndsLine
    <3>5. MaxTicks <= CYCLES_PER_VISIBLE
      BY Geometry
    <3>2. ppu'.tickCount <= CYCLES_PER_VISIBLE /\ ppu'.tickCount <= CYCLES_PER_LINE
      BY <1>1, <1>3, <3>1, <3>4, <3>5, Geometry
    <3>3. ppu'.state = "Visible" \/ ppu'.state = "VBlank"
      BY <2>3 DEF EndsLine
    <3> QED BY <3>2, <3>3, ThresholdValues DEF KeepsUp
  <2>4. CASE EndsBlankLine(ppu, ppu', total)
    <3>1. ppu.tickCount <= CYCLES_PER_LINE
      BY <2>4, ThresholdValues DEF IInv, KeepsUp, EndsBlankLine
    <3>4. ppu'.tickCount = ppu.tickCount + ticks - CYCLES_PER_LINE
      BY <1>1, <1>3, <2>4, Geometry DEF EndsBlankLine
    <3>5. MaxTicks <= CYCLES_PER_VISIBLE
      BY Geometry
    <3>2. ppu'.tickCount <= CYCLES_PER_VISIBLE /\ ppu'.tickCount <= CYCLES_PER_LINE
      BY <1>1, <1>3, <3>1, <3>4, <3>5, Geometry
    <3>3. ppu'.state = "Visible" \/ ppu'.state = "VBlank"
      BY <2>4 DEF EndsBlankLine
    <3> QED BY <3>2, <3>3, ThresholdValues DEF KeepsUp
  <2> QED BY <1>2, <2>1, <2>2, <2>3, <2>4
\* A line that ends inside a frame is followed by the next one.
<1>12. ~touched => After(ppu) = ppu.vcount + 1 /\ ppu.vcount + 1 < VCountRange
  <2>1. ~touched => ppu.vcount + 1 < VCountRange
    BY <1>3, Geometry DEF IInv, StateMatchesVCount
  <2> QED BY <1>3, <2>1, SmallMod, Geometry DEF After
<1>7. ASSUME ~touched, ~newFrame,
             EndsLine(ppu, ppu', total) \/ EndsBlankLine(ppu, ppu', total)
      PROVE  ppu'.vcount = ppu.vcount + 1 /\ ppu.vcount + 1 < VCountRange
  BY <1>7, <1>12 DEF EndsLine, EndsBlankLine, newFrame
<1>11. StateMatchesVCount'
  <2>1. CASE touched'
    BY <2>1 DEF StateMatchesVCount
  <2>2. CASE newFrame
    <3>1. ppu'.vcount = 0 /\ ppu'.state = "Visible"
      BY <1>2, <2>2 DEF Stays, Draws, EndsLine, EndsBlankLine, newFrame
    <3> QED BY <3>1, Geometry DEF StateMatchesVCount
  <2>3. CASE ~touched /\ ~newFrame
    <3>1. IF ppu.state = "VBlank"
          THEN ppu.vcount \in VISIBLE_LINES .. TOTAL_LINES - 1
          ELSE ppu.vcount \in 0 .. VISIBLE_LINES - 1
      BY <2>3 DEF IInv, StateMatchesVCount
    <3>2. CASE Stays(ppu, ppu', total) \/ Draws(ppu, ppu', total)
      BY <3>1, <3>2 DEF StateMatchesVCount, Stays, Draws
    <3>3. CASE EndsLine(ppu, ppu', total)
      <4>1. ppu'.vcount = ppu.vcount + 1 /\ ppu.vcount + 1 <= VISIBLE_LINES
        BY <1>3, <1>7, <2>3, <3>1, <3>3, Geometry DEF EndsLine
      <4>2. ppu'.state = IF ppu.vcount + 1 >= VISIBLE_LINES THEN "VBlank" ELSE "Visible"
        BY <1>12, <2>3, <3>3 DEF EndsLine
      <4>3. CASE ppu.vcount + 1 >= VISIBLE_LINES
        BY <1>3, <4>1, <4>2, <4>3, Geometry DEF StateMatchesVCount
      <4>4. CASE ~(ppu.vcount + 1 >= VISIBLE_LINES)
        BY <1>3, <4>1, <4>2, <4>4, Geometry DEF StateMatchesVCount
      <4> QED BY <4>3, <4>4
    <3>4. CASE EndsBlankLine(ppu, ppu', total)
      <4>1. /\ ppu'.state = "VBlank" /\ ppu.state = "VBlank"
            /\ ppu.vcount + 1 < TOTAL_LINES
        BY <1>12, <2>3, <3>4 DEF EndsBlankLine, newFrame
      <4>2. ppu'.vcount = ppu.vcount + 1
        BY <1>7, <2>3, <3>4
      <4> QED BY <1>3, <3>1, <4>1, <4>2, Geometry DEF StateMatchesVCount
    <3> QED BY <1>2, <3>2, <3>3, <3>4
  <2> QED BY <1>4, <1>5, <2>1, <2>2, <2>3
<1>8. NoDrift' /\ frameTicks' \in Nat
  <2>1. CASE touched /\ ~newFrame
    BY <1>4, <2>1 DEF NoDrift
  <2>2. CASE newFrame
    <3>1. /\ EndsBlankLine(ppu, ppu', total) /\ After(ppu) >= TOTAL_LINES
          /\ ppu'.vcount = 0 /\ ppu'.state = "Visible"
          /\ ppu'.tickCount = total - CYCLES_PER_LINE
      BY <1>2, <2>2 DEF Stays, Draws, EndsLine, EndsBlankLine, newFrame
    <3>2. ppu'.vcount * CYCLES_PER_LINE = 0
      BY <3>1, Geometry
    <3>3. CASE touched
      BY <1>3, <1>4, <2>2, <3>1, <3>2, <3>3 DEF NoDrift
    <3>4. CASE ~touched
      <4>1. ppu.vcount + 1 = TOTAL_LINES
        BY <1>3, <1>12, <3>1, <3>4, Geometry
           DEF IInv, StateMatchesVCount, EndsBlankLine
      <4>2. CYCLES_PER_FRAME = ppu.vcount * CYCLES_PER_LINE + CYCLES_PER_LINE
              /\ ppu.vcount * CYCLES_PER_LINE \in Nat
        BY <1>3, <4>1, NextLineTicks, Geometry DEF CYCLES_PER_FRAME
      <4>3. frameTicks = ppu.vcount * CYCLES_PER_LINE + ppu.tickCount
        BY <1>3, <3>1, <3>4, <4>2 DEF IInv, NoDrift, EndsBlankLine
      <4>4. frameTicks' = frameTicks + ticks - CYCLES_PER_FRAME
        BY <1>4, <2>2, <3>4
      <4>5. frameTicks' = ppu'.tickCount
        BY <1>1, <1>3, <3>1, <4>2, <4>3, <4>4, Geometry
      <4> QED BY <1>3, <3>1, <3>2, <4>5 DEF NoDrift
    <3> QED BY <3>3, <3>4
  <2>3. CASE ~touched /\ ~newFrame
    <3>1. frameTicks' = frameTicks + ticks /\ ~touched'
      BY <1>4, <2>3
    <3>2. /\ frameTicks = ppu.vcount * CYCLES_PER_LINE + ppu.tickCount
                     + (IF ppu.state = "HBlank" THEN CYCLES_PER_VISIBLE ELSE 0)
          /\ ppu.vcount * CYCLES_PER_LINE \in Nat
          /\ (ppu.vcount + 1) * CYCLES_PER_LINE
               = ppu.vcount * CYCLES_PER_LINE + CYCLES_PER_LINE
      BY <1>3, <2>3, NextLineTicks, Geometry DEF IInv, NoDrift
    <3>3. CASE Stays(ppu, ppu', total)
      <4>1. ppu'.tickCount = ppu.tickCount + ticks /\ ppu'.state = ppu.state
              /\ ppu'.vcount = ppu.vcount
        BY <3>3 DEF Stays
      <4> HIDE DEF total
      <4> QED BY <1>1, <1>3, <3>1, <3>2, <4>1, Geometry DEF NoDrift
    <3>4. CASE Draws(ppu, ppu', total)
      <4>1. frameTicks' = ppu.vcount * CYCLES_PER_LINE + ppu.tickCount + ticks
        BY <1>1, <1>3, <3>1, <3>2, <3>4 DEF Draws
      <4>2. ppu'.tickCount + CYCLES_PER_VISIBLE = ppu.tickCount + ticks
        BY <1>1, <1>3, <3>4, Geometry DEF Draws
      <4>3. frameTicks' = ppu'.vcount * CYCLES_PER_LINE + ppu'.tickCount
                            + CYCLES_PER_VISIBLE
        BY <1>1, <1>3, <3>2, <3>4, <4>1, <4>2, Geometry DEF Draws
      <4> QED BY <1>1, <1>3, <3>1, <3>4, <4>3 DEF NoDrift, Draws
    <3>5. CASE EndsLine(ppu, ppu', total) \/ EndsBlankLine(ppu, ppu', total)
      <4>1. ppu'.vcount * CYCLES_PER_LINE
              = ppu.vcount * CYCLES_PER_LINE + CYCLES_PER_LINE
        BY <1>7, <2>3, <3>2, <3>5
      <4>2. frameTicks = ppu.vcount * CYCLES_PER_LINE + ppu.tickCount
                           + CYCLES_PER_LINE - (total - ppu'.tickCount)
        <5>1. CASE EndsLine(ppu, ppu', total)
          <6>1. ppu.state = "HBlank" /\ total - ppu'.tickCount = CYCLES_PER_HBLANK
            BY <1>3, <5>1, Geometry DEF EndsLine
          <6> HIDE DEF total
          <6> QED BY <1>3, <3>2, <6>1, Geometry
        <5>2. CASE EndsBlankLine(ppu, ppu', total)
          <6>1. ppu.state = "VBlank" /\ total - ppu'.tickCount = CYCLES_PER_LINE
            BY <1>3, <5>2, Geometry DEF EndsBlankLine
          <6> HIDE DEF total
          <6> QED BY <1>3, <3>2, <6>1, Geometry
        <5> QED BY <3>5, <5>1, <5>2
      <4>3. ppu'.state # "HBlank"
        BY <2>3, <3>5 DEF EndsLine, EndsBlankLine, newFrame
      <4>4. frameTicks' = ppu'.vcount * CYCLES_PER_LINE + ppu'.tickCount
        BY <1>1, <1>3, <3>1, <3>2, <4>1, <4>2, Geometry
      <4> QED BY <1>1, <1>3, <3>1, <4>3, <4>4 DEF NoDrift
    <3> QED BY <1>2, <3>3, <3>4, <3>5
  <2> QED BY <1>5, <2>1, <2>2, <2>3
<1>9. DrawnInOrder' /\ lines' \in Seq(0 .. VCountRange - 1)
  <2>1. CASE touched /\ ~newFrame
    <3>1. touched' /\ lines' = << >>
      BY <1>4, <2>1
    <3>2. << >> \in Seq(0 .. VCountRange - 1)
      OBVIOUS
    <3> QED BY <3>1, <3>2 DEF DrawnInOrder
  <2>2. CASE newFrame
    <3>1. ppu'.vcount = 0 /\ ppu'.state = "Visible"
      BY <1>2, <2>2 DEF Stays, Draws, EndsLine, EndsBlankLine, newFrame
    <3>2. lines' = << >>
      BY <1>4, <2>2
    <3> QED BY <3>1, <3>2 DEF DrawnInOrder
  <2>3. CASE ~touched /\ ~newFrame
    <3> DEFINE drawn(p) == CASE p.state = "Visible" -> p.vcount
                             [] p.state = "HBlank"  -> p.vcount + 1
                             [] p.state = "VBlank"  -> VISIBLE_LINES
    <3>1. lines = [n \in 1 .. drawn(ppu) |-> n - 1]
      BY <2>3 DEF IInv, DrawnInOrder
    <3>2. CASE Draws(ppu, ppu', total)
      <4>1. lines' = Append(lines, ppu.vcount)
        BY <1>4, <2>3, <3>2 DEF Draws
      <4>2. drawn(ppu) = ppu.vcount /\ drawn(ppu') = ppu.vcount + 1
        BY <3>2 DEF Draws
      <4>3. lines = [n \in 1 .. ppu.vcount |-> n - 1]
        BY <3>1, <4>2
      <4>6. Len(lines) = ppu.vcount
        BY <1>3, <1>5, <4>3
      <4>4. lines' = [n \in 1 .. ppu.vcount + 1 |-> n - 1]
        <5>1. lines' \in Seq(0 .. VCountRange - 1) /\ Len(lines') = ppu.vcount + 1
          BY <1>3, <1>5, <4>1, <4>6, Geometry
        <5>2. \A n \in 1 .. ppu.vcount + 1 : lines'[n] = n - 1
          BY <1>3, <1>5, <4>1, <4>3, <4>6
        <5>3. lines' = [n \in 1 .. Len(lines') |-> lines'[n]]
          BY <5>1
        <5> QED BY <5>1, <5>2, <5>3
      <4>5. lines' \in Seq(0 .. VCountRange - 1)
        BY <1>3, <1>5, <4>1, Geometry
      <4> QED BY <3>2, <4>4, <4>5 DEF DrawnInOrder, Draws
    <3>3. CASE ~Draws(ppu, ppu', total)
      <4>1. lines' = lines
        BY <1>2, <1>4, <2>3, <3>3 DEF Stays, EndsLine, EndsBlankLine
      <4>2. drawn(ppu') = drawn(ppu)
        <5>1. CASE Stays(ppu, ppu', total)
          BY <5>1 DEF Stays
        <5>2. CASE EndsLine(ppu, ppu', total)
          <6>1. ppu.vcount < VISIBLE_LINES
            BY <1>3, <2>3, <5>2, Geometry DEF IInv, StateMatchesVCount, EndsLine
          <6>2. ppu.state = "HBlank" /\ ppu'.vcount = ppu.vcount + 1
            BY <1>7, <2>3, <5>2 DEF EndsLine
          <6>3. CASE ppu'.state = "Visible"
            BY <6>2, <6>3
          <6>4. CASE ppu'.state = "VBlank"
            <7>1. ppu.vcount + 1 >= VISIBLE_LINES
              BY <1>12, <2>3, <5>2, <6>4 DEF EndsLine
            <7> QED BY <1>3, <6>1, <6>2, <6>4, <7>1, Geometry
          <6> QED BY <5>2, <6>3, <6>4 DEF EndsLine
        <5>3. CASE EndsBlankLine(ppu, ppu', total)
          BY <2>3, <5>3 DEF EndsBlankLine, newFrame
        <5> QED BY <1>2, <3>3, <5>1, <5>2, <5>3
      <4>3. ~touched'
        BY <1>4, <2>3
      <4> QED BY <1>5, <3>1, <4>1, <4>2 DEF DrawnInOrder
    <3> QED BY <3>2, <3>3
  <2> QED BY <1>5, <2>1, <2>2, <2>3
<1>10. TypeOK'
  BY <1>2, <1>4, <1>5, <1>8, <1>9 DEF TypeOK
<1> QED BY <1>6, <1>8, <1>9, <1>10, <1>11 DEF IInv

LEMMA StepIInv == IInv /\ [Next]_vars => IInv'
<1> SUFFICES ASSUME IInv, [Next]_vars PROVE IInv'
  OBVIOUS
<1>1. ASSUME NEW ticks \in 0 .. MaxTicks, Execute(ticks) PROVE IInv'
  BY <1>1, ExecuteIInv
<1>2. ASSUME NEW bits \in GuestBits, NEW setting \in GuestSettings,
             GuestDISPSTAT(bits, setting)
      PROVE  IInv'
  <2>1. NoCalls \in Calls
    BY DEF NoCalls, Calls
  <2>2. bits \in SUBSET DispStatBits /\ setting \in Nat
    BY PPUAssumption
  <2>3. /\ ppu' \in Fields
        /\ ppu'.state = ppu.state /\ ppu'.tickCount = ppu.tickCount
        /\ ppu'.vcount = ppu.vcount
    BY <1>2, <2>1, <2>2
       DEF GuestDISPSTAT, WriteDISPSTAT, Fields, IInv, TypeOK
  <2>4. UNCHANGED <<frameTicks, lines, touched>> /\ clobbered' \subseteq Flags
    BY <1>2 DEF GuestDISPSTAT
  <2> QED BY <2>3, <2>4 DEF IInv, TypeOK, KeepsUp, StateMatchesVCount,
                            NoDrift, DrawnInOrder
<1>3. ASSUME NEW value \in GuestVCounts, GuestVCOUNT(value) PROVE IInv'
  <2>1. NoCalls \in Calls
    BY DEF NoCalls, Calls
  <2>2. value \in 0 .. VCountRange - 1
    BY PPUAssumption
  <2>3. /\ ppu' \in Fields
        /\ ppu'.state = ppu.state /\ ppu'.tickCount = ppu.tickCount
    BY <1>3, <2>1, <2>2 DEF GuestVCOUNT, WriteVCOUNT, Fields, IInv, TypeOK
  <2>4. /\ touched' = TRUE /\ frameTicks' = 0 /\ lines' = << >>
        /\ clobbered' \subseteq Flags
    BY <1>3 DEF GuestVCOUNT, IInv, TypeOK, Flags
  <2> QED BY <2>3, <2>4 DEF IInv, TypeOK, KeepsUp, StateMatchesVCount,
                            NoDrift, DrawnInOrder
<1>4. CASE UNCHANGED vars
  BY <1>4 DEF vars, IInv, TypeOK, KeepsUp, StateMatchesVCount, NoDrift,
              DrawnInOrder
<1> QED BY <1>1, <1>2, <1>3, <1>4 DEF Next

THEOREM Invariance == Spec => []IInv
BY InitIInv, StepIInv, PTL DEF Spec

(* The registers keep their types and the tick count never goes below 0.   *)
THEOREM TypeCorrect == Spec => []TypeOK
BY Invariance, PTL DEF IInv

(* One transition per batch keeps the PPU within one transition of time.   *)
THEOREM NeverBehind == Spec => []KeepsUp
BY Invariance, PTL DEF IInv

(* State machine and VCOUNT agree: no line is drawn outside the screen.    *)
THEOREM BeamConsistent == Spec => []StateMatchesVCount
BY Invariance, PTL DEF IInv

(* No tick of a frame is lost, however the ticks are batched.              *)
THEOREM TicksConserved == Spec => []NoDrift
BY Invariance, PTL DEF IInv

(* Every visible line is drawn once and in order.                          *)
THEOREM LinesDrawnInOrder == Spec => []DrawnInOrder
BY Invariance, PTL DEF IInv
-----------------------------------------------------------------------------
(* FlagsExact, with what makes it inductive: in a frame whose VCOUNT is    *)
(* the guest's, the two flags that follow VCOUNT count as overwritten.     *)
Disowned == touched => {"VBlankFlag", "VCounterFlag"} \subseteq clobbered

FlagInv == IInv /\ Disowned /\ FlagsExact

LEMMA InitFlagInv == Init => FlagInv
<1> SUFFICES ASSUME Init PROVE FlagInv
  OBVIOUS
<1>1. /\ ppu.state = "Visible" /\ ppu.vcount = 0 /\ ppu.dispstat = {}
      /\ ppu.vcountSetting = 0 /\ touched = FALSE
  BY DEF Init, PowerOn
<1>2. TOTAL_LINES # 0
  BY Geometry
<1> QED BY <1>1, <1>2, InitIInv DEF FlagInv, Disowned, FlagsExact

LEMMA ExecuteFlagInv ==
    ASSUME FlagInv, NEW ticks \in 0 .. MaxTicks, Execute(ticks)
    PROVE  Disowned' /\ FlagsExact'
<1> DEFINE total == ppu.tickCount + ticks
<1>1. ppu \in Fields /\ ticks \in Nat
  BY Geometry DEF FlagInv, IInv, TypeOK
<1>2. /\ ppu' \in Fields /\ ppu'.vcountSetting = ppu.vcountSetting
      /\ \/ Stays(ppu, ppu', total)
         \/ Draws(ppu, ppu', total)
         \/ EndsLine(ppu, ppu', total)
         \/ EndsBlankLine(ppu, ppu', total)
  BY <1>1, ExecuteFacts DEF Execute
<1>3. /\ ppu.vcount \in Nat /\ ppu.vcount < VCountRange
      /\ ppu.vcountSetting \in Nat
      /\ ppu.state \in States /\ touched \in BOOLEAN
  BY <1>1, Geometry DEF Fields, FlagInv, IInv, TypeOK
<1>4. /\ clobbered' = clobbered \ Refreshed(ppu')
      /\ touched' => touched
  BY DEF Execute
<1> HIDE DEF total
<1>5. touched => Refreshed(ppu') \subseteq {"HBlankFlag"}
  BY DEF Refreshed
<1>6. Disowned'
  BY <1>4, <1>5 DEF FlagInv, Disowned
<1>12. ~touched => After(ppu) = ppu.vcount + 1
  <2>1. ~touched => ppu.vcount + 1 < VCountRange
    BY <1>3, Geometry DEF FlagInv, IInv, StateMatchesVCount
  <2> QED BY <1>3, <2>1, SmallMod, Geometry DEF After
\* VCOUNT moves on by one, but for the line at which the frame ends.
<1>7. ASSUME ~touched, EndsLine(ppu, ppu', total)
      PROVE  /\ ppu.vcount < VISIBLE_LINES /\ ppu'.vcount = ppu.vcount + 1
             /\ ppu.state = "HBlank"
  <2>1. ppu.vcount < VISIBLE_LINES /\ ppu.state = "HBlank"
    BY <1>3, <1>7, Geometry DEF FlagInv, IInv, StateMatchesVCount, EndsLine
  <2> QED BY <1>7, <1>12, <2>1 DEF EndsLine
<1>8. ASSUME ~touched, EndsBlankLine(ppu, ppu', total)
      PROVE  /\ ppu.vcount >= VISIBLE_LINES /\ ppu.vcount < TOTAL_LINES
             /\ ppu.state = "VBlank"
             /\ \/ /\ ppu.vcount + 1 = TOTAL_LINES
                   /\ ppu'.vcount = 0 /\ ppu'.state = "Visible"
                \/ /\ ppu.vcount + 1 < TOTAL_LINES
                   /\ ppu'.vcount = ppu.vcount + 1 /\ ppu'.state = "VBlank"
  <2>1. /\ ppu.vcount >= VISIBLE_LINES /\ ppu.vcount < TOTAL_LINES
        /\ ppu.state = "VBlank"
    BY <1>3, <1>8, Geometry DEF FlagInv, IInv, StateMatchesVCount, EndsBlankLine
  <2>2. \/ /\ ppu.vcount + 1 >= TOTAL_LINES
           /\ ppu'.vcount = 0 /\ ppu'.state = "Visible"
        \/ /\ ppu.vcount + 1 < TOTAL_LINES
           /\ ppu'.vcount = ppu.vcount + 1
           /\ ppu'.state = "VBlank"
    BY <1>8, <1>12 DEF EndsBlankLine
  <2> QED BY <1>3, <2>1, <2>2, Geometry
<1>9. "HBlankFlag" \notin clobbered' =>
        ("HBlankFlag" \in ppu'.dispstat <=> ppu'.state = "HBlank")
  <2>1. CASE Stays(ppu, ppu', total)
    BY <1>4, <2>1 DEF Stays, Refreshed, FlagInv, FlagsExact
  <2>2. CASE Draws(ppu, ppu', total)
    BY <2>2 DEF Draws
  <2>3. CASE EndsLine(ppu, ppu', total)
    BY <2>3 DEF EndsLine
  <2>4. CASE EndsBlankLine(ppu, ppu', total)
    <3>1. /\ "HBlankFlag" \in ppu'.dispstat <=> "HBlankFlag" \in ppu.dispstat
          /\ ppu.state = "VBlank" /\ ppu'.state # "HBlank"
          /\ ppu'.calls.hBlankCallback = {}
      BY <2>4 DEF EndsBlankLine
    <3>2. "HBlankFlag" \in clobbered' <=> "HBlankFlag" \in clobbered
      BY <1>4, <3>1 DEF Refreshed
    <3> QED BY <3>1, <3>2 DEF FlagInv, FlagsExact
  <2> QED BY <1>2, <2>1, <2>2, <2>3, <2>4
<1>10. ASSUME "VBlankFlag" \notin clobbered'
       PROVE  "VBlankFlag" \in ppu'.dispstat
                <=> ppu'.state = "VBlank" /\ ppu'.vcount # TOTAL_LINES - 1
  <2>1. ~touched
    BY <1>4, <1>5, <1>10 DEF FlagInv, Disowned
  <2>2. ASSUME ~ppu'.calls.render
        PROVE  "VBlankFlag" \in ppu.dispstat
                 <=> ppu.state = "VBlank" /\ ppu.vcount # TOTAL_LINES - 1
    <3>1. "VBlankFlag" \notin clobbered
      BY <1>4, <1>10, <2>2 DEF Refreshed
    <3> QED BY <3>1 DEF FlagInv, FlagsExact
  <2>3. CASE Stays(ppu, ppu', total)
    BY <2>2, <2>3 DEF Stays
  <2>4. CASE Draws(ppu, ppu', total)
    BY <2>2, <2>4 DEF Draws
  <2>5. CASE EndsLine(ppu, ppu', total)
    <3>1. /\ "VBlankFlag" \in ppu'.dispstat
                <=> ppu'.state = "VBlank" \/ "VBlankFlag" \in ppu.dispstat
          /\ ppu'.calls.render <=> ppu'.state = "VBlank"
      BY <2>5 DEF EndsLine
    <3>2. ppu'.vcount # TOTAL_LINES - 1
      BY <1>3, <1>7, <2>1, <2>5, Geometry
    <3> QED BY <1>7, <2>1, <2>2, <2>5, <3>1, <3>2
  <2>6. CASE EndsBlankLine(ppu, ppu', total)
    <3>1. /\ "VBlankFlag" \in ppu'.dispstat
                <=> "VBlankFlag" \in ppu.dispstat /\ ppu.vcount + 1 # TOTAL_LINES - 1
          /\ ~ppu'.calls.render
      BY <1>12, <2>1, <2>6 DEF EndsBlankLine
    <3>2. "VBlankFlag" \in ppu.dispstat <=> ppu.vcount # TOTAL_LINES - 1
      BY <1>8, <2>1, <2>2, <2>6, <3>1
    <3> QED BY <1>3, <1>8, <2>1, <2>6, <3>1, <3>2, Geometry
  <2> QED BY <1>2, <2>3, <2>4, <2>5, <2>6
<1>11. ASSUME "VCounterFlag" \notin clobbered'
       PROVE  "VCounterFlag" \in ppu'.dispstat
                <=> ppu'.vcountSetting = IF ppu'.vcount = 0 THEN TOTAL_LINES
                                                           ELSE ppu'.vcount
  <2>1. ~touched
    BY <1>4, <1>5, <1>11 DEF FlagInv, Disowned
  <2>2. CASE Stays(ppu, ppu', total) \/ Draws(ppu, ppu', total)
    <3>1. /\ ppu'.vcount = ppu.vcount
          /\ "VCounterFlag" \in ppu'.dispstat <=> "VCounterFlag" \in ppu.dispstat
          /\ ~ppu'.calls.render
      BY <2>2 DEF Stays, Draws
    <3>2. "VCounterFlag" \notin clobbered
      BY <1>4, <1>11, <3>1 DEF Refreshed
    <3> QED BY <1>2, <3>1, <3>2 DEF FlagInv, FlagsExact
  <2>3. CASE EndsLine(ppu, ppu', total) \/ EndsBlankLine(ppu, ppu', total)
    <3>1. "VCounterFlag" \in ppu'.dispstat <=> ppu.vcountSetting = ppu.vcount + 1
      BY <2>3 DEF EndsLine, EndsBlankLine
    <3>2. ppu.vcount + 1 = IF ppu'.vcount = 0 THEN TOTAL_LINES ELSE ppu'.vcount
      BY <1>3, <1>7, <1>8, <2>1, <2>3
    <3> QED BY <1>2, <3>1, <3>2
  <2> QED BY <1>2, <2>2, <2>3
<1> QED BY <1>6, <1>9, <1>10, <1>11 DEF FlagsExact

LEMMA StepFlagInv == FlagInv /\ [Next]_vars => FlagInv'
<1> SUFFICES ASSUME FlagInv, [Next]_vars PROVE Disowned' /\ FlagsExact'
  BY StepIInv DEF FlagInv
<1>1. ASSUME NEW ticks \in 0 .. MaxTicks, Execute(ticks)
      PROVE  Disowned' /\ FlagsExact'
  BY <1>1, ExecuteFlagInv
<1>2. ASSUME NEW bits \in GuestBits, NEW setting \in GuestSettings,
             GuestDISPSTAT(bits, setting)
      PROVE  Disowned' /\ FlagsExact'
  BY <1>2 DEF GuestDISPSTAT, Disowned, FlagsExact, Flags
<1>3. ASSUME NEW value \in GuestVCounts, GuestVCOUNT(value)
      PROVE  Disowned' /\ FlagsExact'
  <2>1. /\ {"VBlankFlag", "VCounterFlag"} \subseteq clobbered'
        /\ "HBlankFlag" \in clobbered' <=> "HBlankFlag" \in clobbered
    BY <1>3 DEF GuestVCOUNT
  <2>2. ppu'.state = ppu.state /\ ppu'.dispstat = ppu.dispstat
    BY <1>3 DEF GuestVCOUNT, WriteVCOUNT, FlagInv, IInv, TypeOK, Fields
  <2> QED BY <2>1, <2>2 DEF FlagInv, Disowned, FlagsExact
<1>4. CASE UNCHANGED vars
  BY <1>4 DEF vars, FlagInv, Disowned, FlagsExact
<1> QED BY <1>1, <1>2, <1>3, <1>4 DEF Next

(* What the guest polls in DISPSTAT is the state of the display, for every *)
(* flag it has not overwritten since the display last computed it.         *)
THEOREM FlagsTrue == Spec => []FlagsExact
BY InitFlagInv, StepFlagInv, PTL DEF Spec, FlagInv
=============================================================================
