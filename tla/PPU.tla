-------------------------------- MODULE PPU --------------------------------
(***************************************************************************)
(* The display timing of ppu/ppu.cpp: the walk through Visible, HBlank and *)
(* VBlank driven by batches of ticks, VCOUNT and DISPSTAT, which the guest *)
(* can overwrite (ppu/lcd_io_registers.cpp keeps every bit of a store),    *)
(* and the calls that go out to the CPU, the DMA controller and the screen.*)
(* What a line looks like is not modelled here, only when it is drawn.     *)
(***************************************************************************)
EXTENDS Integers, Sequences

CONSTANTS
    CYCLES_PER_VISIBLE, CYCLES_PER_HBLANK, VISIBLE_LINES, VBLANK_LINES,
    VCountRange,     \* 2^16, the values of the VCOUNT halfword
    MaxTicks,        \* the most ticks one pass of the main loop takes
    GuestVCounts,    \* values the guest stores into VCOUNT (none, normally)
    GuestSettings,   \* values of the VCountSetting byte the guest stores
    GuestBits        \* sets of DISPSTAT bits the guest stores

CYCLES_PER_LINE == CYCLES_PER_VISIBLE + CYCLES_PER_HBLANK
TOTAL_LINES     == VISIBLE_LINES + VBLANK_LINES
CYCLES_PER_FRAME == TOTAL_LINES * CYCLES_PER_LINE

States  == {"Visible", "HBlank", "VBlank"}
Flags   == {"VBlankFlag", "HBlankFlag", "VCounterFlag"}
Enables == {"VBlankIRQEnable", "HBlankIRQEnable", "VCounterIRQEnable"}
DispStatBits == Flags \cup Enables

ASSUME PPUAssumption ==
    /\ CYCLES_PER_VISIBLE \in Nat \ {0}
    /\ CYCLES_PER_HBLANK \in 1 .. CYCLES_PER_VISIBLE
    /\ VISIBLE_LINES \in Nat \ {0}
    /\ VBLANK_LINES \in Nat /\ VBLANK_LINES >= 2
    /\ VCountRange \in Nat /\ VCountRange > TOTAL_LINES
    /\ GuestVCounts \subseteq 0 .. VCountRange - 1
    /\ GuestSettings \subseteq Nat
    /\ GuestBits \subseteq SUBSET DispStatBits

\* The longest batch, a block transfer from slow ROM, may be longer than
\* an HBlank, but two of them fit in a line.
ASSUME PPUBatchAssumption ==
    /\ MaxTicks \in Nat
    /\ 2 * MaxTicks <= CYCLES_PER_LINE

VARIABLES
    ppu,         \* state, tickCount and the registers, and the calls out
    frameTicks,  \* history: ticks since this frame began
    lines,       \* history: the lines drawn since this frame began
    touched,     \* history: the guest stored into VCOUNT this frame
    clobbered    \* history: flags the guest overwrote since they were last set

vars == <<ppu, frameTicks, lines, touched, clobbered>>

NoCalls == [irqs |-> {}, hBlankCallback |-> {}, vBlankCallback |-> {},
            drawLine |-> FALSE, render |-> FALSE]

Calls == [irqs : SUBSET {"VBlank", "HBlank", "VCounter"},
          hBlankCallback : SUBSET BOOLEAN, vBlankCallback : SUBSET BOOLEAN,
          drawLine : BOOLEAN, render : BOOLEAN]

Fields == [state : States, tickCount : Nat, vcount : 0 .. VCountRange - 1,
           dispstat : SUBSET DispStatBits, vcountSetting : Nat,
           calls : Calls]

PowerOn == [state |-> "Visible", tickCount |-> 0, vcount |-> 0,
            dispstat |-> {}, vcountSetting |-> 0, calls |-> NoCalls]
-----------------------------------------------------------------------------
UpdateDispStat(p, flag, set) ==
    [p EXCEPT !.dispstat = IF set THEN @ \cup {flag} ELSE @ \ {flag}]

RequestIfEnabled(p, enable, irq) ==
    IF enable \in p.dispstat THEN [p EXCEPT !.calls.irqs = @ \cup {irq}] ELSE p

\* IncrementVCount.  VCounterSetting is compared with vcount + 1 before it
\* wraps (Read gives 32 bits); the register stored, and the U16 returned, wrap
\* to 0 after the largest halfword.  Callers read the result off the register.
IncrementVCount(p) ==
    LET q   == [p EXCEPT !.vcount = (@ + 1) % VCountRange]
        hit == p.vcountSetting = p.vcount + 1
        r   == UpdateDispStat(q, "VCounterFlag", hit)
    IN  IF hit THEN RequestIfEnabled(r, "VCounterIRQEnable", "VCounter") ELSE r

(* Mutants of ToHBlank.                                                    *)
ToHBlankDroppingRest(p) ==
    RequestIfEnabled(
        UpdateDispStat([p EXCEPT !.state = "HBlank", !.tickCount = 0,
                                 !.calls.hBlankCallback = {TRUE},
                                 !.calls.drawLine = TRUE],
                       "HBlankFlag", TRUE),
        "HBlankIRQEnable", "HBlank")

-----------------------------------------------------------------------------
ToHBlank(p) ==
    RequestIfEnabled(
        UpdateDispStat([p EXCEPT !.state = "HBlank",
                                 !.tickCount = @ - CYCLES_PER_VISIBLE,
                                 !.calls.hBlankCallback = {TRUE},
                                 !.calls.drawLine = TRUE],
                       "HBlankFlag", TRUE),
        "HBlankIRQEnable", "HBlank")

ToVBlank(p) ==
    RequestIfEnabled(
        UpdateDispStat([p EXCEPT !.state = "VBlank", !.calls.render = TRUE,
                                 !.calls.vBlankCallback = {TRUE}],
                       "VBlankFlag", TRUE),
        "VBlankIRQEnable", "VBlank")

(* Mutants of OnHBlankFinish.                                              *)
OnHBlankFinishEarly(p) ==
    LET q == [p EXCEPT !.tickCount = @ - CYCLES_PER_HBLANK,
                       !.calls.hBlankCallback = {FALSE}]
        r == IncrementVCount(UpdateDispStat(q, "HBlankFlag", FALSE))
    IN  IF p.vcount >= VISIBLE_LINES THEN ToVBlank(r)
        ELSE [r EXCEPT !.state = "Visible"]

OnHBlankFinishKeepingFlag(p) ==
    LET r == IncrementVCount([p EXCEPT !.tickCount = @ - CYCLES_PER_HBLANK,
                                       !.calls.hBlankCallback = {FALSE}])
    IN  IF r.vcount >= VISIBLE_LINES THEN ToVBlank(r)
        ELSE [UpdateDispStat(r, "HBlankFlag", FALSE) EXCEPT !.state = "Visible"]
-----------------------------------------------------------------------------
OnHBlankFinish(p) ==
    LET q == [p EXCEPT !.tickCount = @ - CYCLES_PER_HBLANK,
                       !.calls.hBlankCallback = {FALSE}]
        r == IncrementVCount(UpdateDispStat(q, "HBlankFlag", FALSE))
    IN  IF r.vcount >= VISIBLE_LINES THEN ToVBlank(r)
        ELSE [r EXCEPT !.state = "Visible"]

\* The affine and blend registers reloaded at the end of the frame are left out.
OnVBlankLineFinish(p) ==
    LET q == IncrementVCount([p EXCEPT !.tickCount = @ - CYCLES_PER_LINE])
        r == IF q.vcount = TOTAL_LINES - 1
             THEN UpdateDispStat(q, "VBlankFlag", FALSE) ELSE q
    IN  IF q.vcount >= TOTAL_LINES
        THEN [r EXCEPT !.vcount = 0, !.state = "Visible",
                       !.calls.vBlankCallback = {FALSE}]
        ELSE r

Threshold(state) == CASE state = "Visible" -> CYCLES_PER_VISIBLE
                      [] state = "HBlank"  -> CYCLES_PER_HBLANK
                      [] state = "VBlank"  -> CYCLES_PER_LINE

\* PPU::Execute: at most one transition for each batch of ticks.
ExecutePPU(p, ticks) ==
    LET q == [p EXCEPT !.tickCount = @ + ticks, !.calls = NoCalls]
    IN  IF q.tickCount <= Threshold(q.state) THEN q
        ELSE CASE q.state = "Visible" -> ToHBlank(q)
               [] q.state = "HBlank"  -> OnHBlankFinish(q)
               [] q.state = "VBlank"  -> OnVBlankLineFinish(q)

\* Stores by the guest: every bit is kept, the read-only ones included.
WriteDISPSTAT(p, bits, setting) ==
    [p EXCEPT !.dispstat = bits, !.vcountSetting = setting, !.calls = NoCalls]
WriteVCOUNT(p, value) == [p EXCEPT !.vcount = value, !.calls = NoCalls]
-----------------------------------------------------------------------------
Init == /\ ppu = PowerOn
        /\ frameTicks = 0
        /\ lines = << >>
        /\ touched = FALSE
        /\ clobbered = {}

\* The flags whose bit the step to next has just computed, from a VCOUNT
\* that is the display's own.
Refreshed(next) ==
    (IF next.calls.hBlankCallback # {} THEN {"HBlankFlag"} ELSE {})
    \cup (IF ~touched /\ next.vcount # ppu.vcount THEN {"VCounterFlag"} ELSE {})
    \cup (IF ~touched /\ next.calls.render THEN {"VBlankFlag"} ELSE {})

Execute(ticks) ==
    LET next     == ExecutePPU(ppu, ticks)
        newFrame == FALSE \in next.calls.vBlankCallback
    IN  /\ ppu' = next
        /\ frameTicks' = CASE touched /\ newFrame   -> next.tickCount
                           [] touched /\ ~newFrame  -> 0
                           [] ~touched /\ newFrame  -> frameTicks + ticks
                                                        - CYCLES_PER_FRAME
                           [] ~touched /\ ~newFrame -> frameTicks + ticks
        /\ lines' = CASE newFrame \/ touched -> << >>
                      [] ~newFrame /\ ~touched /\ next.calls.drawLine ->
                           Append(lines, ppu.vcount)
                      [] OTHER -> lines
        /\ touched' = (touched /\ ~newFrame)
        /\ clobbered' = clobbered \ Refreshed(next)

GuestDISPSTAT(bits, setting) ==
    /\ ppu' = WriteDISPSTAT(ppu, bits, setting)
    /\ clobbered' = Flags
    /\ UNCHANGED <<frameTicks, lines, touched>>

GuestVCOUNT(value) ==
    /\ ppu' = WriteVCOUNT(ppu, value)
    /\ touched' = TRUE
    /\ clobbered' = clobbered \cup {"VBlankFlag", "VCounterFlag"}
    /\ frameTicks' = 0
    /\ lines' = << >>

Next == \/ \E ticks \in 0 .. MaxTicks : Execute(ticks)
        \/ \E bits \in GuestBits, setting \in GuestSettings :
              GuestDISPSTAT(bits, setting)
        \/ \E value \in GuestVCounts : GuestVCOUNT(value)

Spec == Init /\ [][Next]_vars
-----------------------------------------------------------------------------
(* The registers hold what their width allows and the tick count never     *)
(* goes below zero.                                                        *)
TypeOK == /\ ppu \in Fields
          /\ frameTicks \in Nat
          /\ lines \in Seq(0 .. VCountRange - 1)
          /\ touched \in BOOLEAN
          /\ clobbered \subseteq Flags

(* One transition per batch is enough: the PPU is never more than one      *)
(* transition behind the clock, and only in an HBlank shorter than the     *)
(* batch that began it.                                                    *)
KeepsUp == \/ ppu.tickCount <= Threshold(ppu.state)
           \/ ppu.state = "HBlank" /\ ppu.tickCount <= MaxTicks

(* The state machine and VCOUNT, two separate pieces of state, agree: a    *)
(* line is drawn only inside the frame buffer and VBlank spans the lines   *)
(* behind it, unless the guest stored into VCOUNT during this frame.       *)
StateMatchesVCount ==
    ~touched => IF ppu.state = "VBlank"
                THEN ppu.vcount \in VISIBLE_LINES .. TOTAL_LINES - 1
                ELSE ppu.vcount \in 0 .. VISIBLE_LINES - 1

(* No tick is lost or counted twice over a frame, whatever the batches:    *)
(* the position of the beam and the ticks in hand are the ticks elapsed.   *)
NoDrift ==
    ~touched =>
        frameTicks = ppu.vcount * CYCLES_PER_LINE + ppu.tickCount
                     + (IF ppu.state = "HBlank" THEN CYCLES_PER_VISIBLE ELSE 0)

(* Every visible line of a frame is drawn, once and in order, before the   *)
(* frame is rendered at VBlank.                                            *)
DrawnInOrder ==
    ~touched =>
        lines = [n \in 1 .. (CASE ppu.state = "Visible" -> ppu.vcount
                               [] ppu.state = "HBlank"  -> ppu.vcount + 1
                               [] ppu.state = "VBlank"  -> VISIBLE_LINES) |-> n - 1]

(* What the guest polls in DISPSTAT is the state of the display, for every *)
(* flag it has not overwritten since: HBlank only in visible lines, VBlank *)
(* without its last line, and the VCounter match of the current line - of  *)
(* line TOTAL_LINES on line 0, which IncrementVCount compares before it is *)
(* reset.                                                                  *)
FlagsExact ==
    /\ "HBlankFlag" \notin clobbered =>
         ("HBlankFlag" \in ppu.dispstat <=> ppu.state = "HBlank")
    /\ "VBlankFlag" \notin clobbered =>
         ("VBlankFlag" \in ppu.dispstat
            <=> ppu.state = "VBlank" /\ ppu.vcount # TOTAL_LINES - 1)
    /\ "VCounterFlag" \notin clobbered =>
         ("VCounterFlag" \in ppu.dispstat
            <=> ppu.vcountSetting = IF ppu.vcount = 0 THEN TOTAL_LINES
                                                      ELSE ppu.vcount)
=============================================================================
