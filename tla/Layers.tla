------------------------------- MODULE Layers -------------------------------
(***************************************************************************)
(* PPU::DrawLine and MergeRows of ppu/draw_control.cpp: how the rows of    *)
(* the backgrounds and the frame of the objects become a line of dots,     *)
(* under the windows and the blending.  A line reads its registers in four *)
(* ways: DISPCNT and the windows as they are; the priority of a background *)
(* for the drawing order as the last line that drew it has left it; the    *)
(* blending as it was at the end of the last frame; the objects as they    *)
(* were at the beginning of the last VBlank.                               *)
(*                                                                         *)
(* Which dots of a background have a colour is the constant Picture; what  *)
(* the colours are is in Backgrounds.tla and Objects.tla.  A line is drawn *)
(* over the backdrop that ToVBlank has filled the frame with, for it is    *)
(* drawn once (PPU.tla, DrawnInOrder).  Mosaic is left out.                *)
(***************************************************************************)
EXTENDS ScreenSize

CONSTANTS
    Picture,         \* for each background, the columns where it has a colour
    GuestDisplays,   \* values of DISPCNT
    GuestPriorities, \* for each background, priorities stored in its BGxCNT
    GuestWindows,    \* values of the six window registers
    GuestBlends,     \* values of BLDCNT
    ObjectFrames     \* what DrawObjects makes of OAM, for each column

VARIABLES
    dispcnt, bgcnt, winRegs, bldcnt,   \* the registers
    bgCnt, bldCnt,                     \* what is cached of them
    objRow,    \* objFb, one row of it for all
    vcount,
    row,       \* the dots the last step has drawn, or none
    fresh,     \* history: backgrounds stored to since a line drew them
    started    \* history: there has been a VBlank

layerVars == <<dispcnt, bgcnt, winRegs, bldcnt, bgCnt, bldCnt, objRow, vcount, row,
               fresh, started>>

BGs == 0 .. 3

\* BldCnt::TargetLayer; bit 5 of a window's settings are its effects.
Sprites  == 4
Backdrop == 5
Effects  == 5
NoLayer  == 6
Bitmap   == 7
AllLayers == BGs \cup {Sprites, Backdrop}
NoRow   == [x \in {} |-> NoLayer]

NoObject == [pixel |-> FALSE, prio |-> 5, transparency |-> FALSE, mask |-> FALSE]

\* An object has one of four priorities, where there is none it is 5.
ObjDots == {dot \in [pixel : BOOLEAN, prio : {0, 1, 2, 3, 5},
                     transparency : BOOLEAN, mask : BOOLEAN] :
              dot.pixel <=> dot.prio # 5}

ASSUME LayersAssumption ==
    /\ \A d \in GuestDisplays : d.bgMode \in 0 .. 7 /\ d.windows \subseteq {"Win0", "Win1", "Obj"}
    /\ \A bg \in BGs : GuestPriorities[bg] \subseteq 0 .. 3
    /\ \A b \in GuestBlends : b.first \subseteq AllLayers /\ b.second \subseteq AllLayers
    /\ ObjectFrames \subseteq [Columns -> ObjDots]
-----------------------------------------------------------------------------
\* Window: an end before the beginning, or behind the screen, is the edge.
End(from, to, edge) == IF to > edge \/ from > to THEN edge ELSE to

InRange(w, x, y) == /\ x >= w.x1 /\ x < End(w.x1, w.x2, SCREEN_WIDTH)
                    /\ y >= w.y1 /\ y < End(w.y1, w.y2, SCREEN_HEIGHT)

\* What may be shown at a column: of the window the dot is in, or everything.
GetActiveWindow(x) ==
    LET Covers(w) == InRange(winRegs[w], x, vcount) /\ w \in dispcnt.windows
    IN  IF Covers("Win0") THEN winRegs.inside["Win0"]
        ELSE IF Covers("Win1") THEN winRegs.inside["Win1"]
        ELSE IF objRow[x].mask /\ "Obj" \in dispcnt.windows THEN winRegs.inside["Obj"]
        ELSE IF dispcnt.windows # {} THEN winRegs.inside["Outside"]
        ELSE BGs \cup {Sprites, Effects}

\* The backgrounds a mode has and, of these, the ones DISPCNT shows.
ModeLayers(mode) == CASE mode = 0 -> BGs
                      [] mode = 1 -> {0, 1, 2}
                      [] mode = 2 -> {2, 3}
                      [] OTHER    -> {}
Active == ModeLayers(dispcnt.bgMode) \cap dispcnt.screenDisplay

\* The first of some backgrounds in the order of GetBGDrawOrder, or none: the
\* scores are the keys of a std::map, in order, and no two the same.
FirstDrawn(layers, priority) ==
    IF layers = {} THEN NoLayer
    ELSE CHOOSE a \in layers : \A b \in layers : a + 4 * priority[a] <= b + 4 * priority[b]

\* SetSFXPixel: the backdrop is blended with where nothing else is.
SetSFXPixel(top, second, effect) ==
    LET below == IF second = NoLayer /\ Backdrop \in bldCnt.second
                 THEN Backdrop ELSE second
    IN  IF effect = "AlphaBlending"
        THEN [top |-> top, below |-> below,
              effect |-> IF below = NoLayer THEN "None" ELSE effect]
        ELSE [top |-> top, below |-> NoLayer, effect |-> effect]

(* Mutant of BelowTop: what lies behind may be in front of the object.     *)
BelowTopAny(behind, priority, window, obj) ==
    IF bldCnt.effect = "AlphaBlending" THEN behind ELSE NoLayer
-----------------------------------------------------------------------------
\* The layer behind a background on top that alpha blending may use: the next
\* background, if it is a target, unless an object lies before it.
BelowTop(behind, priority, window, obj) ==
    LET next == IF bldCnt.effect = "AlphaBlending" /\ behind \in bldCnt.second
                THEN behind ELSE NoLayer
    IN  IF Sprites \in window /\ obj.prio <= (IF next = NoLayer THEN 5 ELSE priority[next])
        THEN IF Sprites \in bldCnt.second /\ obj.pixel THEN Sprites ELSE NoLayer
        ELSE next

\* One round of MergeRows: an object pixel without a colour, of priority 5 or
\* of none before the first VBlank, may hide the backgrounds.  The order is
\* that of the priorities drawnBy.
MergeDot(drawnBy, priority, x) ==
    LET window    == GetActiveWindow(x)
        opaque    == {bg \in Active : bg \in window /\ x \in Picture[bg]}
        first     == FirstDrawn(opaque, drawnBy)
        behind    == FirstDrawn(opaque \ {first}, drawnBy)
        firstPrio == IF first = NoLayer THEN 5 ELSE priority[first]
        obj       == objRow[x]
        objOnTop  == Sprites \in window /\ obj.prio <= firstPrio
        top       == IF ~objOnTop THEN first ELSE IF obj.pixel THEN Sprites ELSE NoLayer
        target    == (IF objOnTop THEN Sprites ELSE first) \in bldCnt.first
        force     == objOnTop /\ obj.transparency
        second    == IF objOnTop THEN first ELSE BelowTop(behind, priority, window, obj)
    IN  CASE top = NoLayer ->
               [top |-> Backdrop, below |-> NoLayer, effect |-> "None"]
          [] top # NoLayer /\ force ->
               SetSFXPixel(top, second, "AlphaBlending")
          [] top # NoLayer /\ ~force /\ target /\ Effects \in window ->
               SetSFXPixel(top, second, bldCnt.effect)
          [] OTHER -> [top |-> top, below |-> NoLayer, effect |-> "None"]
-----------------------------------------------------------------------------
\* Before the first VBlank nobody has set the objects' frame: no colours, and
\* any priority.
InitLayers == /\ dispcnt \in GuestDisplays
              /\ bgcnt = [bg \in BGs |-> 0]
              /\ winRegs \in GuestWindows
              /\ bldcnt \in GuestBlends
              /\ bgCnt = bgcnt
              /\ bldCnt = [first |-> {}, second |-> {}, effect |-> "None"]
              /\ objRow \in {[x \in Columns |-> [NoObject EXCEPT !.prio = p]] : p \in {0, 5}}
              /\ vcount = 0
              /\ row = NoRow
              /\ fresh = {}
              /\ started = FALSE

StoreDispCnt == /\ dispcnt' \in GuestDisplays
                /\ row' = NoRow
                /\ UNCHANGED <<bgcnt, winRegs, bldcnt, bgCnt, bldCnt, objRow, vcount,
                               fresh, started>>

StoreControl(bg, priority) ==
    /\ bgcnt' = [bgcnt EXCEPT ![bg] = priority]
    /\ fresh' = fresh \cup {bg}
    /\ row' = NoRow
    /\ UNCHANGED <<dispcnt, winRegs, bldcnt, bgCnt, bldCnt, objRow, vcount, started>>

StoreWindows == /\ winRegs' \in GuestWindows
                /\ row' = NoRow
                /\ UNCHANGED <<dispcnt, bgcnt, bldcnt, bgCnt, bldCnt, objRow, vcount,
                               fresh, started>>

StoreBlend == /\ bldcnt' \in GuestBlends
              /\ row' = NoRow
              /\ UNCHANGED <<dispcnt, bgcnt, winRegs, bgCnt, bldCnt, objRow, vcount,
                             fresh, started>>

(* Mutant of RefreshedCnt: drawing a line leaves the priorities alone.     *)
RefreshedCntNever == bgCnt
-----------------------------------------------------------------------------
\* TextBGLine and RotScaleBGLine begin with the control of their background.
RefreshedCnt == [bg \in BGs |-> IF bg \in Active THEN bgcnt[bg] ELSE bgCnt[bg]]

\* The order is that of the priorities before the backgrounds are drawn, the
\* comparison with the objects that of those after.  A bitmap mode has neither
\* windows nor objects, and a mode from 5 on draws nothing.
DrawLine ==
    /\ vcount < SCREEN_HEIGHT
    /\ vcount' = vcount + 1
    /\ bgCnt' = RefreshedCnt
    /\ row' = CASE dispcnt.bgMode <= 2 ->
                     [x \in Columns |-> MergeDot(bgCnt, RefreshedCnt, x)]
                [] dispcnt.bgMode \in {3, 4} ->
                     [x \in Columns |-> [top |-> Bitmap, below |-> NoLayer, effect |-> "None"]]
                [] OTHER -> NoRow
    /\ fresh' = fresh \ Active
    /\ UNCHANGED <<dispcnt, bgcnt, winRegs, bldcnt, bldCnt, objRow, started>>

\* VBlank, from its beginning, where DrawObjects draws, to its end, where the
\* blending is read.
VBlank == /\ vcount = SCREEN_HEIGHT
          /\ vcount' = vcount + 1
          /\ objRow' \in ObjectFrames
          /\ row' = NoRow
          /\ started' = TRUE
          /\ UNCHANGED <<dispcnt, bgcnt, winRegs, bldcnt, bgCnt, bldCnt, fresh>>

FrameEnd == /\ vcount > SCREEN_HEIGHT
            /\ vcount' = 0
            /\ bldCnt' = bldcnt
            /\ row' = NoRow
            /\ UNCHANGED <<dispcnt, bgcnt, winRegs, bldcnt, bgCnt, objRow, fresh, started>>

NextLayer == \/ StoreDispCnt \/ StoreWindows \/ StoreBlend
             \/ \E bg \in BGs : \E priority \in GuestPriorities[bg] : StoreControl(bg, priority)
             \/ DrawLine \/ VBlank \/ FrameEnd

LayersSpec == InitLayers /\ [][NextLayer]_layerVars
-----------------------------------------------------------------------------
\* The window a dot is in, by the registers: of those shown that contain it,
\* the first of window 0, window 1 and the object window.
WindowRank == [Win0 |-> 0, Win1 |-> 1, Obj |-> 2]
Inside(x) ==
    LET Holds(w) == IF w = "Obj" THEN objRow[x].mask ELSE InRange(winRegs[w], x, vcount)
        In == {w \in dispcnt.windows : Holds(w)}
    IN  CASE dispcnt.windows = {} -> BGs \cup {Sprites, Effects}
          [] dispcnt.windows # {} /\ In = {} -> winRegs.inside["Outside"]
          [] OTHER -> winRegs.inside[CHOOSE w \in In :
                                        \A v \in In : WindowRank[w] <= WindowRank[v]]

\* The layers with a colour at a column, and which of two lies before the
\* other: an object before the backgrounds of its priority.
Shown(x) == {l \in Inside(x) : \/ l \in Active /\ x \in Picture[l]
                               \/ l = Sprites /\ objRow[x].pixel}
Rank(l, x) == CASE l = Sprites      -> 5 * objRow[x].prio
                [] l = Backdrop -> 20
                [] OTHER          -> 5 * bgcnt[l] + 1 + l
Frontmost(layers, x) == CHOOSE l \in layers : \A k \in layers : Rank(l, x) <= Rank(k, x)

Settled == started /\ fresh \cap Active = {}
Layered == DrawLine /\ dispcnt.bgMode <= 2

(* A line shows, at every dot, a layer that has a colour there and that    *)
(* the window lets through, and the frontmost of them as long as no shown  *)
(* background has been stored to since a line last drew it: the order of a *)
(* line is that of the priorities the line before has left (draw_control   *)
(* 137).  Before the first VBlank the backdrop may be in front of all.     *)
LayersOrdered ==
    [][Layered => \A x \in Columns :
          LET top == row'[x].top
          IN  /\ top \in Shown(x) \cup {Backdrop}
              /\ started /\ Shown(x) # {} => top # Backdrop
              /\ Settled => top = Frontmost(Shown(x) \cup {Backdrop}, x)]_layerVars

(* Blending happens where it was asked for and with what lies behind: its  *)
(* top layer is a first target in a window with effects, or a half-        *)
(* transparent object; the one below is behind it and, under a background, *)
(* a second target; and a second target directly behind is blended with.   *)
EffectsAimed ==
    [][Layered /\ Settled => \A x \in Columns :
          LET dot    == row'[x]
              force  == dot.top = Sprites /\ objRow[x].transparency
              asked  == \/ dot.top \in bldCnt.first /\ Effects \in Inside(x)
                        \/ force
              effect == IF force THEN "AlphaBlending" ELSE bldCnt.effect
              behind == (Shown(x) \cup {Backdrop}) \ {dot.top}
              next   == Frontmost(behind, x)
          IN  /\ dot.effect # "None" => asked /\ dot.effect = effect
              /\ dot.effect = "AlphaBlending" =>
                    /\ dot.below \in behind
                    /\ Rank(dot.top, x) < Rank(dot.below, x)
                    /\ dot.top = Sprites \/ dot.below \in bldCnt.second
              /\ dot.top # Backdrop /\ asked =>
                    CASE effect = "AlphaBlending" ->
                           next \in bldCnt.second => dot.effect = effect /\ dot.below = next
                      [] OTHER -> dot.effect = effect]_layerVars
=============================================================================
