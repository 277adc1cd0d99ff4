---------------------------- MODULE Backgrounds ----------------------------
(***************************************************************************)
(* The row of one background that can be both text and rotated, BG2 or     *)
(* BG3: TextBGLine of ppu/text_modes.cpp and RotScaleBGLine of             *)
(* ppu/rotscale_modes.cpp, with the reference point that the end of VBlank *)
(* reloads (ppu/ppu.cpp) and the control that the two draw by and keep     *)
(* (ppu/bg_control_info.hpp).  What a dot shows is the place in VRAM its   *)
(* colour comes from; palettes, depths, tile data bases and mosaic are     *)
(* left out.                                                               *)
(***************************************************************************)
EXTENDS Tiles

CONSTANTS
    BG_ID,
    TILE_AREA,          \* TILE_AREA_WIDTH and TILE_AREA_HEIGHT
    ROTSCALE_MAP,       \* the smallest of ROTSCALE_BGMAP_SIZES
    RefRange,           \* 2^28, the values of a reference register
    MapEntry(_, _),     \* tile and flips at an index of a screen area
    GuestBgControls, GuestOffsets, GuestReferences, GuestMatrices

VARIABLES
    control, offsets, reference, matrix,   \* the registers
    ID, bgRef,                             \* bgCnt's ID, bgXRef and bgYRef
    bgLine,     \* VCOUNT
    bgRow,      \* what the last step has drawn, or nothing
    textDrawn,  \* history: a line has been drawn as text
    frameRef    \* history: the reference registers when this frame began

bgVars == <<control, offsets, reference, matrix, ID, bgRef, bgLine, bgRow, textDrawn,
            frameRef>>

AREA        == TILE * TILE_AREA
Transparent == << >>
Undrawn     == [x \in {} |-> Transparent]

ASSUME BackgroundsAssumption ==
    /\ TILE_AREA \in Nat \ {0} /\ ROTSCALE_MAP \in Nat \ {0}
    /\ RefRange \in Nat \ {0} /\ RefRange % 2 = 0
    /\ BG_ID \in {2, 3}
    /\ GuestBgControls \subseteq [screenSize : 0 .. 3, wrap : BOOLEAN]
    /\ GuestOffsets \subseteq Nat \X Nat
    /\ GuestReferences \subseteq (0 .. RefRange - 1) \X (0 .. RefRange - 1)
    /\ GuestMatrices \subseteq [dx : Int, dmx : Int, dy : Int, dmy : Int]
-----------------------------------------------------------------------------
\* TEXT_BGMAP_SIZES
TextSize(size) == <<IF size \in {1, 3} THEN 2 * AREA ELSE AREA,
                    IF size \in {2, 3} THEN 2 * AREA ELSE AREA>>

(* Mutant of GetScreenAreaOffset: the high map is laid out like the wide.  *)
GetScreenAreaOffsetWide(mapX, mapY, screenSize) ==
    IF screenSize = 0 THEN 0 ELSE mapX \div TILE_AREA + 2 * (mapY \div TILE_AREA)
-----------------------------------------------------------------------------
\* The screen area of a tile, of 0x800 bytes each.
GetScreenAreaOffset(mapX, mapY, screenSize) ==
    CASE screenSize = 0 -> 0
      [] screenSize = 1 -> mapX \div TILE_AREA
      [] screenSize = 2 -> mapY \div TILE_AREA
      [] screenSize = 3 -> mapX \div TILE_AREA + (mapY \div TILE_AREA) * 2

\* TextBGLine: the tile entry is fetched at the first dot and wherever a tile
\* ends, and its pixels are drawn from there on.
AbsoluteX(x, hofs, size) == (x + hofs) % TextSize(size)[1]
FetchedAt(hofs, size) ==
    LET first[x \in Columns] ==
          IF x = 0 THEN 0
          ELSE LET begin == first[x - 1]
               IN  IF (AbsoluteX(begin, hofs, size) % TILE) + (x - begin) < TILE
                   THEN begin ELSE x
    IN  first

TextRow(size, hofs, vofs, y) ==
    LET absoluteY == (y + vofs) % TextSize(size)[2]
        mapY      == absoluteY \div TILE
        pixelY    == absoluteY % TILE
        Fetch(x)  == LET mapX == AbsoluteX(x, hofs, size) \div TILE
                     IN  MapEntry(GetScreenAreaOffset(mapX, mapY, size),
                                  (mapX % TILE_AREA) + (mapY % TILE_AREA) * TILE_AREA)
        Pixel(entry, px) ==
            <<entry.tile,
              IF entry.horizontalFlip THEN TILE - (px + 1) ELSE px,
              IF entry.verticalFlip THEN TILE - (pixelY + 1) ELSE pixelY>>
        first     == FetchedAt(hofs, size)
    IN  [x \in Columns |-> Pixel(Fetch(first[x]),
                                 (AbsoluteX(first[x], hofs, size) % TILE) + (x - first[x]))]

\* The rest of a division that rounds towards 0.
Remainder(n, d) == n - d * Quotient(n, d)

(* Mutant of Wrapped: what lies before the map keeps its negative rest.    *)
WrappedBelow(n, max) == Remainder(n, max)
-----------------------------------------------------------------------------
Wrapped(n, max) == LET r == Remainder(n, max) IN IF r < 0 THEN r + max ELSE r

\* BGControlInfo::UpdateValue keeps the ID, which the constructor of the PPU
\* gives as 0 to every background.
WrapAround == control.wrap \/ ID \in {0, 1}

MapPlace(x, y, max) == <<(y \div TILE) * (max \div TILE) + x \div TILE, x % TILE, y % TILE>>

\* ROTSCALE_BGMAP_SIZES
RotScaleSize(size) == ROTSCALE_MAP * <<1, 2, 4, 8>>[size + 1]

RotScaleRow(y) ==
    LET max == RotScaleSize(control.screenSize)
        RefX(x) == bgRef[1] + y * matrix.dmx + x * matrix.dx
        RefY(x) == bgRef[2] + y * matrix.dmy + x * matrix.dy
        Dot(refx, refy) ==
            LET mx == Quotient(refx, FLOAT_SCALE)
                my == Quotient(refy, FLOAT_SCALE)
            IN  IF mx < max /\ my < max /\ refx >= 0 /\ refy >= 0
                THEN MapPlace(mx, my, max)
                ELSE IF WrapAround
                THEN MapPlace(Wrapped(mx, max), Wrapped(my, max), max)
                ELSE Transparent
    IN  [x \in Columns |-> Dot(RefX(x), RefY(x))]

\* The reload at the end of VBlank extends bit 27.
Reload(value) == IF value >= RefRange \div 2 THEN value - RefRange ELSE value
-----------------------------------------------------------------------------
InitBackground == /\ control \in GuestBgControls
                  /\ offsets \in GuestOffsets
                  /\ matrix \in GuestMatrices
                  /\ reference = <<0, 0>>
                  /\ ID = 0
                  /\ bgRef = <<0, 0>>
                  /\ bgLine = 0
                  /\ bgRow = Undrawn
                  /\ textDrawn = FALSE
                  /\ frameRef = reference

StoreBackground == /\ \/ /\ control' \in GuestBgControls
                         /\ UNCHANGED <<offsets, reference, matrix>>
                      \/ /\ offsets' \in GuestOffsets
                         /\ UNCHANGED <<control, reference, matrix>>
                      \/ /\ reference' \in GuestReferences
                         /\ UNCHANGED <<control, offsets, matrix>>
                      \/ /\ matrix' \in GuestMatrices
                         /\ UNCHANGED <<control, offsets, reference>>
                   /\ bgRow' = Undrawn
                   /\ UNCHANGED <<ID, bgRef, bgLine, textDrawn, frameRef>>

TextBGLine == /\ bgLine < SCREEN_HEIGHT
              /\ bgLine' = bgLine + 1
              /\ ID' = BG_ID
              /\ bgRow' = TextRow(control.screenSize, offsets[1], offsets[2], bgLine)
              /\ textDrawn' = TRUE
              /\ UNCHANGED <<control, offsets, reference, matrix, bgRef, frameRef>>

RotScaleBGLine == /\ bgLine < SCREEN_HEIGHT
                  /\ bgLine' = bgLine + 1
                  /\ bgRow' = RotScaleRow(bgLine)
                  /\ UNCHANGED <<control, offsets, reference, matrix, ID, bgRef,
                                 textDrawn, frameRef>>

ReloadRefs == /\ bgLine = SCREEN_HEIGHT
              /\ bgLine' = 0
              /\ bgRef' = [i \in 1 .. 2 |-> Reload(reference[i])]
              /\ frameRef' = reference
              /\ bgRow' = Undrawn
              /\ UNCHANGED <<control, offsets, reference, matrix, ID, textDrawn>>

NextBackground == StoreBackground \/ TextBGLine \/ RotScaleBGLine \/ ReloadRefs

BackgroundsSpec == InitBackground /\ [][NextBackground]_bgVars
-----------------------------------------------------------------------------
\* A text map is a torus of screen areas, numbered along the lines; the dot at
\* a position is that pixel of the tile there, mirrored if the entry says so.
TorusDot(x, y, size) ==
    LET ax    == x % TextSize(size)[1]
        ay    == y % TextSize(size)[2]
        wide  == TextSize(size)[1] \div AREA
        entry == MapEntry((ay \div AREA) * wide + ax \div AREA,
                          ((ay % AREA) \div TILE) * TILE_AREA + (ax % AREA) \div TILE)
        Mirror(flip, p) == IF flip THEN TILE - 1 - p ELSE p
    IN  <<entry.tile, Mirror(entry.horizontalFlip, ax % TILE),
                      Mirror(entry.verticalFlip, ay % TILE)>>

\* A rotated map of so many dots: the position is the reference, read as a
\* signed number, and so many steps of the matrix; a fraction is dropped, which
\* moves a negative position one dot on.
AsSigned(value) == ((value + RefRange \div 2) % RefRange) - RefRange \div 2
Position(ref, x, y, step, lineStep) == AsSigned(ref) + y * lineStep + x * step
Texel(position) ==
    position \div FLOAT_SCALE
        + (IF position < 0 /\ position % FLOAT_SCALE # 0 THEN 1 ELSE 0)

RotatedDot(x, y) ==
    LET max == RotScaleSize(control.screenSize)
        px  == Position(frameRef[1], x, y, matrix.dx, matrix.dmx)
        py  == Position(frameRef[2], x, y, matrix.dy, matrix.dmy)
        On  == {p \in {px, py} : p >= 0 /\ p \div FLOAT_SCALE < max}
    IN  IF {px, py} = On \/ control.wrap \/ ~textDrawn
        THEN MapPlace(Texel(px) % max, Texel(py) % max, max)
        ELSE Transparent

(* A text line shows its map scrolled as a torus of the size in BGxCNT,    *)
(* also where a line starts inside a tile or crosses the map's edge.  A    *)
(* rotated line shows the places its matrix leads to from the reference    *)
(* point the frame began with; outside the map it goes round if BGxCNT     *)
(* says so - or if no line of this background has ever been drawn as text, *)
(* for until then its control passes for that of BG0 - and else shows      *)
(* nothing.                                                                *)
BackgroundsExact ==
    [][/\ TextBGLine => \A x \in Columns :
             bgRow'[x] = TorusDot(x + offsets[1], bgLine + offsets[2], control.screenSize)
       /\ RotScaleBGLine => \A x \in Columns : bgRow'[x] = RotatedDot(x, bgLine)]_bgVars
=============================================================================
