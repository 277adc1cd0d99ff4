------------------------------ MODULE Objects ------------------------------
(***************************************************************************)
(* PPU::DrawObjects of ppu/objects.cpp: at the beginning of VBlank the     *)
(* objects of OAM are drawn, the last one first, into the frame that the   *)
(* lines of the next frame are merged with.                                *)
(*                                                                         *)
(* A colour is the tile and the place in the tile it is fetched from;      *)
(* palettes, the two depths' bytes and the mosaic of objects are left out. *)
(* MergeRows, which reads the frame, is in Layers.tla.                     *)
(***************************************************************************)
EXTENDS Tiles, FiniteSets

CONSTANTS
    OAM_ENTRIES,
    MAX_SPRITE_X, MAX_SPRITE_Y,
    TileRow,           \* the tiles from one row to the next, 0x20
    GuestObjects,      \* what a program stores in each entry of OAM
    ColourZero         \* the places whose colour is number 0

VARIABLES
    oam,
    objMapping,        \* dispCnt, as the last line has cached it
    objFb,
    drawn              \* history: oam and objMapping when objFb was drawn

objectVars == <<oam, objMapping, objFb, drawn>>

NoColour == "none"
Screen   == (0 .. SCREEN_WIDTH - 1) \X (0 .. SCREEN_HEIGHT - 1)

\* emptyObjPixel
EmptyObjPixel == [pixel |-> NoColour, prio |-> 5, transparency |-> FALSE, mask |-> FALSE]

Attributes == [tiles : Nat \X Nat, colors8 : BOOLEAN, name : Nat,
               rotationScaling : BOOLEAN, objDisable : BOOLEAN,
               params : Int \X Int \X Int \X Int,
               horizontalFlip : BOOLEAN, verticalFlip : BOOLEAN,
               xCoord : Nat, yCoord : Nat, objMode : 0 .. 3, priority : 0 .. 3]

\* Attribute 0, bits 8 and 9: objDisable without rotation is an object that
\* is not drawn, and with it one of twice the size.
Hidden(a) == ~a.rotationScaling /\ a.objDisable

Width(a)  == TILE * a.tiles[1]
Height(a) == TILE * a.tiles[2]

\* InitTempSprite: what the object looks like before it is placed.
TempSprite(a, mapping) ==
    LET halfTiles      == IF a.colors8 THEN 2 ELSE 1
        tileYIncrement == IF mapping = 1 THEN halfTiles * a.tiles[1] ELSE TileRow
        Tile(x, y)     == a.name + (x \div TILE) * halfTiles + (y \div TILE) * tileYIncrement
        Place(x, y)    == <<IF a.colors8 THEN Tile(x, y) \div 2 ELSE Tile(x, y),
                            x % TILE, y % TILE>>
    IN  [at \in (0 .. Width(a) - 1) \X (0 .. Height(a) - 1) |->
           IF Place(at[1], at[2]) \in ColourZero THEN NoColour
           ELSE Place(at[1], at[2])]

(* Mutants of Affine and SetObjPixel: a flipped object turns about its     *)
(* middle line, not between two; an object wins against those before it.   *)
AffineUnadjusted(a) ==
    IF a.rotationScaling
    THEN [dx |-> a.params[1], dmx |-> a.params[2], dy |-> a.params[3],
          dmy |-> a.params[4], rotX |-> Width(a) \div 2, rotY |-> Height(a) \div 2]
    ELSE [dx  |-> IF a.horizontalFlip THEN -FLOAT_SCALE ELSE FLOAT_SCALE,
          dmx |-> 0, dy |-> 0,
          dmy |-> IF a.verticalFlip THEN -FLOAT_SCALE ELSE FLOAT_SCALE,
          rotX |-> Width(a) \div 2,
          rotY |-> Height(a) \div 2]
-----------------------------------------------------------------------------
\* The matrix and the middle of the sprite that DrawObject works with.
Affine(a) ==
    IF a.rotationScaling
    THEN [dx |-> a.params[1], dmx |-> a.params[2], dy |-> a.params[3],
          dmy |-> a.params[4], rotX |-> Width(a) \div 2, rotY |-> Height(a) \div 2]
    ELSE [dx  |-> IF a.horizontalFlip THEN -FLOAT_SCALE ELSE FLOAT_SCALE,
          dmx |-> 0, dy |-> 0,
          dmy |-> IF a.verticalFlip THEN -FLOAT_SCALE ELSE FLOAT_SCALE,
          rotX |-> Width(a) \div 2 - (IF a.horizontalFlip THEN 1 ELSE 0),
          rotY |-> Height(a) \div 2]

Doubled(a, size) == IF a.objDisable THEN 2 * size ELSE size

\* A screen is smaller than the space of coordinates, which hold an object of
\* twice its size.
ASSUME ObjectsAssumption ==
    /\ TILE % 2 = 0
    /\ OAM_ENTRIES \in Nat
    /\ MAX_SPRITE_X \in Nat /\ SCREEN_WIDTH \in 0 .. MAX_SPRITE_X
    /\ MAX_SPRITE_Y \in Nat /\ SCREEN_HEIGHT \in 0 .. MAX_SPRITE_Y
    /\ TileRow \in Nat
    /\ \A i \in 0 .. OAM_ENTRIES - 1 :
         /\ GuestObjects[i] # {}
         /\ \A a \in GuestObjects[i] :
              /\ a \in Attributes
              /\ Doubled(a, Width(a)) <= MAX_SPRITE_X /\ Doubled(a, Height(a)) <= MAX_SPRITE_Y

\* Where in the sprite the dot (x, y) of the object's area is taken from:
\* xAdj and yAdj after y lines and x dots.
SpriteAt(a, x, y) ==
    LET m     == Affine(a)
        halfX == Doubled(a, Width(a)) \div 2
        halfY == Doubled(a, Height(a)) \div 2
    IN  <<Quotient((x - halfX) * m.dx + (y - halfY) * m.dmx, FLOAT_SCALE) + m.rotX,
          Quotient((x - halfX) * m.dy + (y - halfY) * m.dmy, FLOAT_SCALE) + m.rotY>>

SetObjPixel(old, colour, a) ==
    CASE colour = NoColour -> old
      [] colour # NoColour /\ a.objMode = 2 -> [old EXCEPT !.mask = TRUE]
      [] colour # NoColour /\ a.objMode # 2 ->
           [pixel |-> colour, prio |-> a.priority, transparency |-> a.objMode = 1,
            mask |-> old.mask]

(* Mutant of DrawDot: an object of the same priority does not cover what   *)
(* has been drawn.                                                         *)
DrawDotBehind(old, colour, a) ==
    IF old.prio <= a.priority THEN old ELSE SetObjPixel(old, colour, a)
-----------------------------------------------------------------------------
DrawDot(old, colour, a) ==
    IF old.prio < a.priority THEN old ELSE SetObjPixel(old, colour, a)

DrawObject(frame, a, mapping) ==
    LET sprite == TempSprite(a, mapping)
        Dots(at) == {d \in (0 .. Doubled(a, Width(a)) - 1) \X (0 .. Doubled(a, Height(a)) - 1) :
                        /\ at = <<(a.xCoord + d[1]) % MAX_SPRITE_X,
                                  (a.yCoord + d[2]) % MAX_SPRITE_Y>>
                        /\ SpriteAt(a, d[1], d[2]) \in DOMAIN sprite}
    IN  [at \in Screen |->
           IF Dots(at) = {} THEN frame[at]
           ELSE LET dot == CHOOSE d \in Dots(at) : TRUE
                IN  DrawDot(frame[at], sprite[SpriteAt(a, dot[1], dot[2])], a)]

\* The frame when the objects from entry i on have been drawn.
Drawn(objects, mapping) ==
    LET from[i \in 0 .. OAM_ENTRIES] ==
          IF i = OAM_ENTRIES THEN [at \in Screen |-> EmptyObjPixel]
          ELSE IF Hidden(objects[i]) THEN from[i + 1]
          ELSE DrawObject(from[i + 1], objects[i], mapping)
    IN  from[0]
-----------------------------------------------------------------------------
InitObjects == /\ oam = [i \in 0 .. OAM_ENTRIES - 1 |-> CHOOSE a \in GuestObjects[i] : TRUE]
               /\ objMapping \in {0, 1}
               /\ objFb = Drawn(oam, objMapping)
               /\ drawn = [oam |-> oam, mapping |-> objMapping]

StoreObject(i, a) == /\ oam' = [oam EXCEPT ![i] = a]
                     /\ UNCHANGED <<objMapping, objFb, drawn>>

StoreMapping == /\ objMapping' \in {0, 1}
                /\ UNCHANGED <<oam, objFb, drawn>>

DrawObjects == /\ objFb' = Drawn(oam, objMapping)
               /\ drawn' = [oam |-> oam, mapping |-> objMapping]
               /\ UNCHANGED <<oam, objMapping>>

NextObject == \/ \E i \in DOMAIN oam : \E a \in GuestObjects[i] : StoreObject(i, a)
              \/ StoreMapping
              \/ DrawObjects

ObjectsSpec == InitObjects /\ [][NextObject]_objectVars
-----------------------------------------------------------------------------
\* What an object has at a dot of the screen, when its matrix, if it has one,
\* is the identity: the sprite stands at its coordinates, which wrap, in the
\* middle of an area of twice the size, and is mirrored by the flips.  The
\* vertical one takes row Height - y for row y: the first row, mirrored, is
\* missing and the others are a line too low.
Identity(a) == a.rotationScaling => a.params = <<FLOAT_SCALE, 0, 0, FLOAT_SCALE>>

Upright(a, mapping, at) ==
    LET x == (at[1] - a.xCoord - (Doubled(a, Width(a)) - Width(a)) \div 2) % MAX_SPRITE_X
        y == (at[2] - a.yCoord - (Doubled(a, Height(a)) - Height(a)) \div 2) % MAX_SPRITE_Y
        column == IF a.horizontalFlip /\ ~a.rotationScaling THEN Width(a) - 1 - x ELSE x
        row    == IF a.verticalFlip /\ ~a.rotationScaling THEN Height(a) - y ELSE y
    IN  IF x < Width(a) /\ y < Height(a) /\ row < Height(a)
        THEN TempSprite(a, mapping)[<<column, row>>] ELSE NoColour

(* Of the objects that have a colour at a dot, the frame shows the one of  *)
(* the best priority, and of several the first in OAM; the dot is part of  *)
(* the object window exactly if a window object has a colour there that no *)
(* better object further back in OAM has covered.                          *)
ObjectsOrdered ==
    LET objects == drawn.oam
        Colour(i, at) == IF Hidden(objects[i]) THEN NoColour
                         ELSE Upright(objects[i], drawn.mapping, at)
        Seen(at)   == {i \in DOMAIN objects :
                          Colour(i, at) # NoColour /\ objects[i].objMode # 2}
        Better(i, j) == \/ objects[i].priority < objects[j].priority
                        \/ objects[i].priority = objects[j].priority /\ i <= j
        Covered(i, at) == \E j \in Seen(at) :
                             j > i /\ objects[j].priority < objects[i].priority
    IN  (\A i \in DOMAIN objects : Identity(objects[i])) =>
        \A at \in Screen :
           /\ IF Seen(at) = {} THEN objFb[at].pixel = NoColour /\ objFb[at].prio = 5
              ELSE LET first == CHOOSE i \in Seen(at) : \A j \in Seen(at) : Better(i, j)
                   IN  /\ objFb[at].pixel = Colour(first, at)
                       /\ objFb[at].prio = objects[first].priority
                       /\ objFb[at].transparency <=> objects[first].objMode = 1
           /\ objFb[at].mask <=> \E i \in DOMAIN objects :
                                    /\ objects[i].objMode = 2
                                    /\ Colour(i, at) # NoColour
                                    /\ ~Covered(i, at)
=============================================================================
