----------------------------- MODULE MCDisplay -----------------------------
(***************************************************************************)
(* One of the four parts of the display.                                   *)
(*                                                                         *)
(* The timing: three visible lines and three of VBlank, three ticks and    *)
(* one tick long, so that a batch may be longer than an HBlank.  The guest *)
(* stores every kind of DISPSTAT and, in some frames, into VCOUNT, also    *)
(* past the end of the frame and at the end of its range.                  *)
(*                                                                         *)
(* The objects: three entries of OAM, tiles of two dots, a screen of eight *)
(* columns and three rows in a space of twelve and four.                   *)
(*                                                                         *)
(* The layers: three lines of eight columns, where every combination of    *)
(* three backgrounds has its column.                                       *)
(*                                                                         *)
(* A background: three lines of eight dots of a text map of two by two     *)
(* tiles or its multiples, or of a rotated one of one to eight tiles.      *)
(***************************************************************************)
EXTENDS PPU, Objects, Layers, Backgrounds

VARIABLE part

SomeVCounts == {0, 2, 4, 6, 7}
Settings    == {0, 2, 6}
SomeBits    == {{}, Enables, Flags, {"VBlankIRQEnable", "VCounterFlag"}}
-----------------------------------------------------------------------------
Plain == [tiles |-> <<2, 1>>, colors8 |-> FALSE, name |-> 0, rotationScaling |-> FALSE,
          objDisable |-> FALSE, params |-> <<4, 0, 0, 4>>, horizontalFlip |-> FALSE,
          verticalFlip |-> FALSE, xCoord |-> 0, yCoord |-> 0, objMode |-> 0, priority |-> 1]
SomeObjects ==
    [i \in 0 .. 2 |->
       CASE i = 0 -> {Plain,
                      [Plain EXCEPT !.horizontalFlip = TRUE, !.objMode = 2],
                      [Plain EXCEPT !.rotationScaling = TRUE, !.objDisable = TRUE, !.xCoord = 10],
                      [Plain EXCEPT !.priority = 2, !.tiles = <<1, 2>>, !.verticalFlip = TRUE]}
         [] i = 1 -> {[Plain EXCEPT !.objDisable = TRUE],
                      [Plain EXCEPT !.name = 4, !.xCoord = 11, !.yCoord = 1, !.objMode = 1],
                      [Plain EXCEPT !.rotationScaling = TRUE, !.params = <<2, 4, -4, 2>>]}
         [] i = 2 -> {[Plain EXCEPT !.priority = 0, !.colors8 = TRUE, !.yCoord = 3],
                      [Plain EXCEPT !.priority = 2, !.name = 1, !.objMode = 2],
                      [Plain EXCEPT !.name = 8, !.horizontalFlip = TRUE, !.verticalFlip = TRUE]}]

SomeColourZero == {<<0, 0, 0>>, <<1, 1, 0>>, <<4, 0, 1>>}
-----------------------------------------------------------------------------
All == 0 .. 5
SomePicture == [bg \in 0 .. 3 |-> CASE bg = 0 -> {1, 4, 5, 7}
                                    [] bg = 1 -> {2, 4, 6, 7}
                                    [] bg = 2 -> {3, 5, 6, 7}
                                    [] bg = 3 -> {0, 7}]
SomeDisplays ==
    {[bgMode |-> 0, screenDisplay |-> 0 .. 3, windows |-> {}],
     [bgMode |-> 1, screenDisplay |-> {1, 2, 3}, windows |-> {"Win0", "Win1", "Obj"}],
     [bgMode |-> 2, screenDisplay |-> {2, 3}, windows |-> {"Obj"}],
     [bgMode |-> 4, screenDisplay |-> {2}, windows |-> {"Win0"}],
     [bgMode |-> 6, screenDisplay |-> {0}, windows |-> {}]}
SomePriorities == [bg \in 0 .. 3 |-> CASE bg = 1 -> {0, 1} [] bg = 2 -> {0, 2} [] OTHER -> {}]
SomeWindows ==
    {[Win0 |-> [x1 |-> 1, x2 |-> 5, y1 |-> 0, y2 |-> 1],
      Win1 |-> [x1 |-> 4, x2 |-> 2, y1 |-> 1, y2 |-> 9],
      inside |-> [Win0 |-> {0, 2, Sprites, Effects}, Win1 |-> All \ {2},
                  Obj |-> {1, 2, 3, Effects}, Outside |-> All \ {Effects}]],
     [Win0 |-> [x1 |-> 0, x2 |-> 0, y1 |-> 0, y2 |-> 2],
      Win1 |-> [x1 |-> 2, x2 |-> 7, y1 |-> 0, y2 |-> 2],
      inside |-> [Win0 |-> All, Win1 |-> {1, 2, Sprites},
                  Obj |-> All, Outside |-> {}]]}
SomeBlends ==
    {[first |-> {0, Sprites}, second |-> {1, 2, Backdrop}, effect |-> "AlphaBlending"],
     [first |-> {1, 2, 3}, second |-> {Sprites, 0, 1}, effect |-> "AlphaBlending"],
     [first |-> {0, 1, Sprites}, second |-> {}, effect |-> "BrightnessIncrease"]}
NoObj         == [pixel |-> FALSE, prio |-> 5, transparency |-> FALSE, mask |-> FALSE]
Obj(p, t, m)  == [pixel |-> TRUE, prio |-> p, transparency |-> t, mask |-> m]
SomeFrames ==
    {[x \in 0 .. 7 |-> NoObj],
     [x \in 0 .. 7 |-> CASE x \in {1, 4} -> Obj(1, FALSE, FALSE)
                         [] x \in {2, 7} -> Obj(0, TRUE, TRUE)
                         [] x \in {5, 6} -> Obj(2, FALSE, TRUE)
                         [] x = 3 -> [NoObj EXCEPT !.mask = TRUE]
                         [] OTHER -> NoObj]}
-----------------------------------------------------------------------------
Entry(area, index) == [tile |-> 100 * area + index, horizontalFlip |-> index % 2 = 1,
                       verticalFlip |-> (area + index) % 3 = 1]

SomeControls   == [screenSize : 0 .. 3, wrap : BOOLEAN]
SomeOffsets    == {<<0, 0>>, <<3, 5>>, <<7, 2>>}
SomeReferences == {<<0, 0>>, <<9, 62>>, <<63, 32>>}
SomeMatrices   == {[dx |-> 4, dmx |-> 0, dy |-> 0, dmy |-> 4],
                   [dx |-> 3, dmx |-> -5, dy |-> 6, dmy |-> 2]}
-----------------------------------------------------------------------------
\* Only the part that is run begins in more than one state.
Some(S) == CHOOSE s \in S : TRUE

MCInit == /\ part \in {"timing", "objects", "layers", "background"}
          /\ Init
          /\ InitObjects
          /\ part # "objects" => objMapping = 0
          /\ InitLayers
          /\ part # "layers" => /\ dispcnt = Some(SomeDisplays)
                                /\ winRegs = Some(SomeWindows)
                                /\ bldcnt = Some(SomeBlends)
                                /\ objRow[0].prio = 0
          /\ InitBackground
          /\ part # "background" => /\ control = [screenSize |-> 0, wrap |-> FALSE]
                                    /\ offsets = <<0, 0>>
                                    /\ matrix.dx = 4

MCNext == /\ UNCHANGED part
          /\ \/ part = "timing" /\ Next /\ UNCHANGED <<objectVars, layerVars, bgVars>>
             \/ part = "objects" /\ NextObject /\ UNCHANGED <<vars, layerVars, bgVars>>
             \/ part = "layers" /\ NextLayer /\ UNCHANGED <<vars, objectVars, bgVars>>
             \/ part = "background" /\ NextBackground /\ UNCHANGED <<vars, objectVars, layerVars>>

MCSpec == MCInit /\ [][MCNext]_<<vars, objectVars, layerVars, bgVars, part>>
=============================================================================
