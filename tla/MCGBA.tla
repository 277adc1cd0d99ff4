------------------------------- MODULE MCGBA -------------------------------
(***************************************************************************)
(* A display of one visible line and two of VBlank with one DMA channel.   *)
(* "loop" has every kind of control word, units that land on the channel's *)
(* registers and stores into VCOUNT.  "wakes" has the VBlank interrupt, a  *)
(* timer's, and control words that end or follow the display, for liveness.*)
(***************************************************************************)
EXTENDS GBA

Control(timing, repeat) ==
    [enable |-> TRUE, repeat |-> repeat, timing |-> timing,
     size |-> 4, srcCtl |-> 2, destCtl |-> 2]
Off == [enable |-> FALSE, repeat |-> FALSE, timing |-> "IMMEDIATE",
        size |-> 2, srcCtl |-> 0, destCtl |-> 0]

OneChannel   == {1}
Nothing      == {}
Zero         == {0}
One          == {1}
OwnRegisters == {0, 28}
AllControls  == {Off, Control("IMMEDIATE", FALSE), Control("HBLANK", TRUE),
                 Control("VBLANK", FALSE), Control("SPECIAL", TRUE)}
SomeControls == {Off, Control("IMMEDIATE", FALSE), Control("HBLANK", TRUE)}
NoBits       == {{}}
VBlankOn     == {{"VBlankIRQEnable"}, {}}
NoLines      == {}
EdgeLines    == {0, 7}
VBlankTimer  == {0, 3}
=============================================================================
