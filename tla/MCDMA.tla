------------------------------- MODULE MCDMA -------------------------------
(***************************************************************************)
(* "block" is one channel with every way of counting, whose units can land *)
(* on its own registers.  "turns" is two channels at fixed addresses, one  *)
(* of them a sound channel, away from the registers and without a control  *)
(* word that asks for immediate timing with repeat, for liveness.          *)
(***************************************************************************)
EXTENDS DMA

Control(timing, repeat, size, srcCtl, destCtl) ==
    [enable |-> TRUE, repeat |-> repeat, timing |-> timing,
     size |-> size, srcCtl |-> srcCtl, destCtl |-> destCtl]

OneChannel    == {1}
BlockSources  == {46}
BlockDests    == {0, 28}
BlockCounts   == {1}
BlockControls ==
    {Off,
     Control("IMMEDIATE", FALSE, 2, 1, 0), Control("IMMEDIATE", FALSE, 4, 0, 1),
     Control("HBLANK", TRUE, 2, 2, 3), Control("VBLANK", FALSE, 4, 3, 0),
     Control("SPECIAL", TRUE, 4, 2, 2)}

TwoChannels  == {0, 1}
TurnSources  == {0}
TurnDests    == {0}
TurnCounts   == {1}
TurnControls ==
    {Off, Control("IMMEDIATE", FALSE, 4, 2, 2),
     Control("HBLANK", FALSE, 4, 2, 2), Control("SPECIAL", FALSE, 4, 2, 2),
     Control("VBLANK", TRUE, 4, 2, 2)}
=============================================================================
