------------------------------- MODULE MCApu -------------------------------
(***************************************************************************)
(* The two ends of the APU, which share nothing but the numbers of their   *)
(* samples: the FIFOs that DMA channels fill ("fifos", module Sound) and   *)
(* the queue to the sound card ("queue", module AudioQueue).  A behaviour  *)
(* exercises the one that end is.                                          *)
(*                                                                         *)
(* For the FIFOs: one FIFO of its true size and two channels that can feed *)
(* it, copy to it, or hold the bus for a while or for ever.                *)
(***************************************************************************)
EXTENDS AudioQueue, Sound

VARIABLE end

MCChannels == {1, 2}
Fed        == {0}
NoCounts   == {}
FromZero   == {0}
ToFifo     == {8}

Control(timing, repeat) ==
    [enable |-> TRUE, repeat |-> repeat, timing |-> timing,
     size |-> 4, srcCtl |-> 2, destCtl |-> 2]
Disabled == [enable |-> FALSE, repeat |-> FALSE, timing |-> "IMMEDIATE",
             size |-> 2, srcCtl |-> 0, destCtl |-> 0]
MCControls == {Disabled, Control("IMMEDIATE", FALSE), Control("IMMEDIATE", TRUE),
               Control("SPECIAL", TRUE)}

InitEnd == Init /\ InitSound /\ end \in {"fifos", "queue"}

NextEnd == \/ end = "queue" /\ Next /\ UNCHANGED <<end, soundVars>>
           \/ end = "fifos" /\ NextSound /\ UNCHANGED <<end, vars>>

SpecEnd == InitEnd /\ [][NextEnd]_<<end, vars, soundVars>>
                   /\ WF_vars(Emulator) /\ WF_vars(Player)

\* A sound card that gets its chunks plays them.
QueuePlayed == end = "queue" => SoundPlayed
=============================================================================
