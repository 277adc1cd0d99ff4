---------------------------- MODULE MCInterrupts ----------------------------
(***************************************************************************)
(* Either three interrupt lines, two of them in the lower byte: byte       *)
(* stores that reach one, two or all lines.  Or three timers with counters *)
(* of 3 values, each stopped, counting ticks by a divisor of 2, or         *)
(* counting its predecessor, so that overflows ripple through the bank in  *)
(* one Update.  Timer 0 has no predecessor and counts by a divisor of 1    *)
(* then.  Reloads are at both ends.                                        *)
(***************************************************************************)
EXTENDS Interrupts, Timers

VARIABLE part

MCBits    == 0 .. 2
MCLowByte == 0 .. 1

Control(prescaler, up, irqEnable, start) ==
    [prescaler |-> prescaler, countUp |-> up, irqEnable |-> irqEnable, timerStart |-> start]
TimerControls ==
    {Control(0, TRUE, FALSE, FALSE), Control(0, TRUE, TRUE, TRUE),
     Control(1, FALSE, FALSE, TRUE)}
TimerReloads == {0, 2}
Divisors     == [p \in 0 .. 1 |-> p + 1]

MCInit == /\ part \in {"interrupts", "timers"}
          /\ Init
          /\ part = "timers" => irqDisable
          /\ InitTimers

MCNext == /\ UNCHANGED part
          /\ \/ part = "interrupts" /\ Next /\ UNCHANGED timerVars
             \/ part = "timers" /\ NextTimers /\ UNCHANGED vars

MCSpec == MCInit /\ [][MCNext]_<<vars, timerVars, part>>
=============================================================================
