----------------------------- MODULE ScreenSize -----------------------------
(* The dots of the screen, of screen.hpp. *)
EXTENDS Integers

CONSTANTS SCREEN_WIDTH, SCREEN_HEIGHT

ASSUME ScreenAssumption == SCREEN_WIDTH \in Nat /\ SCREEN_HEIGHT \in Nat

Columns == 0 .. SCREEN_WIDTH - 1
=============================================================================
