------------------------------- MODULE Tiles -------------------------------
(* What objects and backgrounds have in common: tiles, and numbers with a  *)
(* fraction.                                                               *)
EXTENDS ScreenSize

CONSTANTS
    TILE,          \* TILE_PIXEL_WIDTH and TILE_PIXEL_HEIGHT
    FLOAT_SCALE    \* 256

ASSUME TilesAssumption == TILE \in Nat \ {0} /\ FLOAT_SCALE \in Nat \ {0}

\* Division rounds towards 0.
Quotient(n, d) == IF n >= 0 THEN n \div d ELSE -((-n) \div d)
=============================================================================
