--------------------------- MODULE MCInstructions ---------------------------
(***************************************************************************)
(* Either the pipeline, with a program among its vectors, targets in both  *)
(* states, and handlers of two modes that interrupt each other.  Or the    *)
(* arithmetic, with the extreme words of three bits, numbers of two words  *)
(* and shift amounts up to twice the width and one more, where an SPSR or  *)
(* MSR brings back nothing or every flag.                                  *)
(***************************************************************************)
EXTENDS Pipeline, Alu

VARIABLE part

SomeBanks   == {"SYS", "IRQ", "SVC"}
SomeOffsets == {-4, 0}
SomeTargets == {1, 4}
Enabling    == {[bank |-> "SVC", thumb |-> FALSE, irqDisable |-> FALSE]}

AllOrNone   == {[n |-> f, z |-> f, c |-> f, v |-> f] : f \in BOOLEAN}

SomeOperands == {0, 3, 4, 7}
SomeAmounts  == 0 .. 7

\* The flags and the history after an instruction that compares 0 with 0.
Compared ==
    /\ flags = [n |-> FALSE, z |-> TRUE, c |-> TRUE, v |-> FALSE]
    /\ number = [kind |-> "difference", x |-> 0, y |-> 0, total |-> 0, words |-> 1,
                 range |-> Range, exact |-> TRUE]

\* The part that is not checked stays in one state of its own: the pipeline in
\* its first one, and the arithmetic in one without shifts to look at.
MCInit == /\ part \in {"pipeline", "alu"}
          /\ Init
          /\ part = "alu" => ~cpsr.thumb /\ cpsr.irqDisable
          /\ \/ part = "alu" /\ InitAlu
             \/ part = "pipeline" /\ Compared

MCNext == /\ UNCHANGED part
          /\ \/ part = "pipeline" /\ Next /\ UNCHANGED aluVars
             \/ part = "alu" /\ NextAlu /\ UNCHANGED vars

MCSpec == MCInit /\ [][MCNext]_<<vars, aluVars, part>>
=============================================================================
