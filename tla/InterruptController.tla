------------------------ MODULE InterruptController ------------------------
(***************************************************************************)
(* What the interrupt registers promise the processor, without registers   *)
(* or cached flags: a set of outstanding requests, the set of enabled      *)
(* lines, a master switch, and a processor that may be asleep.             *)
(* Interrupts.tla, the model of arm7tdmi/ir_io_registers.cpp and cpu.cpp,  *)
(* implements it.                                                          *)
(***************************************************************************)
CONSTANTS
    Bits,               \* the interrupt lines
    Exposed             \* those whose requests a store may overwrite

VARIABLES
    enabled,            \* lines the program listens to (IE)
    pending,            \* requests not acknowledged yet (IF)
    master,             \* the master switch (IME)
    asleep,             \* the processor sleeps until an enabled request
    masked,             \* the processor's own mask (CPSR.I)
    overwritten         \* the last step was a store over the requests

ctl == <<enabled, pending, master>>
vars == <<enabled, pending, master, asleep, masked, overwritten>>

Line        == master /\ enabled \cap pending # {}
Deliverable == Line /\ ~masked
Running     == ~asleep /\ ~Deliverable

Init == /\ enabled = {}
        /\ pending = {}
        /\ master = FALSE
        /\ asleep = FALSE
        /\ masked \in BOOLEAN
        /\ overwritten = FALSE

\* A change of the registers may wake the processor, never puts it to sleep,
\* and leaves it asleep only if no enabled request is outstanding.
Reconsider == /\ asleep' \in BOOLEAN
              /\ asleep' => asleep /\ enabled' \cap pending' = {}

Raise(i) == /\ pending' = pending \cup {i}
            /\ Reconsider
            /\ overwritten' = FALSE
            /\ UNCHANGED <<enabled, master, masked>>

\* A store into the registers can acknowledge requests, never make one.
Program == /\ enabled' \in SUBSET Bits
           /\ pending' \in SUBSET pending
           /\ master' \in BOOLEAN
           /\ Reconsider
           /\ overwritten' = FALSE
           /\ UNCHANGED masked

\* A store that begins inside one register and ends inside the next replaces
\* the exposed requests, those it makes included; it enables and disables only
\* the other lines, and leaves the master switch alone.
Overwrite == /\ enabled' \in SUBSET Bits
             /\ enabled' \cap Exposed = enabled \cap Exposed
             /\ pending' \in SUBSET (pending \cup Exposed)
             /\ Reconsider
             /\ overwritten' = TRUE
             /\ UNCHANGED <<master, masked>>

\* Not only the running program puts the processor to sleep: a DMA channel may.
Sleep == /\ asleep' = TRUE
         /\ overwritten' = FALSE
         /\ UNCHANGED <<ctl, masked>>

SetMask == /\ Running
           /\ masked' \in BOOLEAN
           /\ overwritten' = FALSE
           /\ UNCHANGED <<ctl, asleep>>

Deliver == /\ ~asleep
           /\ Deliverable
           /\ masked' = TRUE
           /\ overwritten' = FALSE
           /\ UNCHANGED <<ctl, asleep>>

Next == \/ \E i \in Bits : Raise(i)
        \/ Program
        \/ Overwrite
        \/ Sleep
        \/ SetMask
        \/ Deliver

Spec == Init /\ [][Next]_vars
=============================================================================
