--------------------------- MODULE MCRegisterSet ---------------------------
(***************************************************************************)
(* The register file with one register of each kind.  "fiq" has the mode   *)
(* with the most registers of its own beside IRQ; "transfer" returns to    *)
(* IRQ; "nested" has the three modes whose handlers interrupt each other,  *)
(* from every status that CPSR may hold at the start.                      *)
(***************************************************************************)
EXTENDS RegisterSet

FiqIrq      == {"USR", "FIQ", "IRQ"}
R14         == {14}
R8          == {8}
NoRegs      == {}
Bit         == 0 .. 1
One         == {0}

StatusOf(modes) == {[modeBits |-> mode, thumb |-> FALSE, irqDisable |-> FALSE] : mode \in modes}
FiqIrqStatus == StatusOf({"USR", "FIQ"})
IrqStatus    == StatusOf({"IRQ"})
SomePowerOn  == StatusOf({"USR", "IRQ", "invalid"})

NestedModes  == {"USR", "IRQ", "SVC", "UND"}
NestedStatus == StatusOf({"USR", "SVC"})
                \cup {[modeBits |-> "USR", thumb |-> TRUE, irqDisable |-> FALSE]}
AllPowerOn   == Status
=============================================================================
