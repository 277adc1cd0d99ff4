--------------------------- MODULE RegisterBanks ---------------------------
(***************************************************************************)
(* What the banked register file promises: every bank has its own R13 and  *)
(* R14, FIQ also its own R8-R12, and a change of mode only chooses which   *)
(* of them an instruction sees.  There is no copying here: the file is the *)
(* set of registers that physically exist.                                 *)
(***************************************************************************)
EXTENDS Naturals

CONSTANTS
    Banks,        \* "SYS" and the banks of the exception modes
    BankedRegs,   \* registers that every bank has: R13, R14
    FiqRegs,      \* registers that only FIQ has of its own: R8-R12
    Values

VARIABLES
    file,         \* what every register that exists holds
    bank          \* the bank that instructions see

vars == <<file, bank>>

Cells == Banks \X BankedRegs \cup {"SYS", "FIQ"} \X FiqRegs

Cell(b, r) == IF r \in FiqRegs /\ b # "FIQ" THEN <<"SYS", r>> ELSE <<b, r>>

Visible(b) == {Cell(b, r) : r \in BankedRegs \cup FiqRegs}

Init == /\ file \in [Cells -> Values]
        /\ bank = "SYS"

\* No cell outside the set changes.
ChangesOnly(set) == /\ file' \in [Cells -> Values]
                    /\ \A cell \in Cells \ set : file'[cell] = file[cell]

\* An instruction stores into registers it sees, or, in a user bank
\* transfer, into the user's.
Operate == ChangesOnly(Visible(bank)) /\ UNCHANGED bank

\* It ends in the mode that CPSR names, which in the system bank need not
\* be one of that bank.
OperateOnUser == /\ ChangesOnly(Visible("SYS"))
                 /\ bank' = bank \/ (bank = "SYS" /\ bank' \in Banks)

\* The bank changes, with at most one result, in a register then seen: the
\* link of an exception or the base of a load that returns from one.
Switch == \E b \in Banks, r \in BankedRegs \cup FiqRegs :
             ChangesOnly({Cell(b, r)}) /\ bank' = b

Next == \/ Operate
        \/ OperateOnUser
        \/ Switch

Spec == Init /\ [][Next]_vars
=============================================================================
