---------------------------- MODULE RegisterSet ----------------------------
(***************************************************************************)
(* The register file of arm7tdmi/registers.cpp, which copies banked        *)
(* registers in and out of one active set when the mode changes, and the   *)
(* instructions and exceptions that change the mode.  R0-R7 and R15, which *)
(* no mode has of its own, and the condition flags are left out.  A mode   *)
(* number that is none of the seven ends the process (getModeBank exits),  *)
(* so a step that would pass one has no successor.                         *)
(***************************************************************************)
EXTENDS Naturals

CONSTANTS
    Modes,        \* the modes in use, among AllModes
    BankedRegs,   \* R13 and R14, which SP and LR keep for every mode
    FiqRegs,      \* R8-R12, which GPR and GPR_FIQ keep
    Values,       \* what a register holds
    Zero,         \* the value 0, which the arrays start with
    PowerOnStatus,   \* what CPSR, not initialised, may hold at the start
    GuestStatus,  \* what the program writes into CPSR or SPSR
    NoStatus      \* not a status

AllModes == {"USR", "SYS", "FIQ", "IRQ", "SVC", "ABT", "UND"}
Regs     == BankedRegs \cup FiqRegs
Status   == [modeBits : Modes \cup {"invalid"}, thumb : BOOLEAN, irqDisable : BOOLEAN]

ASSUME RegisterAssumption ==
    /\ "USR" \in Modes /\ Modes \subseteq AllModes
    /\ 14 \in BankedRegs /\ BankedRegs \subseteq 13 .. 14
    /\ FiqRegs \subseteq 8 .. 12
    /\ Zero \in Values
    /\ PowerOnStatus \cup GuestStatus \subseteq Status
    /\ NoStatus \notin Status

VARIABLES
    rs,          \* the RegisterSet
    pending,     \* after the loads of an LDM with S and R15: 15, and the base
                 \* register if it is to be written back
    saved        \* history: the statuses that a mode's exceptions interrupted,
                 \* until its SPSR is overwritten otherwise

vars == <<rs, pending, saved>>

\* getModeBank
ModeBank(mode) == IF mode = "USR" THEN "SYS" ELSE mode
Banks          == {ModeBank(mode) : mode \in Modes}
Exceptional    == Banks \ {"SYS"}
ZeroStatus == [modeBits |-> "invalid", thumb |-> FALSE, irqDisable |-> FALSE]

\* outer: what the last exception from another mode interrupted; inner: what
\* the last exception of all did, which may be the mode itself.
Nothing  == [outer |-> NoStatus, inner |-> NoStatus]
Recorded == [outer : Status, inner : Status] \cup {Nothing}

Fields == [ACTIVE : [Regs -> Values], SPLR : [Banks -> [BankedRegs -> Values]],
           GPR : [FiqRegs -> Values], GPR_FIQ : [FiqRegs -> Values],
           SPSR : [Exceptional -> Status], CPSR : Status, currentBank : Banks]

\* CPSR is not initialised, and neither agrees with currentBank nor is valid.
PowerOn(status) ==
    [ACTIVE |-> [r \in Regs |-> Zero],
     SPLR |-> [b \in Banks |-> [r \in BankedRegs |-> Zero]],
     GPR |-> [r \in FiqRegs |-> Zero], GPR_FIQ |-> [r \in FiqRegs |-> Zero],
     SPSR |-> [b \in Exceptional |-> ZeroStatus],
     CPSR |-> status, currentBank |-> "SYS"]
-----------------------------------------------------------------------------
(* Mutants of SwitchMode.                                                  *)
SwitchModeStatusLast(s, mode) ==
    LET new == ModeBank(mode)
        old == s.currentBank
        t == [s EXCEPT
         !.SPLR[old] = [r \in BankedRegs |-> s.ACTIVE[r]],
         !.ACTIVE = [r \in Regs |->
             IF r \in BankedRegs THEN s.SPLR[new][r]
             ELSE IF new = "FIQ" THEN s.GPR_FIQ[r]
             ELSE IF old = "FIQ" THEN s.GPR[r]
             ELSE @[r]],
         !.GPR = IF new = "FIQ" THEN [r \in FiqRegs |-> s.ACTIVE[r]] ELSE @,
         !.GPR_FIQ = IF old = "FIQ" THEN [r \in FiqRegs |-> s.ACTIVE[r]] ELSE @,
         !.currentBank = new,
         !.CPSR.modeBits = mode]
    IN  IF new = old THEN s
        ELSE [t EXCEPT !.SPSR = [b \in Exceptional |-> IF b = new THEN t.CPSR ELSE @[b]]]

SwitchModeBankOnly(s, mode) ==
    LET new == ModeBank(mode)
        old == s.currentBank
    IN  IF new = old THEN s
        ELSE [s EXCEPT
         !.SPSR = [b \in Exceptional |-> IF b = new THEN s.CPSR ELSE @[b]],
         !.SPLR[old] = [r \in BankedRegs |-> s.ACTIVE[r]],
         !.ACTIVE = [r \in Regs |-> IF r \in BankedRegs THEN s.SPLR[new][r] ELSE @[r]],
         !.currentBank = new,
         !.CPSR.modeBits = mode]
-----------------------------------------------------------------------------
SwitchMode(s, mode) ==
    LET new == ModeBank(mode)
        old == s.currentBank
    IN  IF new = old THEN s
        ELSE [s EXCEPT
         !.SPSR = [b \in Exceptional |-> IF b = new THEN s.CPSR ELSE @[b]],
         !.SPLR[old] = [r \in BankedRegs |-> s.ACTIVE[r]],
         !.ACTIVE = [r \in Regs |->
             IF r \in BankedRegs THEN s.SPLR[new][r]
             ELSE IF new = "FIQ" THEN s.GPR_FIQ[r]
             ELSE IF old = "FIQ" THEN s.GPR[r]
             ELSE @[r]],
         !.GPR = IF new = "FIQ" THEN [r \in FiqRegs |-> s.ACTIVE[r]] ELSE @,
         !.GPR_FIQ = IF old = "FIQ" THEN [r \in FiqRegs |-> s.ACTIVE[r]] ELSE @,
         !.currentBank = new,
         !.CPSR.modeBits = mode]

\* In the system bank there is no SPSR, and CPSR stands in.
GetSPSR(s) == IF s.currentBank = "SYS" THEN s.CPSR ELSE s.SPSR[s.currentBank]

\* GetSPSR returns a reference, through which MSR writes.
SetSPSR(s, status) == IF s.currentBank = "SYS" THEN [s EXCEPT !.CPSR = status]
                      ELSE [s EXCEPT !.SPSR[s.currentBank] = status]

\* previousSPSR, in an exception return.
RestoreCPSR(s) == [SwitchMode(s, GetSPSR(s).modeBits) EXCEPT !.CPSR = GetSPSR(s)]

Load(s, list, values) ==
    [s EXCEPT !.ACTIVE = [r \in Regs |-> IF r \in list THEN values[r] ELSE @[r]]]

\* An exception into a mode; thumb as the handler sets or leaves it.
Exception(s, mode, link, thumb) ==
    [SwitchMode(s, mode) EXCEPT
        !.ACTIVE = [@ EXCEPT ![14] = link],
        !.CPSR = [modeBits |-> @.modeBits, thumb |-> thumb, irqDisable |-> TRUE]]

\* saved after a step into t that overwrites the SPSR of the bank it enters:
\* an MSR, a user bank transfer, and also the return of a nested handler.
Forget(t) == [saved EXCEPT ![t.currentBank] = Nothing]

Known(t) == IF t.currentBank = "SYS" \/ t.currentBank = rs.currentBank
            THEN saved ELSE Forget(t)
-----------------------------------------------------------------------------
Init == /\ \E status \in PowerOnStatus : rs = PowerOn(status)
        /\ pending = {}
        /\ saved = [b \in Exceptional |-> Nothing]

\* An instruction with its results in registers of the current mode.
Operate == \E list \in SUBSET Regs : \E values \in [list -> Values] :
              /\ pending = {}
              /\ rs' = Load(rs, list, values)
              /\ UNCHANGED <<pending, saved>>

ArmBranchAndExchange == /\ pending = {}
                        /\ \E status \in GuestStatus :
                              rs' = [rs EXCEPT !.CPSR.thumb = status.thumb]
                        /\ UNCHANGED <<pending, saved>>

\* ArmMSR, of all fields: the value is in CPSR before the mode is looked at.
MSRToCPSR == \E status \in GuestStatus :
                /\ pending = {}
                /\ status.modeBits \in Modes
                /\ rs' = SwitchMode([rs EXCEPT !.CPSR = status], status.modeBits)
                /\ saved' = Known(rs')
                /\ UNCHANGED pending

MSRToSPSR == \E status \in GuestStatus :
                /\ pending = {}
                /\ rs' = SetSPSR(rs, status)
                /\ saved' = IF rs.currentBank = "SYS" THEN saved ELSE Forget(rs)
                /\ UNCHANGED pending

\* DataProcessing with S and R15, whose result goes to R15.
ReturnByDataProcessing == /\ pending = {}
                          /\ GetSPSR(rs).modeBits \in Modes
                          /\ rs' = RestoreCPSR(rs)
                          /\ saved' = Known(rs')
                          /\ UNCHANGED pending

\* ArmBlockDataTransfer with S, L and R15: the loads.
LoadWithPC ==
    \E list \in SUBSET Regs, rn \in Regs, writeback \in BOOLEAN :
       \E values \in [list -> Values] :
          /\ pending = {}
          /\ rs' = Load(rs, list, values)
          /\ pending' = {15} \cup (IF writeback THEN {rn} \ list ELSE {})
          /\ UNCHANGED saved

\* The rest of it: the status, then the writeback, in the mode returned to.
ReturnByLoad == /\ pending # {}
                /\ GetSPSR(rs).modeBits \in Modes
                /\ \E value \in Values :
                      rs' = Load(RestoreCPSR(rs), pending, [r \in Regs |-> value])
                /\ pending' = {}
                /\ saved' = Known(rs')

\* ArmBlockDataTransfer with S, on the user bank: a load without R15, or a
\* store, which is a load of nothing here.
UserBankTransfer ==
    \E list \in SUBSET Regs, writeback \in BOOLEAN, rn \in Regs, base \in Values :
       \E values \in [list -> Values] :
          LET loaded == Load(SwitchMode(rs, "USR"), list, values)
              based  == IF writeback /\ rn \notin list
                        THEN [loaded EXCEPT !.ACTIVE[rn] = base] ELSE loaded
          IN  /\ pending = {}
              /\ rs.CPSR.modeBits \in Modes
              /\ rs' = SwitchMode(based, rs.CPSR.modeBits)
              /\ saved' = IF rs'.currentBank = "SYS" THEN saved ELSE Forget(rs')
              /\ UNCHANGED pending

\* What is recorded when an exception enters a mode.
Interrupted(mode) ==
    IF rs.currentBank # mode
    THEN [saved EXCEPT ![mode] = [outer |-> rs.CPSR, inner |-> rs.CPSR]]
    ELSE IF saved[mode] = Nothing THEN saved
    ELSE [saved EXCEPT ![mode].inner = rs.CPSR]

HandleInterruptRequests == /\ pending = {}
                           /\ "IRQ" \in Modes
                           /\ ~rs.CPSR.irqDisable
                           /\ \E link \in Values : rs' = Exception(rs, "IRQ", link, FALSE)
                           /\ saved' = Interrupted("IRQ")
                           /\ UNCHANGED pending

ArmSWI == /\ pending = {}
          /\ "SVC" \in Modes
          /\ ~rs.CPSR.thumb
          /\ \E link \in Values : rs' = Exception(rs, "SVC", link, FALSE)
          /\ saved' = Interrupted("SVC")
          /\ UNCHANGED pending

ThumbSWI == /\ pending = {}
            /\ "SVC" \in Modes
            /\ rs.CPSR.thumb
            /\ \E link \in Values : rs' = Exception(rs, "SVC", link, FALSE)
            /\ saved' = Interrupted("SVC")
            /\ UNCHANGED pending

ArmUndefined == /\ pending = {}
                /\ "UND" \in Modes
                /\ ~rs.CPSR.thumb
                /\ \E link \in Values : rs' = Exception(rs, "UND", link, FALSE)
                /\ saved' = Interrupted("UND")
                /\ UNCHANGED pending

Next == \/ Operate
        \/ ArmBranchAndExchange
        \/ MSRToCPSR
        \/ MSRToSPSR
        \/ ReturnByDataProcessing
        \/ LoadWithPC
        \/ ReturnByLoad
        \/ UserBankTransfer
        \/ HandleInterruptRequests
        \/ ArmSWI
        \/ ThumbSWI
        \/ ArmUndefined

Spec == Init /\ [][Next]_vars
-----------------------------------------------------------------------------
(* Every register holds a value and the current bank is one that exists.   *)
TypeOK ==
    /\ rs \in Fields
    /\ pending \subseteq Regs \cup {15}
    /\ saved \in [Exceptional -> Recorded]

(* The bank whose registers are active and the mode bits of CPSR are two   *)
(* copies of one fact.  They agree in every exception mode; in the system  *)
(* bank the mode bits are the program's, who can store any into CPSR by    *)
(* way of the SPSR that this bank lacks.                                   *)
BankMatchesMode ==
    rs.currentBank # "SYS" => rs.CPSR.modeBits = rs.currentBank

\* What the SPSR of a mode is to hold.
Held(b) == IF saved[b].inner.modeBits = b THEN saved[b].outer ELSE saved[b].inner

(* The SPSR of a mode holds the status that the last exception into it     *)
(* interrupted, whatever exceptions into other modes nest in its handler   *)
(* and return from there.  The exceptions are two.  An exception taken in  *)
(* its own mode saves no status (SwitchMode returns at once, and no caller *)
(* saves one): the SPSR still holds what the outer one interrupted.  And   *)
(* whatever comes back into the mode by SwitchMode, a nested handler that  *)
(* returns included, overwrites its SPSR: from there nothing is promised.  *)
SavedStatusKept ==
    \A b \in Exceptional : saved[b] # Nothing => rs.SPSR[b] = Held(b)

(* A handler so returns to what its exception interrupted, although the    *)
(* registers have changed banks before CPSR is restored; one that was      *)
(* entered in its own mode returns past the handler it interrupted, to     *)
(* what the outer exception did.                                           *)
ReturnsToInterrupted ==
    [][(ReturnByDataProcessing \/ ReturnByLoad) /\ rs.currentBank # "SYS"
         => saved[rs.currentBank] = Nothing \/ rs'.CPSR = Held(rs.currentBank)]_vars

(* "Change back to previous mode", says the end of a user bank transfer:   *)
(* the previous mode has the status registers it had before.               *)
UserTransferKeepsStatus ==
    [][UserBankTransfer /\ rs.currentBank # "SYS"
          => rs'.CPSR = rs.CPSR /\ rs'.SPSR = rs.SPSR]_vars

(* The register that exists behind a name: the active set holds those of   *)
(* the current bank, the arrays hold the others.                           *)
PhysicalOf(s) ==
    [cell \in Banks \X BankedRegs \cup {"SYS", "FIQ"} \X FiqRegs |->
        LET b == cell[1]
            r == cell[2]
        IN  IF r \in BankedRegs
            THEN IF b = s.currentBank THEN s.ACTIVE[r] ELSE s.SPLR[b][r]
            ELSE IF (b = "FIQ") = (s.currentBank = "FIQ") THEN s.ACTIVE[r]
            ELSE IF b = "FIQ" THEN s.GPR_FIQ[r] ELSE s.GPR[r]]

File == INSTANCE RegisterBanks WITH file <- PhysicalOf(rs), bank <- rs.currentBank

(* Copying registers in and out implements a file in which every mode has  *)
(* its own: no switch, return or transfer loses or mixes up a register.    *)
ImplementsBanks == File!Spec
=============================================================================
