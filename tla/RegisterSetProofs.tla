-------------------------- MODULE RegisterSetProofs --------------------------
(***************************************************************************)
(* Proofs about RegisterSet for every set of modes, registers and values:  *)
(* its types, its two invariants, and that copying registers in and out    *)
(* implements the file of RegisterBanks.  The key is that SwitchMode, by   *)
(* itself, changes none of the registers that exist.                       *)
(***************************************************************************)
EXTENDS RegisterSet, TLAPS

\* The system bank exists, user mode being one of the modes.
LEMMA BankFacts ==
    /\ "SYS" \in Banks
    /\ \A mode \in Modes : ModeBank(mode) \in Banks
    /\ Exceptional \subseteq Banks
    /\ \A mode \in Modes : ModeBank(mode) # "SYS" => ModeBank(mode) = mode
BY RegisterAssumption DEF Banks, Exceptional, ModeBank

LEMMA StatusFields ==
    ASSUME NEW status \in Status
    PROVE  /\ status.modeBits \in Modes \cup {"invalid"}
           /\ \A mode \in Modes : [status EXCEPT !.modeBits = mode] \in Status
           /\ \A thumb \in BOOLEAN : [status EXCEPT !.thumb = thumb] \in Status
           /\ [status EXCEPT !.irqDisable = TRUE] \in Status
BY DEF Status

\* What a switch to another bank leaves in each field.
LEMMA SwitchFields ==
    ASSUME NEW s \in Fields, NEW mode \in Modes, ModeBank(mode) # s.currentBank
    PROVE  LET t == SwitchMode(s, mode)
               new == ModeBank(mode)
               old == s.currentBank
           IN  /\ t.ACTIVE = [r \in Regs |->
                       IF r \in BankedRegs THEN s.SPLR[new][r]
                       ELSE IF new = "FIQ" THEN s.GPR_FIQ[r]
                       ELSE IF old = "FIQ" THEN s.GPR[r]
                       ELSE s.ACTIVE[r]]
               /\ t.SPLR = [s.SPLR EXCEPT ![old] = [r \in BankedRegs |-> s.ACTIVE[r]]]
               /\ t.GPR = IF new = "FIQ" THEN [r \in FiqRegs |-> s.ACTIVE[r]] ELSE s.GPR
               /\ t.GPR_FIQ = IF old = "FIQ" THEN [r \in FiqRegs |-> s.ACTIVE[r]]
                              ELSE s.GPR_FIQ
               /\ t.SPSR = [b \in Exceptional |-> IF b = new THEN s.CPSR ELSE s.SPSR[b]]
               /\ t.CPSR = [s.CPSR EXCEPT !.modeBits = mode]
               /\ t.currentBank = new
               /\ t = [ACTIVE |-> t.ACTIVE, SPLR |-> t.SPLR, GPR |-> t.GPR,
                       GPR_FIQ |-> t.GPR_FIQ, SPSR |-> t.SPSR, CPSR |-> t.CPSR,
                       currentBank |-> t.currentBank]
BY DEF SwitchMode, Fields

LEMMA SwitchStays ==
    ASSUME NEW s, NEW mode, ModeBank(mode) = s.currentBank
    PROVE  SwitchMode(s, mode) = s
BY DEF SwitchMode

LEMMA SwitchType ==
    ASSUME NEW s \in Fields, NEW mode \in Modes
    PROVE  /\ SwitchMode(s, mode) \in Fields
           /\ SwitchMode(s, mode).currentBank = ModeBank(mode)
<1>1. CASE ModeBank(mode) = s.currentBank
  BY <1>1, SwitchStays
<1>2. CASE ModeBank(mode) # s.currentBank
  <2> DEFINE t == SwitchMode(s, mode)
             new == ModeBank(mode)
             old == s.currentBank
  <2>1. /\ s.ACTIVE \in [Regs -> Values]
        /\ s.SPLR \in [Banks -> [BankedRegs -> Values]]
        /\ s.GPR \in [FiqRegs -> Values] /\ s.GPR_FIQ \in [FiqRegs -> Values]
        /\ s.SPSR \in [Exceptional -> Status] /\ s.CPSR \in Status
        /\ old \in Banks
    BY DEF Fields
  <2>2. new \in Banks
    BY BankFacts
  <2>3. \A r \in Regs : r \notin BankedRegs => r \in FiqRegs
    BY DEF Regs
  <2>4. BankedRegs \subseteq Regs /\ FiqRegs \subseteq Regs
    BY DEF Regs
  <2>5. /\ t.ACTIVE = [r \in Regs |->
                         IF r \in BankedRegs THEN s.SPLR[new][r]
                         ELSE IF new = "FIQ" THEN s.GPR_FIQ[r]
                         ELSE IF old = "FIQ" THEN s.GPR[r]
                         ELSE s.ACTIVE[r]]
        /\ t.SPLR = [s.SPLR EXCEPT ![old] = [r \in BankedRegs |-> s.ACTIVE[r]]]
        /\ t.GPR = IF new = "FIQ" THEN [r \in FiqRegs |-> s.ACTIVE[r]] ELSE s.GPR
        /\ t.GPR_FIQ = IF old = "FIQ" THEN [r \in FiqRegs |-> s.ACTIVE[r]]
                       ELSE s.GPR_FIQ
        /\ t.SPSR = [b \in Exceptional |-> IF b = new THEN s.CPSR ELSE s.SPSR[b]]
        /\ t.currentBank = new
    BY <1>2, SwitchFields
  <2>6. t = [ACTIVE |-> t.ACTIVE, SPLR |-> t.SPLR, GPR |-> t.GPR,
             GPR_FIQ |-> t.GPR_FIQ, SPSR |-> t.SPSR, CPSR |-> t.CPSR,
             currentBank |-> t.currentBank]
    BY <1>2, SwitchFields
  <2> HIDE DEF t, new, old
  <2>7. t.ACTIVE \in [Regs -> Values]
    <3>1. s.SPLR[new] \in [BankedRegs -> Values]
      BY <2>1, <2>2
    <3> QED
      BY <2>1, <2>3, <2>5, <3>1
  <2>8. t.SPLR \in [Banks -> [BankedRegs -> Values]]
    <3>1. [r \in BankedRegs |-> s.ACTIVE[r]] \in [BankedRegs -> Values]
      BY <2>1, <2>4
    <3> QED
      BY <2>1, <2>5, <3>1
  <2>9. t.GPR \in [FiqRegs -> Values] /\ t.GPR_FIQ \in [FiqRegs -> Values]
    <3>1. [r \in FiqRegs |-> s.ACTIVE[r]] \in [FiqRegs -> Values]
      BY <2>1, <2>4
    <3> QED
      BY <2>1, <2>5, <3>1
  <2>10. t.SPSR \in [Exceptional -> Status]
    BY <2>1, <2>5
  <2>11. t.CPSR \in Status
    <3>1. t.CPSR = [s.CPSR EXCEPT !.modeBits = mode]
      BY <1>2, SwitchFields DEF t, new, old
    <3>2. [s.CPSR EXCEPT !.modeBits = mode] \in Status
      BY <2>1, StatusFields
    <3> QED
      BY <3>1, <3>2, Zenon
  <2>12. t \in Fields
    BY <2>2, <2>5, <2>6, <2>7, <2>8, <2>9, <2>10, <2>11 DEF Fields
  <2> QED
    BY <2>5, <2>12 DEF t, new
<1> QED
  BY <1>1, <1>2

\* The status registers around a switch.
LEMMA SwitchStatus ==
    ASSUME NEW s \in Fields, NEW mode \in Modes
    PROVE  LET t == SwitchMode(s, mode)
           IN  /\ \A b \in Exceptional :
                     b # ModeBank(mode) \/ ModeBank(mode) = s.currentBank
                        => t.SPSR[b] = s.SPSR[b]
               /\ ModeBank(mode) # s.currentBank /\ ModeBank(mode) \in Exceptional
                     => t.SPSR[ModeBank(mode)] = s.CPSR
               /\ ModeBank(mode) = s.currentBank => t.CPSR = s.CPSR
               /\ ModeBank(mode) # s.currentBank => t.CPSR.modeBits = mode
<1>1. CASE ModeBank(mode) = s.currentBank
  BY <1>1, SwitchStays
<1>2. CASE ModeBank(mode) # s.currentBank
  <2> DEFINE t == SwitchMode(s, mode)
  <2>1. t.SPSR = [b \in Exceptional |-> IF b = ModeBank(mode) THEN s.CPSR ELSE s.SPSR[b]]
    BY <1>2, SwitchFields
  <2>2. t.CPSR = [s.CPSR EXCEPT !.modeBits = mode]
    BY <1>2, SwitchFields
  <2>3. [s.CPSR EXCEPT !.modeBits = mode].modeBits = mode
    <3>1. s.CPSR \in Status
      BY DEF Fields
    <3> QED
      BY <3>1 DEF Status
  <2> HIDE DEF t
  <2>4. t.CPSR.modeBits = mode
    BY <2>2, <2>3, Zenon
  <2> QED
    BY <1>2, <2>1, <2>4 DEF t
<1> QED
  BY <1>1, <1>2

LEMMA LoadFields ==
    ASSUME NEW s \in Fields, NEW list, NEW values,
           \A r \in list \cap Regs : values[r] \in Values
    PROVE  /\ Load(s, list, values) \in Fields
           /\ Load(s, list, values).SPLR = s.SPLR
           /\ Load(s, list, values).GPR = s.GPR
           /\ Load(s, list, values).GPR_FIQ = s.GPR_FIQ
           /\ Load(s, list, values).SPSR = s.SPSR
           /\ Load(s, list, values).CPSR = s.CPSR
           /\ Load(s, list, values).currentBank = s.currentBank
           /\ \A r \in Regs \ list : Load(s, list, values).ACTIVE[r] = s.ACTIVE[r]
BY DEF Load, Fields

LEMMA GetSPSRType == ASSUME NEW s \in Fields PROVE GetSPSR(s) \in Status
BY DEF GetSPSR, Fields, Exceptional

\* The status replaced in a register set.
LEMMA WithCPSR ==
    ASSUME NEW s \in Fields, NEW status \in Status
    PROVE  LET t == [s EXCEPT !.CPSR = status]
           IN  /\ t \in Fields
               /\ t.ACTIVE = s.ACTIVE /\ t.SPLR = s.SPLR
               /\ t.GPR = s.GPR /\ t.GPR_FIQ = s.GPR_FIQ
               /\ t.SPSR = s.SPSR /\ t.CPSR = status
               /\ t.currentBank = s.currentBank
BY DEF Fields

LEMMA RestoreFields ==
    ASSUME NEW s \in Fields, GetSPSR(s).modeBits \in Modes
    PROVE  LET t == RestoreCPSR(s)
               u == SwitchMode(s, GetSPSR(s).modeBits)
           IN  /\ t \in Fields
               /\ t.ACTIVE = u.ACTIVE /\ t.SPLR = u.SPLR
               /\ t.GPR = u.GPR /\ t.GPR_FIQ = u.GPR_FIQ
               /\ t.SPSR = u.SPSR /\ t.CPSR = GetSPSR(s)
               /\ t.currentBank = ModeBank(GetSPSR(s).modeBits)
               /\ t.currentBank = u.currentBank
<1> DEFINE u == SwitchMode(s, GetSPSR(s).modeBits)
<1>1. u \in Fields /\ u.currentBank = ModeBank(GetSPSR(s).modeBits)
  BY SwitchType
<1>2. RestoreCPSR(s) = [u EXCEPT !.CPSR = GetSPSR(s)]
  BY DEF RestoreCPSR
<1> HIDE DEF u
<1> QED
  BY <1>1, <1>2, WithCPSR, GetSPSRType DEF u

LEMMA ExceptionFields ==
    ASSUME NEW s \in Fields, NEW mode \in Modes, NEW link \in Values,
           NEW thumb \in BOOLEAN
    PROVE  LET t == Exception(s, mode, link, thumb)
           IN  /\ t \in Fields
               /\ \A r \in Regs \ {14} : t.ACTIVE[r] = SwitchMode(s, mode).ACTIVE[r]
               /\ t.SPLR = SwitchMode(s, mode).SPLR
               /\ t.GPR = SwitchMode(s, mode).GPR
               /\ t.GPR_FIQ = SwitchMode(s, mode).GPR_FIQ
               /\ t.SPSR = SwitchMode(s, mode).SPSR
               /\ t.CPSR.modeBits = SwitchMode(s, mode).CPSR.modeBits
               /\ t.currentBank = ModeBank(mode)
               /\ t.currentBank = SwitchMode(s, mode).currentBank
<1> DEFINE u == SwitchMode(s, mode)
<1>1. u \in Fields /\ u.currentBank = ModeBank(mode)
  BY SwitchType
<1> DEFINE active == [u.ACTIVE EXCEPT ![14] = link]
           status == [modeBits |-> u.CPSR.modeBits, thumb |-> thumb, irqDisable |-> TRUE]
           t      == Exception(s, mode, link, thumb)
<1>2. t = [u EXCEPT !.ACTIVE = active, !.CPSR = status]
  BY DEF Exception
<1>3. u.CPSR \in Status /\ u.ACTIVE \in [Regs -> Values]
  BY <1>1 DEF Fields
<1>4. /\ active \in [Regs -> Values] /\ status \in Status
      /\ \A r \in Regs \ {14} : active[r] = u.ACTIVE[r]
  BY <1>3 DEF Status
<1>5. status.modeBits = u.CPSR.modeBits
  OBVIOUS
<1> HIDE DEF u, active, status, t
<1>6. /\ t \in Fields
      /\ t.ACTIVE = active /\ t.SPLR = u.SPLR
      /\ t.GPR = u.GPR /\ t.GPR_FIQ = u.GPR_FIQ
      /\ t.SPSR = u.SPSR
      /\ t.CPSR = status
      /\ t.currentBank = u.currentBank
  BY <1>1, <1>2, <1>4 DEF Fields
<1> QED
  BY <1>1, <1>4, <1>5, <1>6 DEF u, t
-----------------------------------------------------------------------------
(* The invariants.  BankMatchesMode carries an exception into the mode it  *)
(* is already in; SavedStatusKept needs that the two statuses recorded     *)
(* differ only after such an exception.                                    *)
OneUnlessOwn ==
    \A b \in Exceptional :
        saved[b].inner.modeBits # b => saved[b].inner = saved[b].outer

Inv == TypeOK /\ BankMatchesMode /\ SavedStatusKept /\ OneUnlessOwn

\* Every record stays, and the SPSR with it, or is forgotten.
LEMMA RecordStays ==
    ASSUME Inv, saved' \in [Exceptional -> Recorded],
           \A b \in Exceptional :
              \/ saved'[b] = saved[b] /\ rs'.SPSR[b] = rs.SPSR[b]
              \/ saved'[b] = Nothing
    PROVE  SavedStatusKept' /\ OneUnlessOwn'
<1>1. Nothing.inner = Nothing.outer
  BY DEF Nothing
<1>2. SavedStatusKept'
  <2> SUFFICES ASSUME NEW b \in Exceptional, saved'[b] # Nothing
               PROVE  rs'.SPSR[b] = Held(b)'
    BY DEF SavedStatusKept
  <2>1. saved'[b] = saved[b] /\ rs'.SPSR[b] = rs.SPSR[b]
    OBVIOUS
  <2>2. Held(b)' = Held(b)
    BY <2>1 DEF Held
  <2>3. rs.SPSR[b] = Held(b)
    BY <2>1 DEF Inv, SavedStatusKept
  <2> QED BY <2>1, <2>2, <2>3
<1>3. OneUnlessOwn'
  <2> SUFFICES ASSUME NEW b \in Exceptional
               PROVE  saved'[b].inner.modeBits # b => saved'[b].inner = saved'[b].outer
    BY DEF OneUnlessOwn
  <2>1. CASE saved'[b] = saved[b]
    BY <2>1 DEF Inv, OneUnlessOwn
  <2>2. CASE saved'[b] = Nothing
    BY <1>1, <2>2
  <2> QED BY <2>1, <2>2
<1> QED BY <1>2, <1>3

\* A step that changes at most the SPSR of the bank that is forgotten.
LEMMA ForgottenKept ==
    ASSUME Inv, NEW t, saved' = [saved EXCEPT ![t] = Nothing],
           \A b \in Exceptional : b # t => rs'.SPSR[b] = rs.SPSR[b]
    PROVE  /\ saved' \in [Exceptional -> Recorded]
           /\ SavedStatusKept'
           /\ OneUnlessOwn'
<1>1. saved \in [Exceptional -> Recorded] /\ Nothing \in Recorded
  BY DEF Inv, TypeOK, Recorded
<1>2. saved' \in [Exceptional -> Recorded]
  BY <1>1
<1>3. \A b \in Exceptional : IF b = t THEN saved'[b] = Nothing ELSE saved'[b] = saved[b]
  BY <1>1
<1> QED BY <1>2, <1>3, RecordStays

\* A step that changes at most the SPSR of the bank it enters.
LEMMA KnownKept ==
    ASSUME Inv, rs'.currentBank \in Banks, saved' = Known(rs'),
           \A b \in Exceptional :
              b # rs'.currentBank \/ rs'.currentBank = rs.currentBank
                 => rs'.SPSR[b] = rs.SPSR[b]
    PROVE  /\ saved' \in [Exceptional -> Recorded]
           /\ SavedStatusKept'
           /\ OneUnlessOwn'
<1> DEFINE t == rs'.currentBank
<1>1. CASE t = "SYS" \/ t = rs.currentBank
  <2>1. saved' = saved
    BY <1>1 DEF Known
  <2>2. \A b \in Exceptional : rs'.SPSR[b] = rs.SPSR[b]
    BY <1>1 DEF Exceptional
  <2>3. saved' \in [Exceptional -> Recorded]
    BY <2>1 DEF Inv, TypeOK
  <2> QED BY <2>1, <2>2, <2>3, RecordStays
<1>2. CASE t # "SYS" /\ t # rs.currentBank
  <2>1. saved' = [saved EXCEPT ![t] = Nothing]
    BY <1>2 DEF Known, Forget
  <2> QED BY <2>1, ForgottenKept
<1> QED BY <1>1, <1>2

\* A step that changes no SPSR and forgets nothing.
LEMMA UnchangedKept ==
    ASSUME Inv, UNCHANGED saved, rs'.SPSR = rs.SPSR
    PROVE  SavedStatusKept' /\ OneUnlessOwn'
<1>1. saved' \in [Exceptional -> Recorded]
  BY DEF Inv, TypeOK
<1> QED BY <1>1, RecordStays

LEMMA InitInv == Init => Inv
<1> SUFFICES ASSUME Init PROVE Inv
  OBVIOUS
<1>1. PICK status \in PowerOnStatus : rs = PowerOn(status)
  BY DEF Init
<1>2. status \in Status /\ ZeroStatus \in Status /\ Zero \in Values
  BY RegisterAssumption DEF Status, ZeroStatus
<1>3. rs \in Fields
  BY <1>1, <1>2, BankFacts DEF PowerOn, Fields
<1>4. rs.currentBank = "SYS"
  BY <1>1 DEF PowerOn
<1> QED
  BY <1>3, <1>4
     DEF Init, Inv, TypeOK, BankMatchesMode, SavedStatusKept, OneUnlessOwn, Recorded, Nothing

\* A change of mode after a new status has come into CPSR.
LEMMA MSRToCPSRInv == ASSUME Inv, MSRToCPSR PROVE Inv'
<1>1. PICK status \in GuestStatus :
         /\ status.modeBits \in Modes
         /\ rs' = SwitchMode([rs EXCEPT !.CPSR = status], status.modeBits)
         /\ saved' = Known(rs')
         /\ UNCHANGED pending
  BY DEF MSRToCPSR
<1> DEFINE s == [rs EXCEPT !.CPSR = status]
           mode == status.modeBits
<1>2. status \in Status /\ rs \in Fields
  BY RegisterAssumption DEF Inv, TypeOK
<1>3. /\ s \in Fields /\ s.SPSR = rs.SPSR /\ s.CPSR = status
      /\ s.currentBank = rs.currentBank
  BY <1>2, WithCPSR
<1>4. rs' = SwitchMode(s, mode) /\ mode \in Modes
  BY <1>1
<1> HIDE DEF s
<1>5. rs' \in Fields /\ rs'.currentBank = ModeBank(mode)
  BY <1>3, <1>4, SwitchType
<1>6. /\ \A b \in Exceptional :
            b # ModeBank(mode) \/ ModeBank(mode) = s.currentBank
               => rs'.SPSR[b] = s.SPSR[b]
      /\ ModeBank(mode) = s.currentBank => rs'.CPSR = s.CPSR
      /\ ModeBank(mode) # s.currentBank => rs'.CPSR.modeBits = mode
  BY <1>3, <1>4, SwitchStatus
<1>7. saved' \in [Exceptional -> Recorded] /\ SavedStatusKept' /\ OneUnlessOwn'
  BY <1>1, <1>3, <1>5, <1>6, BankFacts, KnownKept
<1>8. rs'.CPSR.modeBits = mode
  BY <1>3, <1>6
<1>9. BankMatchesMode'
  BY <1>4, <1>5, <1>8, BankFacts DEF BankMatchesMode
<1> QED
  BY <1>1, <1>5, <1>7, <1>9 DEF Inv, TypeOK

LEMMA MSRToSPSRInv == ASSUME Inv, MSRToSPSR PROVE Inv'
<1>1. PICK status \in GuestStatus :
         /\ rs' = SetSPSR(rs, status)
         /\ saved' = IF rs.currentBank = "SYS" THEN saved ELSE Forget(rs)
         /\ UNCHANGED pending
  BY DEF MSRToSPSR
<1>2. status \in Status /\ rs \in Fields
  BY RegisterAssumption DEF Inv, TypeOK
<1>3. CASE rs.currentBank = "SYS"
  <2>1. rs' = [rs EXCEPT !.CPSR = status]
    BY <1>1, <1>3 DEF SetSPSR
  <2>2. rs' \in Fields /\ rs'.SPSR = rs.SPSR /\ rs'.currentBank = rs.currentBank
    BY <1>2, <2>1, WithCPSR
  <2>3. saved' \in [Exceptional -> Recorded] /\ SavedStatusKept' /\ OneUnlessOwn'
    BY <1>1, <1>3, <2>2, RecordStays DEF Inv, TypeOK
  <2> QED
    BY <1>1, <1>3, <2>2, <2>3 DEF Inv, TypeOK, BankMatchesMode
<1>4. CASE rs.currentBank # "SYS"
  <2>1. rs' = [rs EXCEPT !.SPSR[rs.currentBank] = status]
    BY <1>1, <1>4 DEF SetSPSR
  <2>2. /\ rs' \in Fields /\ rs'.CPSR = rs.CPSR /\ rs'.currentBank = rs.currentBank
        /\ \A b \in Exceptional : b # rs.currentBank => rs'.SPSR[b] = rs.SPSR[b]
    BY <1>2, <2>1 DEF Fields
  <2>3. saved' = [saved EXCEPT ![rs.currentBank] = Nothing]
    BY <1>1, <1>4 DEF Forget
  <2>4. saved' \in [Exceptional -> Recorded] /\ SavedStatusKept' /\ OneUnlessOwn'
    BY <2>2, <2>3, ForgottenKept
  <2> QED
    BY <1>1, <2>2, <2>4 DEF Inv, TypeOK, BankMatchesMode
<1> QED
  BY <1>3, <1>4

\* A return, with or without a writeback after it.
LEMMA ReturnInv ==
    ASSUME Inv, GetSPSR(rs).modeBits \in Modes,
           NEW t, t = RestoreCPSR(rs),
           rs' \in Fields, rs'.SPSR = t.SPSR, rs'.CPSR = t.CPSR,
           rs'.currentBank = t.currentBank,
           pending' \subseteq Regs \cup {15}, saved' = Known(rs')
    PROVE  Inv'
<1> DEFINE mode == GetSPSR(rs).modeBits
           u    == SwitchMode(rs, mode)
<1>1. rs \in Fields /\ mode \in Modes
  BY DEF Inv, TypeOK
<1>2. /\ t.SPSR = u.SPSR /\ t.CPSR = GetSPSR(rs)
      /\ t.currentBank = ModeBank(mode)
  BY <1>1, RestoreFields
<1>3. \A b \in Exceptional :
         b # ModeBank(mode) \/ ModeBank(mode) = rs.currentBank
            => u.SPSR[b] = rs.SPSR[b]
  BY <1>1, SwitchStatus
<1>4. saved' \in [Exceptional -> Recorded] /\ SavedStatusKept' /\ OneUnlessOwn'
  <2> HIDE DEF u
  <2> QED
    BY <1>1, <1>2, <1>3, BankFacts, KnownKept
<1>5. BankMatchesMode'
  BY <1>1, <1>2, BankFacts DEF BankMatchesMode
<1> QED
  BY <1>4, <1>5 DEF Inv, TypeOK

LEMMA UserBankTransferInv == ASSUME Inv, UserBankTransfer PROVE Inv'
<1>1. PICK list \in SUBSET Regs, writeback \in BOOLEAN, rn \in Regs, base \in Values :
      \E values \in [list -> Values] :
          LET loaded == Load(SwitchMode(rs, "USR"), list, values)
              based  == IF writeback /\ rn \notin list
                        THEN [loaded EXCEPT !.ACTIVE[rn] = base] ELSE loaded
          IN  /\ pending = {}
              /\ rs.CPSR.modeBits \in Modes
              /\ rs' = SwitchMode(based, rs.CPSR.modeBits)
              /\ saved' = IF rs'.currentBank = "SYS" THEN saved ELSE Forget(rs')
              /\ UNCHANGED pending
  BY DEF UserBankTransfer
<1>2. PICK values \in [list -> Values] :
          LET loaded == Load(SwitchMode(rs, "USR"), list, values)
              based  == IF writeback /\ rn \notin list
                        THEN [loaded EXCEPT !.ACTIVE[rn] = base] ELSE loaded
          IN  /\ rs.CPSR.modeBits \in Modes
              /\ rs' = SwitchMode(based, rs.CPSR.modeBits)
              /\ saved' = IF rs'.currentBank = "SYS" THEN saved ELSE Forget(rs')
              /\ UNCHANGED pending
  BY <1>1
<1> DEFINE user   == SwitchMode(rs, "USR")
           loaded == Load(user, list, values)
           based  == IF writeback /\ rn \notin list
                     THEN [loaded EXCEPT !.ACTIVE[rn] = base] ELSE loaded
           mode   == rs.CPSR.modeBits
<1>3. rs \in Fields /\ "USR" \in Modes /\ ModeBank("USR") = "SYS" /\ mode \in Modes
  BY <1>2, RegisterAssumption DEF Inv, TypeOK, ModeBank
<1>4. user \in Fields /\ user.currentBank = "SYS"
  BY <1>3, SwitchType
<1>5. \A b \in Exceptional : user.SPSR[b] = rs.SPSR[b]
  <2>1. \A b \in Exceptional : b # ModeBank("USR")
    BY <1>3 DEF Exceptional
  <2> QED
    BY <1>3, <2>1, SwitchStatus
<1> HIDE DEF user
<1>6. loaded \in Fields /\ loaded.currentBank = "SYS" /\ loaded.SPSR = user.SPSR
  <2>1. \A r \in list \cap Regs : values[r] \in Values
    OBVIOUS
  <2> QED
    BY <1>4, <2>1, LoadFields
<1> HIDE DEF loaded
<1>7. based \in Fields /\ based.currentBank = "SYS" /\ based.SPSR = user.SPSR
  BY <1>6 DEF Fields
<1>8. rs' = SwitchMode(based, mode)
  BY <1>2 DEF loaded, user
<1> HIDE DEF based
<1>9. rs' \in Fields /\ rs'.currentBank = ModeBank(mode)
  BY <1>3, <1>7, <1>8, SwitchType
<1>10. /\ \A b \in Exceptional :
             b # ModeBank(mode) \/ ModeBank(mode) = "SYS" => rs'.SPSR[b] = based.SPSR[b]
       /\ ModeBank(mode) # "SYS" => rs'.CPSR.modeBits = mode
  BY <1>3, <1>7, <1>8, SwitchStatus
<1>11. \A b \in Exceptional : b # rs'.currentBank => rs'.SPSR[b] = rs.SPSR[b]
  BY <1>5, <1>7, <1>9, <1>10
<1>12. BankMatchesMode'
  BY <1>3, <1>9, <1>10, BankFacts DEF BankMatchesMode
<1>13. saved' = IF rs'.currentBank = "SYS" THEN saved
                ELSE [saved EXCEPT ![rs'.currentBank] = Nothing]
  BY <1>2 DEF Forget
<1>14. saved' \in [Exceptional -> Recorded] /\ SavedStatusKept' /\ OneUnlessOwn'
  <2>1. CASE rs'.currentBank = "SYS"
    <3>1. saved' = saved /\ \A b \in Exceptional : rs'.SPSR[b] = rs.SPSR[b]
      BY <1>11, <1>13, <2>1 DEF Exceptional
    <3>2. saved' \in [Exceptional -> Recorded]
      BY <3>1 DEF Inv, TypeOK
    <3> QED BY <3>1, <3>2, RecordStays
  <2>2. CASE rs'.currentBank # "SYS"
    BY <1>11, <1>13, <2>2, ForgottenKept
  <2> QED BY <2>1, <2>2
<1> QED
  BY <1>2, <1>9, <1>12, <1>14 DEF Inv, TypeOK

\* The record of one mode is new, those of the others stay.
LEMMA Entered ==
    ASSUME Inv, NEW mode,
           \A b \in Exceptional \ {mode} : /\ saved'[b] = saved[b]
                                          /\ rs'.SPSR[b] = rs.SPSR[b],
           Held(mode)' = rs'.SPSR[mode],
           saved'[mode].inner.modeBits = mode \/ saved'[mode].inner = saved'[mode].outer
    PROVE  SavedStatusKept' /\ OneUnlessOwn'
<1>1. SavedStatusKept'
  <2> SUFFICES ASSUME NEW b \in Exceptional, saved'[b] # Nothing, b # mode
               PROVE  rs'.SPSR[b] = Held(b)'
    BY DEF SavedStatusKept
  <2>1. Held(b)' = Held(b)
    BY DEF Held
  <2>2. rs.SPSR[b] = Held(b)
    BY DEF Inv, SavedStatusKept
  <2> QED BY <2>1, <2>2
<1>2. OneUnlessOwn'
  BY DEF Inv, OneUnlessOwn
<1> QED BY <1>1, <1>2

LEMMA EnterInv ==
    ASSUME Inv, NEW mode \in {"IRQ", "SVC", "UND"}, mode \in Modes,
           NEW link \in Values, NEW thumb \in BOOLEAN,
           rs' = Exception(rs, mode, link, thumb),
           saved' = Interrupted(mode), UNCHANGED pending
    PROVE  Inv'
<1>1. /\ \/ rs.currentBank # mode
            /\ saved' = [saved EXCEPT ![mode] = [outer |-> rs.CPSR, inner |-> rs.CPSR]]
         \/ rs.currentBank = mode /\ saved[mode] = Nothing /\ saved' = saved
         \/ rs.currentBank = mode /\ saved[mode] # Nothing
            /\ saved' = [saved EXCEPT ![mode].inner = rs.CPSR]
      /\ UNCHANGED pending
  BY DEF Interrupted
<1>2. rs \in Fields /\ ModeBank(mode) = mode /\ mode \in Exceptional
  BY <1>1, BankFacts DEF Inv, TypeOK, ModeBank, Exceptional
<1>3. /\ rs' \in Fields /\ rs'.SPSR = SwitchMode(rs, mode).SPSR
      /\ rs'.CPSR.modeBits = SwitchMode(rs, mode).CPSR.modeBits
      /\ rs'.currentBank = mode
  BY <1>2, ExceptionFields
<1>4. /\ \A b \in Exceptional :
            b # mode \/ mode = rs.currentBank
               => SwitchMode(rs, mode).SPSR[b] = rs.SPSR[b]
      /\ mode # rs.currentBank => SwitchMode(rs, mode).SPSR[mode] = rs.CPSR
      /\ mode = rs.currentBank => SwitchMode(rs, mode).CPSR = rs.CPSR
      /\ mode # rs.currentBank => SwitchMode(rs, mode).CPSR.modeBits = mode
  BY <1>1, <1>2, SwitchStatus
<1>5. BankMatchesMode'
  BY <1>2, <1>3, <1>4 DEF Inv, BankMatchesMode, Exceptional
<1>6. rs.CPSR \in Status
  BY <1>2 DEF Fields
<1>7. \A b \in Exceptional \ {mode} : /\ saved'[b] = saved[b]
                                      /\ rs'.SPSR[b] = rs.SPSR[b]
  BY <1>1, <1>3, <1>4 DEF Inv, TypeOK
<1>8. saved \in [Exceptional -> Recorded]
  BY DEF Inv, TypeOK
<1>9. CASE rs.currentBank # mode
  <2> DEFINE h == [outer |-> rs.CPSR, inner |-> rs.CPSR]
  <2>1. saved' = [saved EXCEPT ![mode] = h] /\ h \in Recorded
    BY <1>1, <1>6, <1>9 DEF Recorded
  <2>2. rs'.SPSR[mode] = rs.CPSR /\ h.outer = rs.CPSR /\ h.inner = rs.CPSR
    BY <1>3, <1>4, <1>9
  <2> HIDE DEF h
  <2>3. saved' \in [Exceptional -> Recorded] /\ saved'[mode] = h
    BY <1>2, <1>8, <2>1
  <2>4. Held(mode)' = rs'.SPSR[mode]
    BY <2>2, <2>3 DEF Held
  <2>5. saved'[mode].inner = saved'[mode].outer
    BY <2>2, <2>3
  <2> QED BY <1>1, <1>3, <1>5, <1>7, <2>3, <2>4, <2>5, Entered DEF Inv, TypeOK
<1>10. CASE rs.currentBank = mode /\ saved[mode] = Nothing
  <2>1. saved' = saved /\ saved'[mode] = Nothing
    BY <1>1, <1>10
  <2>2. saved' \in [Exceptional -> Recorded] /\ SavedStatusKept' /\ OneUnlessOwn'
    BY <1>7, <1>8, <2>1, RecordStays
  <2> QED BY <1>1, <1>3, <1>5, <2>2 DEF Inv, TypeOK
<1>11. CASE rs.currentBank = mode /\ saved[mode] # Nothing
  <2> DEFINE h == [saved[mode] EXCEPT !.inner = rs.CPSR]
  <2>1. saved[mode] \in Recorded \ {Nothing}
    BY <1>2, <1>8, <1>11
  <2>2. saved' = [saved EXCEPT ![mode] = h]
    BY <1>1, <1>11
  <2>3. h \in Recorded /\ h.outer = saved[mode].outer /\ h.inner = rs.CPSR
    BY <1>6, <2>1 DEF Recorded
  <2> HIDE DEF h
  <2>4. saved' \in [Exceptional -> Recorded] /\ saved'[mode] = h
    BY <1>2, <1>8, <2>2, <2>3
  <2>5. rs.CPSR.modeBits = mode
    BY <1>2, <1>11 DEF Inv, BankMatchesMode, Exceptional
  <2>6. rs'.SPSR[mode] = rs.SPSR[mode]
    BY <1>2, <1>3, <1>4, <1>11
  <2>7. rs.SPSR[mode] = saved[mode].outer
    BY <1>2, <1>11 DEF Inv, SavedStatusKept, OneUnlessOwn, Held
  <2>8. Held(mode)' = rs'.SPSR[mode]
    BY <2>3, <2>4, <2>5, <2>6, <2>7 DEF Held
  <2>9. saved'[mode].inner.modeBits = mode
    BY <2>3, <2>4, <2>5
  <2> QED BY <1>1, <1>3, <1>5, <1>7, <2>4, <2>8, <2>9, Entered DEF Inv, TypeOK
<1> QED
  BY <1>1, <1>9, <1>10, <1>11

LEMMA NextInv == Inv /\ [Next]_vars => Inv'
<1> SUFFICES ASSUME Inv, [Next]_vars PROVE Inv'
  OBVIOUS
<1>1. rs \in Fields
  BY DEF Inv, TypeOK
<1>2. CASE Operate
  <2>1. PICK list \in SUBSET Regs : \E values \in [list -> Values] :
           rs' = Load(rs, list, values) /\ UNCHANGED <<pending, saved>>
    BY <1>2 DEF Operate
  <2>2. PICK values \in [list -> Values] :
           rs' = Load(rs, list, values) /\ UNCHANGED <<pending, saved>>
    BY <2>1
  <2>3. /\ rs' \in Fields /\ rs'.SPSR = rs.SPSR /\ rs'.CPSR = rs.CPSR
        /\ rs'.currentBank = rs.currentBank
    <3>1. \A r \in list \cap Regs : values[r] \in Values
      OBVIOUS
    <3> QED
      BY <1>1, <2>2, <3>1, LoadFields
  <2> QED
    BY <2>2, <2>3, UnchangedKept DEF Inv, TypeOK, BankMatchesMode
<1>3. CASE ArmBranchAndExchange
  <2>1. PICK status \in GuestStatus : rs' = [rs EXCEPT !.CPSR.thumb = status.thumb]
    BY <1>3 DEF ArmBranchAndExchange
  <2>2. rs.CPSR \in Status /\ status.thumb \in BOOLEAN
    BY <1>1, RegisterAssumption DEF Fields, Status
  <2>3. /\ rs' \in Fields /\ rs'.SPSR = rs.SPSR
        /\ rs'.CPSR.modeBits = rs.CPSR.modeBits
        /\ rs'.currentBank = rs.currentBank
    BY <1>1, <2>1, <2>2 DEF Fields, Status
  <2> QED
    BY <1>3, <2>3, UnchangedKept DEF ArmBranchAndExchange, Inv, TypeOK, BankMatchesMode
<1>4. CASE MSRToCPSR
  BY <1>4, MSRToCPSRInv
<1>5. CASE MSRToSPSR
  BY <1>5, MSRToSPSRInv
<1>6. CASE ReturnByDataProcessing
  <2>1. rs' \in Fields
    BY <1>1, <1>6, RestoreFields DEF ReturnByDataProcessing
  <2> QED
    BY <1>6, <2>1, ReturnInv DEF ReturnByDataProcessing, Inv, TypeOK
<1>7. CASE LoadWithPC
  <2>1. PICK list \in SUBSET Regs, rn \in Regs, writeback \in BOOLEAN :
           \E values \in [list -> Values] :
              /\ rs' = Load(rs, list, values)
              /\ pending' = {15} \cup (IF writeback THEN {rn} \ list ELSE {})
              /\ UNCHANGED saved
    BY <1>7 DEF LoadWithPC
  <2>2. PICK values \in [list -> Values] : rs' = Load(rs, list, values)
    BY <2>1
  <2>3. /\ rs' \in Fields /\ rs'.SPSR = rs.SPSR /\ rs'.CPSR = rs.CPSR
        /\ rs'.currentBank = rs.currentBank
    <3>1. \A r \in list \cap Regs : values[r] \in Values
      OBVIOUS
    <3> QED
      BY <1>1, <2>2, <3>1, LoadFields
  <2>4. pending' \subseteq Regs \cup {15}
    BY <2>1
  <2> QED
    BY <2>1, <2>3, <2>4, UnchangedKept DEF Inv, TypeOK, BankMatchesMode
<1>8. CASE ReturnByLoad
  <2>1. PICK value \in Values :
           rs' = Load(RestoreCPSR(rs), pending, [r \in Regs |-> value])
    BY <1>8 DEF ReturnByLoad
  <2>2. GetSPSR(rs).modeBits \in Modes /\ pending' = {} /\ saved' = Known(rs')
    BY <1>8 DEF ReturnByLoad
  <2>3. RestoreCPSR(rs) \in Fields
    BY <1>1, <2>2, RestoreFields
  <2> DEFINE t == RestoreCPSR(rs)
             values == [r \in Regs |-> value]
  <2>4. \A r \in pending \cap Regs : values[r] \in Values
    OBVIOUS
  <2>5. /\ rs' \in Fields /\ rs'.SPSR = RestoreCPSR(rs).SPSR
        /\ rs'.CPSR = RestoreCPSR(rs).CPSR
        /\ rs'.currentBank = RestoreCPSR(rs).currentBank
    <3>1. t \in Fields /\ rs' = Load(t, pending, values)
      BY <2>1, <2>3
    <3> HIDE DEF t, values
    <3>2. /\ rs' \in Fields /\ rs'.SPSR = t.SPSR /\ rs'.CPSR = t.CPSR
          /\ rs'.currentBank = t.currentBank
      BY <2>4, <3>1, LoadFields
    <3> QED
      BY <3>2 DEF t
  <2> QED
    BY <2>2, <2>5, ReturnInv
<1>9. CASE UserBankTransfer
  BY <1>9, UserBankTransferInv
<1>10. CASE HandleInterruptRequests \/ ArmSWI \/ ThumbSWI \/ ArmUndefined
  BY <1>10, EnterInv DEF HandleInterruptRequests, ArmSWI, ThumbSWI, ArmUndefined
<1>11. CASE UNCHANGED vars
  BY <1>11, UnchangedKept DEF vars, Inv, TypeOK, BankMatchesMode
<1> QED
  BY <1>2, <1>3, <1>4, <1>5, <1>6, <1>7, <1>8, <1>9, <1>10, <1>11 DEF Next

THEOREM Invariant == Spec => []Inv
BY InitInv, NextInv, PTL DEF Spec

(* The registers keep their types, whatever the program does with them.    *)
THEOREM TypeCorrect == Spec => []TypeOK
<1>1. Inv => TypeOK
  BY DEF Inv
<1> QED
  BY <1>1, Invariant, PTL

(* In an exception mode the active registers are those CPSR names.         *)
THEOREM BankMatches == Spec => []BankMatchesMode
<1>1. Inv => BankMatchesMode
  BY DEF Inv
<1> QED
  BY <1>1, Invariant, PTL

(* The SPSR of a mode holds what its last exception interrupted, or, if    *)
(* that was taken in the mode itself, what the outer one did.              *)
THEOREM StatusKept == Spec => []SavedStatusKept
<1>1. Inv => SavedStatusKept
  BY DEF Inv
<1> QED
  BY <1>1, Invariant, PTL
\* GetSPSR before the switch, and no writeback after it, is what CPSR gets.
LEMMA Returned ==
    ASSUME Inv, ReturnByDataProcessing \/ ReturnByLoad
    PROVE  rs'.CPSR = GetSPSR(rs)
<1>1. rs \in Fields /\ GetSPSR(rs).modeBits \in Modes
  BY DEF Inv, TypeOK, ReturnByDataProcessing, ReturnByLoad
<1> DEFINE t == RestoreCPSR(rs)
<1>2. t \in Fields /\ t.CPSR = GetSPSR(rs)
  BY <1>1, RestoreFields
<1>3. rs' = t \/ \E value \in Values : rs' = Load(t, pending, [r \in Regs |-> value])
  BY DEF ReturnByDataProcessing, ReturnByLoad
<1> HIDE DEF t
<1>4. ASSUME NEW value \in Values
      PROVE  Load(t, pending, [r \in Regs |-> value]).CPSR = t.CPSR
  <2> DEFINE values == [r \in Regs |-> value]
  <2>1. \A r \in pending \cap Regs : values[r] \in Values
    OBVIOUS
  <2> HIDE DEF values
  <2>2. Load(t, pending, values).CPSR = t.CPSR
    BY <1>2, <2>1, LoadFields
  <2> QED BY <2>2 DEF values
<1> QED BY <1>2, <1>3, <1>4

(* Every handler returns to the status that its exception interrupted, or, *)
(* if that was taken in the mode itself, to what the outer one did.        *)
THEOREM Returns == Spec => ReturnsToInterrupted
<1>1. Inv /\ [Next]_vars
        => [(ReturnByDataProcessing \/ ReturnByLoad) /\ rs.currentBank # "SYS"
              => saved[rs.currentBank] = Nothing \/ rs'.CPSR = Held(rs.currentBank)]_vars
  <2> SUFFICES ASSUME Inv, ReturnByDataProcessing \/ ReturnByLoad,
                      rs.currentBank # "SYS", saved[rs.currentBank] # Nothing
               PROVE  rs'.CPSR = Held(rs.currentBank)
    OBVIOUS
  <2>1. rs.currentBank \in Exceptional
    BY DEF Inv, TypeOK, Fields, Exceptional
  <2>2. GetSPSR(rs) = Held(rs.currentBank)
    BY <2>1 DEF Inv, SavedStatusKept, GetSPSR
  <2> QED BY <2>2, Returned
<1> QED
  BY <1>1, Invariant, PTL DEF Spec, ReturnsToInterrupted
-----------------------------------------------------------------------------
(* The refinement.  At most one register of the current mode is written    *)
(* after a return, which is what the abstract Switch allows.               *)
OneBase == \E rn \in Regs : pending \subseteq {15, rn}

LEMMA OneBaseHolds == Spec => []OneBase
<1>1. Init => OneBase
  BY RegisterAssumption DEF Init, OneBase, Regs
<1>2. OneBase /\ [Next]_vars => OneBase'
  <2> SUFFICES ASSUME OneBase, [Next]_vars PROVE OneBase'
    OBVIOUS
  <2>1. CASE LoadWithPC
    <3>1. PICK list \in SUBSET Regs, rn \in Regs, writeback \in BOOLEAN :
             pending' = {15} \cup (IF writeback THEN {rn} \ list ELSE {})
      BY <2>1 DEF LoadWithPC
    <3> QED
      BY <3>1 DEF OneBase
  <2>2. CASE ReturnByLoad
    BY <2>2, RegisterAssumption DEF ReturnByLoad, OneBase, Regs
  <2>3. CASE UNCHANGED pending
    BY <2>3 DEF OneBase
  <2>4. LoadWithPC \/ ReturnByLoad \/ UNCHANGED pending
    BY DEF Next, vars, Operate, ArmBranchAndExchange, MSRToCPSR, MSRToSPSR,
           ReturnByDataProcessing, UserBankTransfer, HandleInterruptRequests,
           ArmSWI, ThumbSWI, ArmUndefined
  <2> QED
    BY <2>1, <2>2, <2>3, <2>4
<1> QED
  BY <1>1, <1>2, PTL DEF Spec

\* No register is banked twice.
LEMMA Disjoint == BankedRegs \cap FiqRegs = {} /\ 14 \in BankedRegs /\ 14 \in Regs
BY RegisterAssumption DEF Regs

\* The physical registers, one by one.
LEMMA PhysicalAt ==
    ASSUME NEW s \in Fields
    PROVE  /\ \A b \in Banks, r \in BankedRegs :
                 PhysicalOf(s)[<<b, r>>]
                    = IF b = s.currentBank THEN s.ACTIVE[r] ELSE s.SPLR[b][r]
           /\ \A b \in {"SYS", "FIQ"}, r \in FiqRegs :
                 PhysicalOf(s)[<<b, r>>]
                    = IF (b = "FIQ") = (s.currentBank = "FIQ") THEN s.ACTIVE[r]
                      ELSE IF b = "FIQ" THEN s.GPR_FIQ[r] ELSE s.GPR[r]
BY Disjoint DEF PhysicalOf

LEMMA CellCases ==
    ASSUME NEW cell \in File!Cells
    PROVE  \/ \E b \in Banks, r \in BankedRegs : cell = <<b, r>>
           \/ \E b \in {"SYS", "FIQ"}, r \in FiqRegs : cell = <<b, r>>
BY DEF File!Cells

LEMMA PhysicalType ==
    ASSUME NEW s \in Fields PROVE PhysicalOf(s) \in [File!Cells -> Values]
<1>1. \A cell \in File!Cells : PhysicalOf(s)[cell] \in Values
  <2> SUFFICES ASSUME NEW cell \in File!Cells PROVE PhysicalOf(s)[cell] \in Values
    OBVIOUS
  <2>1. /\ s.ACTIVE \in [Regs -> Values]
        /\ s.SPLR \in [Banks -> [BankedRegs -> Values]]
        /\ s.GPR \in [FiqRegs -> Values] /\ s.GPR_FIQ \in [FiqRegs -> Values]
    BY DEF Fields
  <2>2. CASE \E b \in Banks, r \in BankedRegs : cell = <<b, r>>
    <3>1. PICK b \in Banks, r \in BankedRegs : cell = <<b, r>>
      BY <2>2
    <3>2. s.ACTIVE[r] \in Values /\ s.SPLR[b][r] \in Values
      BY <2>1, <3>1 DEF Regs
    <3> QED
      BY <3>1, <3>2, PhysicalAt
  <2>3. CASE \E b \in {"SYS", "FIQ"}, r \in FiqRegs : cell = <<b, r>>
    <3>1. PICK b \in {"SYS", "FIQ"}, r \in FiqRegs : cell = <<b, r>>
      BY <2>3
    <3>2. s.ACTIVE[r] \in Values /\ s.GPR[r] \in Values /\ s.GPR_FIQ[r] \in Values
      BY <2>1, <3>1 DEF Regs
    <3> QED
      BY <3>1, <3>2, PhysicalAt
  <2> QED
    BY <2>2, <2>3, CellCases
<1>2. PhysicalOf(s) = [cell \in File!Cells |-> PhysicalOf(s)[cell]]
  BY DEF PhysicalOf, File!Cells
<1> QED
  BY <1>1, <1>2

\* A switch of mode only copies: every register stays what it was.
LEMMA PhysicalSwitch ==
    ASSUME NEW s \in Fields, NEW mode \in Modes, NEW cell \in File!Cells
    PROVE  PhysicalOf(SwitchMode(s, mode))[cell] = PhysicalOf(s)[cell]
<1>1. CASE ModeBank(mode) = s.currentBank
  BY <1>1, SwitchStays
<1>2. CASE ModeBank(mode) # s.currentBank
  <2> DEFINE t == SwitchMode(s, mode)
             new == ModeBank(mode)
             old == s.currentBank
  <2>1. /\ t.ACTIVE = [r \in Regs |->
                         IF r \in BankedRegs THEN s.SPLR[new][r]
                         ELSE IF new = "FIQ" THEN s.GPR_FIQ[r]
                         ELSE IF old = "FIQ" THEN s.GPR[r]
                         ELSE s.ACTIVE[r]]
        /\ t.SPLR = [s.SPLR EXCEPT ![old] = [r \in BankedRegs |-> s.ACTIVE[r]]]
        /\ t.GPR = IF new = "FIQ" THEN [r \in FiqRegs |-> s.ACTIVE[r]] ELSE s.GPR
        /\ t.GPR_FIQ = IF old = "FIQ" THEN [r \in FiqRegs |-> s.ACTIVE[r]]
                       ELSE s.GPR_FIQ
        /\ t.currentBank = new
    BY <1>2, SwitchFields
  <2>2. t \in Fields /\ new \in Banks /\ old \in Banks
    BY SwitchType, BankFacts DEF Fields
  <2>3. new # old
    BY <1>2
  <2> HIDE DEF t, new, old
  <2>4. CASE \E b \in Banks, r \in BankedRegs : cell = <<b, r>>
    <3>1. PICK b \in Banks, r \in BankedRegs : cell = <<b, r>>
      BY <2>4
    <3>2. t.ACTIVE[r] = s.SPLR[new][r]
      BY <2>1 DEF Regs
    <3>3. t.SPLR[b][r] = IF b = old THEN s.ACTIVE[r] ELSE s.SPLR[b][r]
      BY <2>1 DEF Fields
    <3>4. PhysicalOf(s)[cell] = IF b = old THEN s.ACTIVE[r] ELSE s.SPLR[b][r]
      BY <3>1, PhysicalAt DEF old
    <3>5. PhysicalOf(t)[cell] = IF b = new THEN t.ACTIVE[r] ELSE t.SPLR[b][r]
      <4>1. t.currentBank = new
        BY <2>1
      <4> QED
        BY <2>2, <3>1, <4>1, PhysicalAt
    <3> QED
      BY <2>3, <3>2, <3>3, <3>4, <3>5 DEF t
  <2>5. CASE \E b \in {"SYS", "FIQ"}, r \in FiqRegs : cell = <<b, r>>
    <3>1. PICK b \in {"SYS", "FIQ"}, r \in FiqRegs : cell = <<b, r>>
      BY <2>5
    <3>2. t.ACTIVE[r] = IF new = "FIQ" THEN s.GPR_FIQ[r]
                        ELSE IF old = "FIQ" THEN s.GPR[r]
                        ELSE s.ACTIVE[r]
      BY <2>1, Disjoint DEF Regs
    <3>3. /\ t.GPR[r] = IF new = "FIQ" THEN s.ACTIVE[r] ELSE s.GPR[r]
          /\ t.GPR_FIQ[r] = IF old = "FIQ" THEN s.ACTIVE[r] ELSE s.GPR_FIQ[r]
      BY <2>1
    <3>4. /\ PhysicalOf(s)[cell] = IF (b = "FIQ") = (old = "FIQ") THEN s.ACTIVE[r]
                                   ELSE IF b = "FIQ" THEN s.GPR_FIQ[r] ELSE s.GPR[r]
          /\ PhysicalOf(t)[cell] = IF (b = "FIQ") = (new = "FIQ") THEN t.ACTIVE[r]
                                   ELSE IF b = "FIQ" THEN t.GPR_FIQ[r] ELSE t.GPR[r]
      BY <2>1, <2>2, <3>1, PhysicalAt DEF old
    <3> QED
      BY <2>3, <3>1, <3>2, <3>3, <3>4 DEF t
  <2> QED
    BY <2>4, <2>5, CellCases DEF t
<1> QED
  BY <1>1, <1>2

\* A store into active registers changes only the cells they stand for.
LEMMA PhysicalLoad ==
    ASSUME NEW s \in Fields, NEW t \in Fields, NEW list,
           t.SPLR = s.SPLR, t.GPR = s.GPR, t.GPR_FIQ = s.GPR_FIQ,
           t.currentBank = s.currentBank,
           \A r \in Regs \ list : t.ACTIVE[r] = s.ACTIVE[r],
           NEW cell \in File!Cells,
           \A r \in list \cap Regs : cell # File!Cell(s.currentBank, r)
    PROVE  PhysicalOf(t)[cell] = PhysicalOf(s)[cell]
<1>1. CASE \E b \in Banks, r \in BankedRegs : cell = <<b, r>>
  <2>1. PICK b \in Banks, r \in BankedRegs : cell = <<b, r>>
    BY <1>1
  <2>2. b = s.currentBank => r \notin list
    BY <2>1, Disjoint DEF File!Cell, Regs
  <2> QED
    BY <2>1, <2>2, PhysicalAt DEF Regs
<1>2. CASE \E b \in {"SYS", "FIQ"}, r \in FiqRegs : cell = <<b, r>>
  <2>1. PICK b \in {"SYS", "FIQ"}, r \in FiqRegs : cell = <<b, r>>
    BY <1>2
  <2>2. (b = "FIQ") = (s.currentBank = "FIQ") => r \notin list
    BY <2>1 DEF File!Cell, Regs
  <2> QED
    BY <2>1, <2>2, PhysicalAt DEF Regs
<1> QED
  BY <1>1, <1>2, CellCases

LEMMA PhysicalLoadOne ==
    ASSUME NEW s \in Fields, NEW t \in Fields, NEW rn \in Regs,
           t.SPLR = s.SPLR, t.GPR = s.GPR, t.GPR_FIQ = s.GPR_FIQ,
           t.currentBank = s.currentBank,
           \A r \in Regs \ {rn} : t.ACTIVE[r] = s.ACTIVE[r],
           NEW cell \in File!Cells, cell # File!Cell(s.currentBank, rn)
    PROVE  PhysicalOf(t)[cell] = PhysicalOf(s)[cell]
<1> DEFINE list == {rn}
<1>1. /\ \A r \in list \cap Regs : cell # File!Cell(s.currentBank, r)
      /\ \A r \in Regs \ list : t.ACTIVE[r] = s.ACTIVE[r]
  OBVIOUS
<1> HIDE DEF list
<1> QED
  BY <1>1, PhysicalLoad

\* The cells of the bank seen, and what a step that spares the others is.
LEMMA SeenCells ==
    ASSUME NEW b, NEW r \in Regs
    PROVE  File!Cell(b, r) \in File!Visible(b)
BY DEF File!Visible, Regs

LEMMA SparesOthers ==
    ASSUME rs' \in Fields, NEW set,
           \A cell \in File!Cells \ set : PhysicalOf(rs')[cell] = PhysicalOf(rs)[cell]
    PROVE  File!ChangesOnly(set)
BY PhysicalType DEF File!ChangesOnly

\* Instructions that store into registers of their own mode, and those that
\* touch none.
LEMMA OperateStep ==
    ASSUME rs \in Fields, rs' \in Fields,
           rs'.SPLR = rs.SPLR, rs'.GPR = rs.GPR, rs'.GPR_FIQ = rs.GPR_FIQ,
           rs'.currentBank = rs.currentBank
    PROVE  File!Operate
<1>1. \A cell \in File!Cells \ File!Visible(rs.currentBank) :
         PhysicalOf(rs')[cell] = PhysicalOf(rs)[cell]
  BY PhysicalLoad, SeenCells
<1> QED
  BY <1>1, SparesOthers DEF File!Operate

\* A switch of mode from a register set s of the same registers, and at most
\* one register of the new mode written after it.
LEMMA SwitchStep ==
    ASSUME rs \in Fields, NEW s \in Fields, NEW mode \in Modes, NEW rn \in Regs,
           \A cell \in File!Cells : PhysicalOf(s)[cell] = PhysicalOf(rs)[cell],
           rs' \in Fields,
           rs'.SPLR = SwitchMode(s, mode).SPLR,
           rs'.GPR = SwitchMode(s, mode).GPR,
           rs'.GPR_FIQ = SwitchMode(s, mode).GPR_FIQ,
           rs'.currentBank = SwitchMode(s, mode).currentBank,
           \A r \in Regs \ {rn} : rs'.ACTIVE[r] = SwitchMode(s, mode).ACTIVE[r]
    PROVE  File!Switch
<1> DEFINE t == SwitchMode(s, mode)
<1>1. t \in Fields /\ t.currentBank \in Banks
  BY SwitchType, BankFacts
<1>2. \A cell \in File!Cells : PhysicalOf(t)[cell] = PhysicalOf(rs)[cell]
  BY PhysicalSwitch
<1>3. /\ rs'.SPLR = t.SPLR /\ rs'.GPR = t.GPR /\ rs'.GPR_FIQ = t.GPR_FIQ
      /\ rs'.currentBank = t.currentBank
      /\ \A r \in Regs \ {rn} : rs'.ACTIVE[r] = t.ACTIVE[r]
  OBVIOUS
<1> HIDE DEF t
<1>4. \A cell \in File!Cells \ {File!Cell(t.currentBank, rn)} :
         PhysicalOf(rs')[cell] = PhysicalOf(t)[cell]
  BY <1>1, <1>3, PhysicalLoadOne
<1>5. File!ChangesOnly({File!Cell(t.currentBank, rn)})
  BY <1>2, <1>4, SparesOthers
<1> QED
  BY <1>1, <1>3, <1>5 DEF File!Switch, Regs

LEMMA UserBankTransferStep == ASSUME Inv, Inv', UserBankTransfer PROVE File!OperateOnUser
<1>1. PICK list \in SUBSET Regs, writeback \in BOOLEAN, rn \in Regs, base \in Values :
      \E values \in [list -> Values] :
          LET loaded == Load(SwitchMode(rs, "USR"), list, values)
              based  == IF writeback /\ rn \notin list
                        THEN [loaded EXCEPT !.ACTIVE[rn] = base] ELSE loaded
          IN  /\ rs.CPSR.modeBits \in Modes
              /\ rs' = SwitchMode(based, rs.CPSR.modeBits)
  BY DEF UserBankTransfer
<1>2. PICK values \in [list -> Values] :
          LET loaded == Load(SwitchMode(rs, "USR"), list, values)
              based  == IF writeback /\ rn \notin list
                        THEN [loaded EXCEPT !.ACTIVE[rn] = base] ELSE loaded
          IN  /\ rs.CPSR.modeBits \in Modes
              /\ rs' = SwitchMode(based, rs.CPSR.modeBits)
  BY <1>1
<1> DEFINE user   == SwitchMode(rs, "USR")
           loaded == Load(user, list, values)
           based  == IF writeback /\ rn \notin list
                     THEN [loaded EXCEPT !.ACTIVE[rn] = base] ELSE loaded
           mode   == rs.CPSR.modeBits
<1>3. /\ rs \in Fields /\ rs' \in Fields /\ rs.currentBank \in Banks
      /\ "USR" \in Modes /\ ModeBank("USR") = "SYS" /\ mode \in Modes
  BY <1>2, RegisterAssumption DEF Inv, TypeOK, ModeBank, Fields
<1>4. user \in Fields /\ user.currentBank = "SYS"
  BY <1>3, SwitchType
<1>5. \A cell \in File!Cells : PhysicalOf(user)[cell] = PhysicalOf(rs)[cell]
  BY <1>3, PhysicalSwitch
<1> HIDE DEF user
<1>6. /\ loaded \in Fields /\ loaded.currentBank = "SYS"
      /\ loaded.SPLR = user.SPLR /\ loaded.GPR = user.GPR
      /\ loaded.GPR_FIQ = user.GPR_FIQ
  <2>1. \A r \in list \cap Regs : values[r] \in Values
    OBVIOUS
  <2> QED
    BY <1>4, <2>1, LoadFields
<1>7. rs' = SwitchMode(based, mode)
  BY <1>2 DEF user
<1> HIDE DEF loaded
<1>8. /\ based \in Fields /\ based.currentBank = "SYS"
      /\ based.SPLR = user.SPLR /\ based.GPR = user.GPR
      /\ based.GPR_FIQ = user.GPR_FIQ
  BY <1>6 DEF Fields
<1> HIDE DEF based, mode
<1>9. \A cell \in File!Cells \ File!Visible("SYS") :
         PhysicalOf(based)[cell] = PhysicalOf(user)[cell]
  BY <1>4, <1>8, PhysicalLoad, SeenCells
<1>10. \A cell \in File!Cells : PhysicalOf(rs')[cell] = PhysicalOf(based)[cell]
  BY <1>3, <1>7, <1>8, PhysicalSwitch
<1>11. File!ChangesOnly(File!Visible("SYS"))
  BY <1>3, <1>5, <1>9, <1>10, SparesOthers
<1>12. rs'.currentBank = ModeBank(mode) /\ ModeBank(mode) \in Banks
  BY <1>3, <1>7, <1>8, SwitchType, BankFacts
<1>13. rs.currentBank # "SYS" => ModeBank(mode) = rs.currentBank
  BY <1>3 DEF Inv, BankMatchesMode, mode, ModeBank, Banks
<1> QED
  BY <1>11, <1>12, <1>13 DEF File!OperateOnUser

LEMMA EnterStep ==
    ASSUME Inv, Inv', NEW mode \in Modes, NEW link \in Values,
           NEW thumb \in BOOLEAN, rs' = Exception(rs, mode, link, thumb)
    PROVE  File!Switch
<1>1. rs' = Exception(rs, mode, link, thumb)
  OBVIOUS
<1>2. rs \in Fields /\ rs' \in Fields /\ 14 \in Regs
  BY Disjoint DEF Inv, TypeOK
<1>3. /\ \A r \in Regs \ {14} : rs'.ACTIVE[r] = SwitchMode(rs, mode).ACTIVE[r]
      /\ rs'.SPLR = SwitchMode(rs, mode).SPLR
      /\ rs'.GPR = SwitchMode(rs, mode).GPR
      /\ rs'.GPR_FIQ = SwitchMode(rs, mode).GPR_FIQ
      /\ rs'.currentBank = SwitchMode(rs, mode).currentBank
  BY <1>1, <1>2, ExceptionFields
<1> QED
  BY <1>1, <1>2, <1>3, SwitchStep

LEMMA ReturnByLoadStep == ASSUME Inv, Inv', OneBase, ReturnByLoad PROVE File!Switch
<1>1. PICK value \in Values :
         rs' = Load(RestoreCPSR(rs), pending, [r \in Regs |-> value])
  BY DEF ReturnByLoad
<1>2. PICK rn \in Regs : pending \subseteq {15, rn}
  BY DEF OneBase
<1> DEFINE t      == RestoreCPSR(rs)
           values == [r \in Regs |-> value]
           mode   == GetSPSR(rs).modeBits
<1>3. rs \in Fields /\ rs' \in Fields /\ mode \in Modes
  BY DEF Inv, TypeOK, ReturnByLoad
<1>4. /\ t \in Fields
      /\ t.ACTIVE = SwitchMode(rs, mode).ACTIVE
      /\ t.SPLR = SwitchMode(rs, mode).SPLR
      /\ t.GPR = SwitchMode(rs, mode).GPR
      /\ t.GPR_FIQ = SwitchMode(rs, mode).GPR_FIQ
      /\ t.currentBank = SwitchMode(rs, mode).currentBank
  BY <1>3, RestoreFields
<1>5. rs' = Load(t, pending, values) /\ \A r \in pending \cap Regs : values[r] \in Values
  BY <1>1
<1> HIDE DEF t, values, mode
<1>6. /\ rs'.SPLR = t.SPLR /\ rs'.GPR = t.GPR /\ rs'.GPR_FIQ = t.GPR_FIQ
      /\ rs'.currentBank = t.currentBank
      /\ \A r \in Regs \ pending : rs'.ACTIVE[r] = t.ACTIVE[r]
  BY <1>4, <1>5, LoadFields
<1>7. 15 \notin Regs
  BY RegisterAssumption DEF Regs
<1>8. \A r \in Regs \ {rn} : rs'.ACTIVE[r] = SwitchMode(rs, mode).ACTIVE[r]
  BY <1>2, <1>4, <1>6, <1>7
<1> QED
  BY <1>3, <1>4, <1>6, <1>8, SwitchStep

LEMMA FileInit == Init => File!Init
<1> SUFFICES ASSUME Init PROVE File!Init
  OBVIOUS
<1>1. rs \in Fields
  BY InitInv DEF Inv, TypeOK
<1>2. rs.currentBank = "SYS"
  BY DEF Init, PowerOn
<1> QED
  BY <1>1, <1>2, PhysicalType DEF File!Init

LEMMA FileNext ==
    ASSUME Inv, Inv', OneBase, [Next]_vars PROVE [File!Next]_(File!vars)
<1>1. rs \in Fields /\ rs' \in Fields /\ 14 \in Regs
  BY Disjoint DEF Inv, TypeOK
<1>2. CASE Operate \/ LoadWithPC
  <2>1. PICK list \in SUBSET Regs :
           \E values \in [list -> Values] : rs' = Load(rs, list, values)
    BY <1>2 DEF Operate, LoadWithPC
  <2>2. PICK values \in [list -> Values] : rs' = Load(rs, list, values)
    BY <2>1
  <2>3. \A r \in list \cap Regs : values[r] \in Values
    OBVIOUS
  <2> QED
    BY <1>1, <2>2, <2>3, LoadFields, OperateStep DEF File!Next
<1>3. CASE ArmBranchAndExchange \/ MSRToSPSR
  <2>1. /\ rs'.SPLR = rs.SPLR /\ rs'.GPR = rs.GPR /\ rs'.GPR_FIQ = rs.GPR_FIQ
        /\ rs'.currentBank = rs.currentBank
    BY <1>1, <1>3 DEF ArmBranchAndExchange, MSRToSPSR, SetSPSR, Fields
  <2> QED
    BY <1>1, <2>1, OperateStep DEF File!Next
<1>4. CASE MSRToCPSR
  <2>1. PICK status \in GuestStatus :
           /\ status.modeBits \in Modes
           /\ rs' = SwitchMode([rs EXCEPT !.CPSR = status], status.modeBits)
    BY <1>4 DEF MSRToCPSR
  <2> DEFINE s == [rs EXCEPT !.CPSR = status]
  <2>2. status \in Status
    BY RegisterAssumption
  <2>3. /\ s \in Fields /\ s.ACTIVE = rs.ACTIVE /\ s.SPLR = rs.SPLR
        /\ s.GPR = rs.GPR /\ s.GPR_FIQ = rs.GPR_FIQ
        /\ s.currentBank = rs.currentBank
    BY <1>1, <2>2, WithCPSR
  <2>4. rs' = SwitchMode(s, status.modeBits)
    BY <2>1
  <2> HIDE DEF s
  <2>5. \A cell \in File!Cells : PhysicalOf(s)[cell] = PhysicalOf(rs)[cell]
    BY <2>3 DEF PhysicalOf
  <2> QED
    BY <1>1, <2>1, <2>3, <2>4, <2>5, SwitchStep DEF File!Next
<1>5. CASE ReturnByDataProcessing
  <2>1. GetSPSR(rs).modeBits \in Modes /\ rs' = RestoreCPSR(rs)
    BY <1>5 DEF ReturnByDataProcessing
  <2> QED
    BY <1>1, <2>1, RestoreFields, SwitchStep DEF File!Next
<1>6. CASE ReturnByLoad
  BY <1>6, ReturnByLoadStep DEF File!Next
<1>7. CASE UserBankTransfer
  BY <1>7, UserBankTransferStep DEF File!Next
<1>8. CASE HandleInterruptRequests \/ ArmSWI \/ ThumbSWI \/ ArmUndefined
  BY <1>8, EnterStep
     DEF HandleInterruptRequests, ArmSWI, ThumbSWI, ArmUndefined, File!Next
<1>9. CASE UNCHANGED vars
  <2>1. rs' = rs
    BY <1>9 DEF vars
  <2> QED
    BY <1>1, <2>1, OperateStep DEF File!Next
<1> QED
  BY <1>2, <1>3, <1>4, <1>5, <1>6, <1>7, <1>8, <1>9 DEF Next

(* Copying registers in and out of the active set implements a file with   *)
(* the registers of every mode: no step loses one or mixes two up.         *)
THEOREM Refinement == Spec => ImplementsBanks
<1>1. Inv /\ Inv' /\ OneBase /\ [Next]_vars => [File!Next]_(File!vars)
  BY FileNext
<1> QED
  BY <1>1, FileInit, Invariant, OneBaseHolds, PTL DEF Spec, ImplementsBanks, File!Spec
=============================================================================
