------------------------------ MODULE Pipeline ------------------------------
(***************************************************************************)
(* The two-stage pipeline of arm7tdmi/cpu.cpp and every instruction and    *)
(* exception that reads or writes R15.  R15 is one fetch ahead of the next *)
(* instruction between two passes and two ahead while one executes; each   *)
(* exception and branch corrects for that in its own way.                  *)
(*                                                                         *)
(* An entry of the pipeline is the address and the width it was fetched    *)
(* with; any instruction may stand at any address.  Memory is not written  *)
(* near R15, a program does not change its state by MSR, and R15 is not    *)
(* the target of a narrow load, a multiplication or a writeback, which     *)
(* change it behind the pipeline.  Addresses do not wrap: Top bounds them. *)
(***************************************************************************)
EXTENDS Integers

CONSTANTS
    Banks,     \* "SYS" and the exception modes in use
    Offsets,   \* of relative branches
    Targets,   \* addresses that a register or memory may hold
    GuestStatus,   \* what the program writes to CPSR
    Callers,   \* the modes whose code makes calls
    Top,       \* the bound on R15
    Lost,      \* not a link
    Unknown    \* not a status

Exceptional == Banks \ {"SYS"}
Status == [bank : Banks, thumb : BOOLEAN, irqDisable : BOOLEAN]
Links  == {"call", "half", "exception", "other"}

ASSUME PipelineAssumption ==
    /\ "SYS" \in Banks
    /\ Offsets \subseteq Int
    /\ Targets \subseteq Nat
    /\ Unknown \notin Status
    /\ Lost \notin [kind : {"call"}, next : Int, thumb : BOOLEAN]
    /\ Lost \notin [kind : {"exception"}, next : Int, status : Status]
    /\ GuestStatus \subseteq Status
    /\ Callers \subseteq Banks
    /\ Top \in Nat

VARIABLES
    r15,
    pipeline,  \* the instruction to execute and the one behind it
    cpsr,
    spsr,      \* of every exception mode; Unknown for one that is not what
               \* an exception saved, which may then be any
    r14,       \* of every bank; 0 stands for what is not a link
    link,      \* history: what the R14 of each bank holds; "exception" also
               \* says that the SPSR is the one saved with it
    free       \* history: the last instruction went to an address it computed

vars == <<r15, pipeline, cpsr, spsr, r14, link, free>>

Width(thumb) == IF thumb THEN 2 ELSE 4
Align(address, thumb) == address - (address % Width(thumb))
Fetched(address, thumb) == [address |-> address, width |-> Width(thumb)]

\* CPSR is not initialised but for the bank; Reset flushes to 0.
Init == /\ cpsr \in {s \in Status : s.bank = "SYS"}
        /\ r15 = Width(cpsr.thumb)
        /\ pipeline = [k \in 0 .. 1 |-> Fetched(k * Width(cpsr.thumb), cpsr.thumb)]
        /\ spsr = [b \in Exceptional |-> Unknown]
        /\ r14 = [b \in Banks |-> 0]
        /\ link = [b \in Banks |-> "other"]
        /\ free = FALSE
-----------------------------------------------------------------------------
PipelineFlush(target, thumb) ==
    LET pc == Align(target, thumb)
    IN  /\ r15' = pc + Width(thumb)
        /\ pipeline' = [k \in 0 .. 1 |-> Fetched(pc + k * Width(thumb), thumb)]

\* R15 as the executing instruction sees it: Execute fetches first.
Ahead == r15 + Width(cpsr.thumb)

\* ... and goes on behind the pipeline if the instruction does not write R15.
Advance == /\ Ahead <= Top
           /\ r15' = Ahead
           /\ pipeline' = [k \in 0 .. 1 |->
                 IF k = 0 THEN pipeline[1] ELSE Fetched(Ahead, cpsr.thumb)]

\* What is left of the link of a bank once its R14 or SPSR has been written,
\* or the handler it leads back from has ended.
Unlink(banks) ==
    /\ link' = [b \in Banks |-> IF b \in banks THEN "other" ELSE link[b]]
    /\ r14' = [b \in Banks |-> IF b \in banks THEN 0 ELSE r14[b]]
    /\ spsr' = [b \in Exceptional |-> IF b \in banks THEN Unknown ELSE spsr[b]]

\* SwitchMode writes CPSR over the SPSR of the bank that it changes to.
Spoilt(bank) == {b \in {bank} \ {cpsr.bank} : link[b] = "exception"}

\* In the system bank CPSR stands in for the SPSR.
GetSPSR == IF cpsr.bank = "SYS" THEN {cpsr}
           ELSE IF spsr[cpsr.bank] = Unknown THEN Status
           ELSE {spsr[cpsr.bank]}

\* R14 of the current bank is written.
SetLink(value, kind) ==
    /\ r14' = [r14 EXCEPT ![cpsr.bank] = value]
    /\ link' = [link EXCEPT ![cpsr.bank] = kind]
    /\ spsr' = [b \in Exceptional |-> IF b = cpsr.bank THEN Unknown ELSE spsr[b]]
-----------------------------------------------------------------------------
\* An instruction that does not write R15, or whose condition fails; it may
\* write R14.
Step == /\ free' = FALSE
        /\ Advance
        /\ \/ UNCHANGED <<spsr, r14, link>>
           \/ Unlink({cpsr.bank})
        /\ UNCHANGED cpsr

\* ArmBranch without L, ThumbCondBranch and ThumbUncondBranch.
Branch == \E offset \in Offsets :
             /\ free' = FALSE
             /\ Ahead + offset \in 0 .. Top
             /\ PipelineFlush(Ahead + offset, cpsr.thumb)
             /\ UNCHANGED <<cpsr, spsr, r14, link>>

\* DataProcessing, ArmSingleDataTransfer and ArmBlockDataTransfer into R15.
WriteR15 == \E target \in Targets :
               /\ free' = TRUE
               /\ PipelineFlush(target, cpsr.thumb)
               /\ UNCHANGED <<cpsr, spsr, r14, link>>

(* Mutant of ArmBranchAndExchange: the flush comes before the change of    *)
(* state.                                                                  *)
ArmBranchAndExchangeLate(target, computed) ==
    /\ free' = computed
    /\ cpsr' = [cpsr EXCEPT !.thumb = (target % 2 = 1)]
    /\ PipelineFlush(target, cpsr.thumb)
    /\ UNCHANGED <<spsr, r14, link>>
-----------------------------------------------------------------------------
ArmBranchAndExchange(target, computed) ==
    /\ free' = computed
    /\ cpsr' = [cpsr EXCEPT !.thumb = (target % 2 = 1)]
    /\ PipelineFlush(target, target % 2 = 1)
    /\ UNCHANGED <<spsr, r14, link>>

Exchange       == \E target \in Targets : ArmBranchAndExchange(target, TRUE)
ReturnFromCall == link[cpsr.bank] = "call" /\ ArmBranchAndExchange(r14[cpsr.bank], FALSE)

\* ArmBranch with L.
ArmBranchWithLink == \E offset \in Offsets :
                        /\ free' = TRUE
                        /\ ~cpsr.thumb /\ cpsr.bank \in Callers
                        /\ Ahead + offset \in 0 .. Top
                        /\ SetLink(Align(Ahead - 4, FALSE), "call")
                        /\ PipelineFlush(Ahead + offset, FALSE)
                        /\ UNCHANGED cpsr

\* The two halves of the Thumb call: an interrupt may come between them.
ThumbLongBranchLinkFirst == \E offset \in Offsets :
                               /\ free' = FALSE
                               /\ cpsr.thumb /\ cpsr.bank \in Callers
                               /\ Ahead + offset >= 0
                               /\ SetLink(Ahead + offset, "half")
                               /\ Advance
                               /\ UNCHANGED cpsr

ThumbLongBranchLinkSecond == \E offset \in Offsets :
                                /\ free' = TRUE
                                /\ link[cpsr.bank] = "half"
                                /\ cpsr.thumb
                                /\ r14[cpsr.bank] + offset \in 0 .. Top
                                /\ PipelineFlush(r14[cpsr.bank] + offset, TRUE)
                                /\ SetLink(Ahead - 1, "call")
                                /\ UNCHANGED cpsr
-----------------------------------------------------------------------------
Vector(bank) == CASE bank = "IRQ" -> 24 [] bank = "SVC" -> 8 [] bank = "UND" -> 4

\* In its own mode an exception saves no status.
Exception(bank, value) ==
    LET known == bank # cpsr.bank
    IN  /\ bank \in Banks
        /\ spsr' = [spsr EXCEPT ![bank] = IF known THEN cpsr ELSE Unknown]
        /\ cpsr' = [bank |-> bank, thumb |-> FALSE, irqDisable |-> TRUE]
        /\ r14' = [r14 EXCEPT ![bank] = IF known THEN value ELSE 0]
        /\ link' = [link EXCEPT ![bank] = IF known THEN "exception" ELSE "other"]
        /\ PipelineFlush(Vector(bank), FALSE)

(* Mutant of InterruptLink: no correction for Thumb.                       *)
InterruptLinkArmOnly == r15
-----------------------------------------------------------------------------
InterruptLink == r15 + (IF cpsr.thumb THEN 2 ELSE 0)

\* Instead of an instruction, when interruptReady.
HandleInterruptRequests == /\ free' = FALSE
                           /\ ~cpsr.irqDisable
                           /\ Exception("IRQ", InterruptLink)

Trap         == free' = FALSE /\ Ahead <= Top
ThumbSWI     == Trap /\ cpsr.thumb /\ Exception("SVC", Ahead - 2)
\* ArmSWI and ArmUndefined.
ArmTrap      == \E bank \in {"SVC", "UND"} :
                   Trap /\ ~cpsr.thumb /\ Exception(bank, Ahead - 4)

\* DataProcessing with S and R15, and ArmBlockDataTransfer with S and R15:
\* the status comes back first, so that the flush is in the state it brings.
RestoreStatus(target, computed) ==
    \E previousSPSR \in GetSPSR :
        /\ free' = computed
        /\ cpsr' = previousSPSR
        /\ Unlink(Spoilt(previousSPSR.bank)
                    \cup {b \in {cpsr.bank} : link[b] = "exception"})
        /\ PipelineFlush(target, previousSPSR.thumb)

\* A handler's last instruction: SUBS PC, LR, #4 after an interrupt, MOVS PC,
\* LR after the others.
HandlerOffset == IF cpsr.bank = "IRQ" THEN 4 ELSE 0
ReturnFromException == /\ link[cpsr.bank] = "exception"
                       /\ ~cpsr.thumb
                       /\ RestoreStatus(r14[cpsr.bank] - HandlerOffset, FALSE)

\* To another address; or by a comparison whose destination, or in Thumb
\* first operand, is R15: it restores the status and flushes, too, and the
\* instruction behind it is skipped.
Leave   == ~cpsr.thumb /\ \E target \in Targets : RestoreStatus(target, TRUE)
Compare == Ahead <= Top /\ RestoreStatus(Ahead, TRUE)

\* ArmMSR: CPSR is written, then SwitchMode called.
ArmMSR == \E status \in GuestStatus :
             /\ free' = FALSE
             /\ ~cpsr.thumb
             /\ ~status.thumb
             /\ Advance
             /\ cpsr' = status
             /\ Unlink(Spoilt(status.bank))
-----------------------------------------------------------------------------
Next == \/ Step
        \/ Branch \/ WriteR15 \/ Exchange
        \/ ArmBranchWithLink \/ ThumbLongBranchLinkFirst \/ ThumbLongBranchLinkSecond
        \/ ReturnFromCall
        \/ HandleInterruptRequests
        \/ ThumbSWI \/ ArmTrap
        \/ ReturnFromException \/ Leave \/ Compare
        \/ ArmMSR

Spec == Init /\ [][Next]_vars
-----------------------------------------------------------------------------
(* The pipeline holds the two instructions up to R15, fetched in the state *)
(* they will execute in: no flush is missing, doubled or in the wrong      *)
(* state, whatever changes the mode.                                       *)
FetchedAhead ==
    /\ r15 % Width(cpsr.thumb) = 0
    /\ pipeline = [k \in 0 .. 1 |->
                     Fetched(r15 - (1 - k) * Width(cpsr.thumb), cpsr.thumb)]

\* Where a link leads.
Led(b) == CASE link[b] = "call" -> [kind |-> "call", next |-> r14[b] - (r14[b] % 2),
                                    thumb |-> (r14[b] % 2 = 1)]
            [] link[b] = "exception" -> [kind |-> "exception",
                                         next |-> r14[b] - (IF b = "IRQ" THEN 4 ELSE 0),
                                         status |-> spsr[b]]
            [] OTHER -> Lost

Program == INSTANCE ProgramOrder WITH next <- pipeline[0].address, status <- cpsr,
                                      back <- [b \in Banks |-> Led(b)]

(* The program runs one instruction after the other, however it is fetched *)
(* ahead: a branch counts from where the program expects, a call returns   *)
(* behind it, an interrupt to the instruction it came before and a         *)
(* software interrupt behind itself, in the state and the mode they left.  *)
ImplementsProgramOrder == Program!Spec
=============================================================================
