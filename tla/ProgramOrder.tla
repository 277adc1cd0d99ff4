---------------------------- MODULE ProgramOrder ----------------------------
(***************************************************************************)
(* What the CPU promises a program: one instruction after another, and     *)
(* links that lead back.  There is no prefetch here: next is the address   *)
(* of the next instruction, and a link is the place it leads to.           *)
(***************************************************************************)
EXTENDS Integers

CONSTANTS
    Banks,     \* "SYS" and the exception modes
    Offsets,   \* of relative branches
    Lost       \* not a link

VARIABLES
    next,      \* the address of the next instruction
    status,    \* CPSR: bank, thumb, irqDisable
    back,      \* where the link of each bank leads, or Lost
    free       \* the last instruction went to an address it computed

vars == <<next, status, back, free>>

Status == [bank : Banks, thumb : BOOLEAN, irqDisable : BOOLEAN]

Width(thumb) == IF thumb THEN 2 ELSE 4
Align(address, thumb) == address - (address % Width(thumb))

After == next + Width(status.thumb)

Call(address, thumb)  == [kind |-> "call", next |-> address, thumb |-> thumb]
Interrupted(address)  == [kind |-> "exception", next |-> address, status |-> status]

Init == /\ next = 0
        /\ status \in {s \in Status : s.bank = "SYS"}
        /\ back = [b \in Banks |-> Lost]
        /\ free = FALSE

Link(bank, place) == back' = [back EXCEPT ![bank] = place]

\* An exception leads back only while its saved status is kept: a change to
\* its mode writes over it.
IsException(place) == place # Lost /\ place.kind = "exception"
Spoilt(bank) == {b \in {bank} \ {status.bank} : IsException(back[b])}
Unlink(banks) == back' = [b \in Banks |-> IF b \in banks THEN Lost ELSE back[b]]
-----------------------------------------------------------------------------
\* An instruction; it may put something else in the link register.
Step == /\ free' = FALSE
        /\ next' = After
        /\ UNCHANGED back \/ Link(status.bank, Lost)
        /\ UNCHANGED status

\* A relative branch counts from two instructions on.
Branch == \E offset \in Offsets :
             /\ free' = FALSE
             /\ next' = Align(After + Width(status.thumb) + offset, status.thumb)
             /\ UNCHANGED <<status, back>>

\* To an address that was computed or loaded, and perhaps to the other state.
Jump == /\ free' = TRUE
        /\ status' \in {status, [status EXCEPT !.thumb = TRUE], [status EXCEPT !.thumb = FALSE]}
        /\ next' = Align(next', status'.thumb)
        /\ UNCHANGED back

BranchWithLink == /\ free' = TRUE
                  /\ next' = Align(next', status.thumb)
                  /\ Link(status.bank, Call(After, status.thumb))
                  /\ UNCHANGED status

\* BX R14
ReturnFromCall == /\ free' = FALSE
                  /\ back[status.bank] # Lost
                  /\ back[status.bank].kind = "call"
                  /\ next' = back[status.bank].next
                  /\ status' = [status EXCEPT !.thumb = back[status.bank].thumb]
                  /\ UNCHANGED back

\* A second exception of the same mode has no status of its own to save.
Exception(bank, place) ==
    /\ next' = CASE bank = "IRQ" -> 24 [] bank = "SVC" -> 8 [] bank = "UND" -> 4
    /\ status' = [bank |-> bank, thumb |-> FALSE, irqDisable |-> TRUE]
    /\ Link(bank, IF bank = status.bank THEN Lost ELSE Interrupted(place))

Interrupt == free' = FALSE /\ ~status.irqDisable /\ Exception("IRQ", next)
Trap      == \E bank \in {"SVC", "UND"} : free' = FALSE /\ Exception(bank, After)

\* By the convention for the handlers of its mode.
ReturnFromException ==
    /\ free' = FALSE
    /\ IsException(back[status.bank])
    /\ next' = back[status.bank].next
    /\ status' = back[status.bank].status
    /\ Unlink({status.bank} \cup Spoilt(status'.bank))

\* By a status that is no exception's, or to another address.
Leave == /\ free' = TRUE
         /\ status' \in Status
         /\ IsException(back[status.bank]) => status' = back[status.bank].status
         /\ next' = Align(next', status'.thumb)
         /\ Unlink(Spoilt(status'.bank)
                     \cup {b \in {status.bank} : IsException(back[b])})

\* MSR, which does not change the state of the processor.
ChangeMode == /\ free' = FALSE
              /\ next' = After
              /\ status' \in Status
              /\ status'.thumb = status.thumb
              /\ Unlink(Spoilt(status'.bank))

Next == \/ Step \/ Branch \/ Jump
        \/ BranchWithLink \/ ReturnFromCall
        \/ Interrupt \/ Trap
        \/ ReturnFromException \/ Leave \/ ChangeMode

Spec == Init /\ [][Next]_vars
=============================================================================
