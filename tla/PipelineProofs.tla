--------------------------- MODULE PipelineProofs ---------------------------
(***************************************************************************)
(* The pipeline is always fetched ahead, and the CPU runs its program in   *)
(* order, for all addresses, branches and nested handlers.  Its arithmetic *)
(* is that of numbers of any length, the conditions order what was         *)
(* compared, and the shifter moves every bit to its place, for words of    *)
(* any width up to 32 bits and all operands.                               *)
(***************************************************************************)
EXTENDS Pipeline, Alu, WellFoundedInduction, TLAPS

Types ==
    /\ r15 \in Int
    /\ cpsr \in Status
    /\ spsr \in [Exceptional -> Status \cup {Unknown}]
    /\ r14 \in [Banks -> Int]
    /\ link \in [Banks -> Links]

Offset(b) == IF b = "IRQ" THEN 4 ELSE 0

(* What the R14 of a bank holds is an address of its kind: a flush to it   *)
(* does not align it any further.                                          *)
LinkHolds(b) ==
    /\ link[b] = "call" => r14[b] % 2 = 1 \/ r14[b] % 4 = 0
    /\ link[b] = "exception" =>
         /\ b \in Exceptional
         /\ spsr[b] \in Status
         /\ (r14[b] - Offset(b)) % Width(spsr[b].thumb) = 0

PipelineInv == /\ Types
               /\ FetchedAhead
               /\ \A b \in Banks : LinkHolds(b)

(* Aligned addresses are multiples of the width and stay what they are.    *)
LEMMA Aligned ==
  ASSUME NEW a \in Int, NEW t \in BOOLEAN
  PROVE  /\ Align(a, t) \in Int
         /\ Align(a, t) % Width(t) = 0
         /\ a % Width(t) = 0 => Align(a, t) = a
         /\ Program!Align(a, t) = Align(a, t)
         /\ Program!Width(t) = Width(t)
         /\ Width(t) \in {2, 4}
<1>1. CASE t
  <2>1. (a - (a % 2)) % 2 = 0
    OBVIOUS
  <2> QED
    BY <1>1, <2>1 DEF Align, Width, Program!Align, Program!Width
<1>2. CASE ~t
  <2>1. (a - (a % 4)) % 4 = 0
    OBVIOUS
  <2> QED
    BY <1>2, <2>1 DEF Align, Width, Program!Align, Program!Width
<1> QED
  BY <1>1, <1>2

(* A flush fetches the aligned target and what is behind it.               *)
LEMMA Flush ==
  ASSUME NEW target \in Int, NEW thumb \in BOOLEAN,
         cpsr'.thumb = thumb, PipelineFlush(target, thumb)
  PROVE  /\ FetchedAhead'
         /\ r15' \in Int
         /\ pipeline'[0].address = Align(target, thumb)
<1> DEFINE pc == Align(target, thumb)
           w  == Width(thumb)
<1>1. /\ pc \in Int /\ pc % w = 0 /\ w \in {2, 4}
  BY Aligned
<1>2. /\ r15' = pc + w
      /\ pipeline' = [k \in 0 .. 1 |-> Fetched(pc + k * w, thumb)]
  BY DEF PipelineFlush
<1> HIDE DEF pc, w
<1>3. (pc + w) % w = 0
  <2>1. CASE w = 2
    BY <1>1, <2>1
  <2>2. CASE w = 4
    BY <1>1, <2>2
  <2> QED
    BY <1>1, <2>1, <2>2
<1>4. \A k \in 0 .. 1 : pc + k * w = r15' - (1 - k) * w
  <2>1. pc + 0 * w = r15' - (1 - 0) * w /\ pc + 1 * w = r15' - (1 - 1) * w
    BY <1>1, <1>2
  <2> QED
    BY <2>1
<1>5. pipeline' = [k \in 0 .. 1 |-> Fetched(r15' - (1 - k) * w, thumb)]
  BY <1>2, <1>4
<1>6. pipeline'[0].address = pc
  BY <1>1, <1>2 DEF Fetched
<1> QED
  BY <1>1, <1>2, <1>3, <1>5, <1>6 DEF FetchedAhead, pc, w

(* An instruction that leaves R15 alone advances by one.                   *)
LEMMA Advances ==
  ASSUME Types, FetchedAhead, Advance, cpsr'.thumb = cpsr.thumb
  PROVE  /\ FetchedAhead'
         /\ r15' \in Int
         /\ pipeline'[0].address = r15
<1> DEFINE t == cpsr.thumb
           w == Width(t)
<1>1. /\ t \in BOOLEAN /\ r15 \in Int
  BY DEF Types, Status
<1>2. w \in {2, 4}
  BY <1>1, Aligned
<1>3. /\ r15' = r15 + w
      /\ pipeline' = [k \in 0 .. 1 |-> IF k = 0 THEN pipeline[1] ELSE Fetched(r15 + w, t)]
  BY DEF Advance, Ahead
<1>4. r15 % w = 0 /\ pipeline[1] = Fetched(r15 - (1 - 1) * w, t)
  BY DEF FetchedAhead
<1> HIDE DEF t, w
<1>5. pipeline[1] = Fetched(r15, t)
  BY <1>1, <1>2, <1>4
<1>6. (r15 + w) % w = 0
  <2>1. CASE w = 2
    BY <1>1, <1>4, <2>1
  <2>2. CASE w = 4
    BY <1>1, <1>4, <2>2
  <2> QED
    BY <1>2, <2>1, <2>2
<1>7. r15' - (1 - 0) * w = r15 /\ r15' - (1 - 1) * w = r15 + w
  BY <1>1, <1>2, <1>3
<1>8. pipeline' = [k \in 0 .. 1 |-> Fetched(r15' - (1 - k) * w, t)]
  BY <1>3, <1>5, <1>7
<1>9. pipeline'[0].address = r15
  BY <1>3, <1>5 DEF Fetched
<1> QED
  BY <1>1, <1>2, <1>3, <1>6, <1>8, <1>9 DEF FetchedAhead, t, w

(* Back is where the links lead, as the program sees it.                   *)
Back == [b \in Banks |-> Led(b)]

(* A link leads where R14 and the SPSR say.                                *)
LEMMA Leads ==
  ASSUME PipelineInv, NEW b \in Banks
  PROVE  /\ Back[b] = Led(b)
         /\ link[b] = "call" =>
              /\ Led(b) # Lost
              /\ Led(b).kind = "call"
              /\ Led(b).next = r14[b] - (r14[b] % 2)
              /\ Led(b).thumb = (r14[b] % 2 = 1)
         /\ link[b] = "exception" =>
              /\ Led(b) # Lost
              /\ Led(b).kind = "exception"
              /\ Led(b).next = r14[b] - Offset(b)
              /\ Led(b).status = spsr[b]
         /\ link[b] \notin {"call", "exception"} => Led(b) = Lost
         /\ Program!IsException(Back[b]) <=> link[b] = "exception"
<1>0. Back[b] = Led(b)
  BY DEF Back
<1>1. /\ r14[b] \in Int
      /\ LinkHolds(b)
  BY DEF PipelineInv, Types
<1>2. CASE link[b] = "call"
  <2>1. Led(b) = [kind |-> "call", next |-> r14[b] - (r14[b] % 2),
                  thumb |-> (r14[b] % 2 = 1)]
    BY <1>2 DEF Led
  <2>2. Led(b) \in [kind : {"call"}, next : Int, thumb : BOOLEAN]
    <3>1. r14[b] - (r14[b] % 2) \in Int /\ (r14[b] % 2 = 1) \in BOOLEAN
      BY <1>1
    <3> QED
      BY <2>1, <3>1
  <2>3. Led(b) # Lost
    BY <2>2, PipelineAssumption
  <2> QED
    BY <1>0, <1>2, <2>1, <2>3 DEF Program!IsException
<1>3. CASE link[b] = "exception"
  <2>1. Led(b) = [kind |-> "exception", next |-> r14[b] - Offset(b), status |-> spsr[b]]
    BY <1>3 DEF Led, Offset
  <2>2. Led(b) \in [kind : {"exception"}, next : Int, status : Status]
    <3>1. r14[b] - Offset(b) \in Int /\ spsr[b] \in Status
      BY <1>1, <1>3 DEF LinkHolds, Offset
    <3> QED
      BY <2>1, <3>1
  <2>3. Led(b) # Lost
    BY <2>2, PipelineAssumption
  <2> QED
    BY <1>0, <1>3, <2>1, <2>3 DEF Program!IsException
<1>4. CASE link[b] \notin {"call", "exception"}
  <2>1. Led(b) = Lost
    BY <1>4 DEF Led
  <2> QED
    BY <1>0, <1>4, <2>1 DEF Program!IsException
<1> QED
  BY <1>2, <1>3, <1>4

(* One link is written and the others lead where they did.                 *)
LEMMA OneLink ==
  ASSUME NEW bank \in Banks, NEW place, Led(bank)' = place,
         \A b \in Banks \ {bank} : Led(b)' = Led(b)
  PROVE  Program!Link(bank, place)
  BY DEF Program!Link

(* Unlinked banks lead nowhere and the others where they did.              *)
LEMMA Unlinked ==
  ASSUME PipelineInv, NEW banks \in SUBSET Banks, Unlink(banks)
  PROVE  /\ Program!Unlink(banks)
         /\ spsr' \in [Exceptional -> Status \cup {Unknown}]
         /\ r14' \in [Banks -> Int]
         /\ link' \in [Banks -> Links]
         /\ \A b \in Banks : LinkHolds(b)'
<1>1. ASSUME NEW b \in banks
      PROVE  link'[b] = "other" /\ Led(b)' = Lost
  BY <1>1 DEF Unlink, Led
<1>2. ASSUME NEW b \in Banks \ banks
      PROVE  /\ link'[b] = link[b]
             /\ r14'[b] = r14[b]
             /\ b \in Exceptional => spsr'[b] = spsr[b]
  BY <1>2 DEF Unlink
<1>3. ASSUME NEW b \in Banks \ banks
      PROVE  LinkHolds(b)' /\ Led(b)' = Led(b)
  <2>1. LinkHolds(b)
    BY DEF PipelineInv
  <2> QED
    BY <1>2, <2>1 DEF LinkHolds, Led
<1>4. \A b \in Banks : LinkHolds(b)'
  BY <1>1, <1>3 DEF LinkHolds
<1>5. Program!Unlink(banks)
  BY <1>1, <1>3 DEF Program!Unlink, Back
<1> QED
  BY <1>4, <1>5 DEF PipelineInv, Types, Unlink, Links, Exceptional

(* The two specifications agree on what a change of mode spoils.           *)
LEMMA SameSpoilt ==
  ASSUME PipelineInv, NEW bank \in Banks
  PROVE  /\ Program!Spoilt(bank) = Spoilt(bank)
         /\ Spoilt(bank) \subseteq Banks
  BY Leads DEF Program!Spoilt, Spoilt, Back

(* Where the program is.                                                   *)
LEMMA Here ==
  ASSUME PipelineInv
  PROVE  /\ cpsr \in Status /\ cpsr.bank \in Banks /\ cpsr.thumb \in BOOLEAN
         /\ r15 \in Int
         /\ pipeline[0].address = r15 - Width(cpsr.thumb)
         /\ Program!After = r15
         /\ Ahead = r15 + Width(cpsr.thumb) /\ Ahead \in Int
         /\ r15 % Width(cpsr.thumb) = 0
<1> DEFINE w == Width(cpsr.thumb)
<1>1. /\ cpsr \in Status /\ cpsr.bank \in Banks /\ cpsr.thumb \in BOOLEAN
      /\ r15 \in Int
  BY DEF PipelineInv, Types, Status
<1>2. w \in {2, 4} /\ Program!Width(cpsr.thumb) = w
  BY <1>1, Aligned
<1>3. pipeline[0] = Fetched(r15 - (1 - 0) * w, cpsr.thumb) /\ r15 % w = 0
  BY DEF PipelineInv, FetchedAhead
<1> HIDE DEF w
<1>4. pipeline[0].address = r15 - w
  BY <1>1, <1>2, <1>3 DEF Fetched
<1> QED
  BY <1>1, <1>2, <1>3, <1>4 DEF w, Program!After, Ahead

(* R14 is written with what is no link, or a call's.                       *)
LEMMA LinkSet ==
  ASSUME PipelineInv, NEW value \in Int, NEW kind \in {"call", "half", "other"},
         SetLink(value, kind), kind = "call" => value % 2 = 1 \/ value % 4 = 0
  PROVE  /\ spsr' \in [Exceptional -> Status \cup {Unknown}]
         /\ r14' \in [Banks -> Int]
         /\ link' \in [Banks -> Links]
         /\ \A b \in Banks : LinkHolds(b)'
         /\ kind # "call" => Program!Link(cpsr.bank, Lost)
         /\ kind = "call" =>
              Program!Link(cpsr.bank, [kind |-> "call", next |-> value - (value % 2),
                                       thumb |-> (value % 2 = 1)])
<1>0. PICK c \in Banks : c = cpsr.bank
  BY Here
<1>1. /\ r14 \in [Banks -> Int] /\ link \in [Banks -> Links]
      /\ spsr \in [Exceptional -> Status \cup {Unknown}]
  BY DEF PipelineInv, Types
<1>2. link'[c] = kind /\ r14'[c] = value
  BY <1>0, <1>1 DEF SetLink
<1>3. ASSUME NEW b \in Banks \ {c}
      PROVE  LinkHolds(b)' /\ Led(b)' = Led(b)
  <2>1. /\ link'[b] = link[b] /\ r14'[b] = r14[b]
        /\ b \in Exceptional => spsr'[b] = spsr[b]
    BY <1>0, <1>1 DEF SetLink
  <2>2. LinkHolds(b)
    BY DEF PipelineInv
  <2> QED
    BY <2>1, <2>2 DEF LinkHolds, Led
<1>4. LinkHolds(c)'
  BY <1>2 DEF LinkHolds
<1>5. kind # "call" => Led(c)' = Lost
  BY <1>2 DEF Led
<1>6. kind = "call" => Led(c)' = [kind |-> "call", next |-> value - (value % 2),
                                  thumb |-> (value % 2 = 1)]
  BY <1>2 DEF Led
<1>7. kind # "call" => Program!Link(c, Lost)
  BY <1>0, <1>3, <1>5, OneLink
<1>8. kind = "call" => Program!Link(c, [kind |-> "call", next |-> value - (value % 2),
                                        thumb |-> (value % 2 = 1)])
  BY <1>0, <1>3, <1>6, OneLink
<1>9. \A b \in Banks : LinkHolds(b)'
  BY <1>3, <1>4
<1>10. /\ spsr' \in [Exceptional -> Status \cup {Unknown}]
       /\ r14' \in [Banks -> Int]
       /\ link' \in [Banks -> Links]
  BY <1>1 DEF SetLink, Links
<1> QED
  BY <1>0, <1>7, <1>8, <1>9, <1>10

(* Links that do not change lead where they did.                           *)
LEMMA LinksKept ==
  ASSUME PipelineInv, UNCHANGED <<spsr, r14, link>>
  PROVE  /\ spsr' \in [Exceptional -> Status \cup {Unknown}]
         /\ r14' \in [Banks -> Int]
         /\ link' \in [Banks -> Links]
         /\ \A b \in Banks : LinkHolds(b)'
         /\ Back' = Back
  BY DEF PipelineInv, Types, LinkHolds, Back, Led

(* What a step has to keep, and what it has to be to the program.          *)
Kept == Types' /\ FetchedAhead' /\ \A b \in Banks : LinkHolds(b)'

LEMMA StepInOrder ==
  ASSUME PipelineInv, Step
  PROVE  Kept /\ Program!Step
<1>1. cpsr' = cpsr /\ Advance /\ free' = FALSE
  BY DEF Step
<1>2. Types /\ FetchedAhead
  BY DEF PipelineInv
<1>3. FetchedAhead' /\ r15' \in Int /\ pipeline'[0].address = r15
  BY <1>1, <1>2, Advances
<1>4. CASE UNCHANGED <<spsr, r14, link>>
  <2>1. Back' = Back
    BY <1>4, LinksKept
  <2> QED
    BY <1>1, <1>3, <1>4, <2>1, Here, LinksKept DEF Kept, Types, Program!Step, Back
<1>5. CASE Unlink({cpsr.bank})
  <2>1. PICK c \in Banks : c = cpsr.bank
    BY Here
  <2>2. Program!Unlink({c})
    BY <1>5, <2>1, Unlinked
  <2>3. Program!Link(c, Lost)
    BY <2>2 DEF Program!Unlink, Program!Link
  <2>4. Unlink({c})
    BY <1>5, <2>1
  <2> QED
    BY <1>1, <1>3, <2>1, <2>3, <2>4, Here, Unlinked DEF Kept, Types, Program!Step
<1> QED
  BY <1>4, <1>5 DEF Step

LEMMA BranchInOrder ==
  ASSUME PipelineInv, Branch
  PROVE  Kept /\ Program!Branch
<1>1. PICK offset \in Offsets : PipelineFlush(Ahead + offset, cpsr.thumb)
  BY DEF Branch
<1>2. Ahead + offset \in Int
  BY Here, PipelineAssumption
<1>3. cpsr' = cpsr /\ free' = FALSE /\ UNCHANGED <<spsr, r14, link>>
  BY DEF Branch
<1>4. /\ FetchedAhead' /\ r15' \in Int
      /\ pipeline'[0].address = Align(Ahead + offset, cpsr.thumb)
  <2>1. cpsr.thumb \in BOOLEAN
    BY Here
  <2>2. PICK t \in BOOLEAN : t = cpsr.thumb
    BY <2>1
  <2>3. PICK target \in Int : target = Ahead + offset
    BY <1>2
  <2>4. PipelineFlush(target, t) /\ cpsr'.thumb = t
    BY <1>1, <1>3, <2>2, <2>3
  <2> QED
    BY <2>2, <2>3, <2>4, Flush
<1>5. pipeline'[0].address =
         Program!Align(Program!After + Program!Width(cpsr.thumb) + offset, cpsr.thumb)
  BY <1>2, <1>4, Here, Aligned
<1>6. Back' = Back
  BY <1>3, LinksKept
<1>7. Program!Branch
  BY <1>3, <1>5, <1>6 DEF Program!Branch, Back
<1> QED
  BY <1>3, <1>4, <1>7, Here, LinksKept DEF Kept, Types

(* A flush to an address that has been computed, in the state of CPSR.     *)
LEMMA FlushAnywhere ==
  ASSUME NEW target \in Int, NEW thumb, thumb \in BOOLEAN,
         cpsr'.thumb = thumb, PipelineFlush(target, thumb)
  PROVE  /\ FetchedAhead'
         /\ r15' \in Int
         /\ pipeline'[0].address = Align(target, thumb)
         /\ pipeline'[0].address = Program!Align(pipeline'[0].address, thumb)
<1>1. /\ FetchedAhead'
      /\ r15' \in Int
      /\ pipeline'[0].address = Align(target, thumb)
  BY Flush
<1>2. Align(target, thumb) \in Int /\ Align(target, thumb) % Width(thumb) = 0
  BY Aligned
<1>3. Program!Align(Align(target, thumb), thumb) = Align(target, thumb)
  BY <1>2, Aligned
<1> QED
  BY <1>1, <1>3

LEMMA WriteR15InOrder ==
  ASSUME PipelineInv, WriteR15
  PROVE  Kept /\ Program!Jump
<1>1. PICK target \in Targets : PipelineFlush(target, cpsr.thumb)
  BY DEF WriteR15
<1>2. cpsr' = cpsr /\ free' = TRUE /\ UNCHANGED <<spsr, r14, link>>
  BY DEF WriteR15
<1>3. PICK t \in BOOLEAN : t = cpsr.thumb
  BY Here
<1>4. target \in Int
  BY PipelineAssumption
<1>5. /\ FetchedAhead' /\ r15' \in Int
      /\ pipeline'[0].address = Program!Align(pipeline'[0].address, t)
  BY <1>1, <1>2, <1>3, <1>4, FlushAnywhere
<1>6. Back' = Back
  BY <1>2, LinksKept
<1>7. Program!Jump
  BY <1>2, <1>3, <1>5, <1>6 DEF Program!Jump, Back
<1> QED
  BY <1>2, <1>5, <1>7, Here, LinksKept DEF Kept, Types

LEMMA ExchangeFlushes ==
  ASSUME PipelineInv, NEW target \in Int, NEW computed,
         ArmBranchAndExchange(target, computed)
  PROVE  /\ Kept
         /\ free' = computed
         /\ cpsr' = [cpsr EXCEPT !.thumb = (target % 2 = 1)]
         /\ Back' = Back
         /\ pipeline'[0].address = Align(target, target % 2 = 1)
         /\ pipeline'[0].address = Program!Align(pipeline'[0].address, target % 2 = 1)
<1>1. PICK t \in BOOLEAN : t = (target % 2 = 1)
  OBVIOUS
<1>2. /\ free' = computed /\ cpsr' = [cpsr EXCEPT !.thumb = t]
      /\ PipelineFlush(target, t) /\ UNCHANGED <<spsr, r14, link>>
  BY <1>1 DEF ArmBranchAndExchange
<1>3. cpsr' \in Status /\ cpsr'.thumb = t
  BY <1>2, Here DEF Status
<1>4. /\ FetchedAhead' /\ r15' \in Int
      /\ pipeline'[0].address = Align(target, t)
      /\ pipeline'[0].address = Program!Align(pipeline'[0].address, t)
  BY <1>2, <1>3, FlushAnywhere
<1> QED
  BY <1>1, <1>2, <1>3, <1>4, LinksKept DEF Kept, Types

LEMMA ExchangeInOrder ==
  ASSUME PipelineInv, Exchange
  PROVE  Kept /\ Program!Jump
<1>1. PICK target \in Targets : ArmBranchAndExchange(target, TRUE)
  BY DEF Exchange
<1>2. target \in Int
  BY PipelineAssumption
<1>3. PICK t \in BOOLEAN : t = (target % 2 = 1)
  OBVIOUS
<1>4. /\ Kept /\ free' = TRUE /\ Back' = Back
      /\ cpsr' = [cpsr EXCEPT !.thumb = t]
      /\ pipeline'[0].address = Program!Align(pipeline'[0].address, t)
  BY <1>1, <1>2, <1>3, ExchangeFlushes
<1>5. /\ cpsr' \in {cpsr, [cpsr EXCEPT !.thumb = TRUE], [cpsr EXCEPT !.thumb = FALSE]}
      /\ cpsr'.thumb = t
  BY <1>4, Here DEF Status
<1> QED
  BY <1>4, <1>5 DEF Program!Jump, Back

LEMMA ReturnFromCallInOrder ==
  ASSUME PipelineInv, ReturnFromCall
  PROVE  Kept /\ Program!ReturnFromCall
<1>1. PICK c \in Banks : c = cpsr.bank
  BY Here
<1>2. PICK target \in Int : target = r14[c]
  BY DEF PipelineInv, Types
<1>3. link[c] = "call" /\ ArmBranchAndExchange(target, FALSE)
  BY <1>1, <1>2 DEF ReturnFromCall
<1>4. /\ Kept /\ free' = FALSE /\ Back' = Back
      /\ cpsr' = [cpsr EXCEPT !.thumb = (target % 2 = 1)]
      /\ pipeline'[0].address = Align(target, target % 2 = 1)
  BY <1>3, ExchangeFlushes
<1>5. target % 2 = 1 \/ target % 4 = 0
  BY <1>2, <1>3 DEF PipelineInv, LinkHolds
<1>6. Align(target, target % 2 = 1) = target - (target % 2)
  BY <1>5 DEF Align, Width
<1>7. /\ Back[c] # Lost /\ Back[c].kind = "call"
      /\ Back[c].next = target - (target % 2)
      /\ Back[c].thumb = (target % 2 = 1)
  BY <1>2, <1>3, Leads
<1> QED
  BY <1>1, <1>4, <1>6, <1>7 DEF Program!ReturnFromCall, Back

LEMMA ArmBranchWithLinkInOrder ==
  ASSUME PipelineInv, ArmBranchWithLink
  PROVE  Kept /\ Program!BranchWithLink
<1>1. PICK offset \in Offsets : /\ SetLink(Align(Ahead - 4, FALSE), "call")
                                /\ PipelineFlush(Ahead + offset, FALSE)
  BY DEF ArmBranchWithLink
<1>2. ~cpsr.thumb /\ cpsr' = cpsr /\ free' = TRUE
  BY DEF ArmBranchWithLink
<1>3. PICK here \in Int : here = r15
  BY Here
<1>4. here % 4 = 0 /\ Ahead = here + 4 /\ Program!After = here
  BY <1>2, <1>3, Here DEF Width
<1>5. Align(Ahead - 4, FALSE) = here
  BY <1>4 DEF Align, Width
<1>6. SetLink(here, "call") /\ here % 2 = 0
  <2>1. SetLink(here, "call")
    BY <1>1, <1>5
  <2>2. here % 2 = 0
    BY <1>4
  <2> QED
    BY <2>1, <2>2
<1>7. Program!Link(cpsr.bank, [kind |-> "call", next |-> here, thumb |-> FALSE])
  <2>1. here - (here % 2) = here /\ (here % 2 = 1) = FALSE
    BY <1>6
  <2> QED
    BY <1>4, <1>6, <2>1, LinkSet
<1>8. PICK target \in Int : target = Ahead + offset
  BY <1>4, PipelineAssumption
<1>9. /\ FetchedAhead' /\ r15' \in Int
      /\ pipeline'[0].address = Program!Align(pipeline'[0].address, FALSE)
  <2>1. PICK t \in BOOLEAN : t = FALSE
    OBVIOUS
  <2>2. cpsr'.thumb = t
    BY <1>2, <2>1, Here
  <2>3. PipelineFlush(target, t)
    BY <1>1, <1>8, <2>1
  <2> QED
    BY <2>1, <2>2, <2>3, FlushAnywhere
<1>10. Program!BranchWithLink
  <2>1. cpsr.thumb = FALSE
    BY <1>2, Here
  <2> QED
    BY <1>2, <1>4, <1>7, <1>9, <2>1 DEF Program!BranchWithLink, Program!Call
<1> QED
  BY <1>2, <1>4, <1>6, <1>9, <1>10, Here, LinkSet DEF Kept, Types

LEMMA ThumbFirstInOrder ==
  ASSUME PipelineInv, ThumbLongBranchLinkFirst
  PROVE  Kept /\ Program!Step
<1>1. PICK offset \in Offsets : SetLink(Ahead + offset, "half")
  BY DEF ThumbLongBranchLinkFirst
<1>2. cpsr' = cpsr /\ Advance /\ free' = FALSE
  BY DEF ThumbLongBranchLinkFirst
<1>3. Types /\ FetchedAhead
  BY DEF PipelineInv
<1>4. FetchedAhead' /\ r15' \in Int /\ pipeline'[0].address = r15
  BY <1>2, <1>3, Advances
<1>5. PICK value \in Int : value = Ahead + offset
  BY Here, PipelineAssumption
<1>6. SetLink(value, "half")
  BY <1>1, <1>5
<1>7. Program!Link(cpsr.bank, Lost)
  BY <1>6, LinkSet
<1> QED
  BY <1>2, <1>4, <1>6, <1>7, Here, LinkSet DEF Kept, Types, Program!Step

LEMMA ThumbSecondInOrder ==
  ASSUME PipelineInv, ThumbLongBranchLinkSecond
  PROVE  Kept /\ Program!BranchWithLink
<1>1. PICK offset \in Offsets : PipelineFlush(r14[cpsr.bank] + offset, TRUE)
  BY DEF ThumbLongBranchLinkSecond
<1>2. /\ cpsr.thumb /\ cpsr' = cpsr /\ free' = TRUE
      /\ SetLink(Ahead - 1, "call")
  BY DEF ThumbLongBranchLinkSecond
<1>3. PICK here \in Int : here = r15
  BY Here
<1>4. here % 2 = 0 /\ Ahead = here + 2 /\ Program!After = here
  BY <1>2, <1>3, Here DEF Width
<1>5. PICK value \in Int : value = here + 1
  OBVIOUS
<1>6. /\ SetLink(value, "call")
      /\ value % 2 = 1 /\ value - (value % 2) = here
  <2>1. Ahead - 1 = value
    BY <1>4, <1>5
  <2>2. value % 2 = 1
    BY <1>4, <1>5
  <2> QED
    BY <1>2, <1>5, <2>1, <2>2
<1>7. Program!Link(cpsr.bank, [kind |-> "call", next |-> here, thumb |-> TRUE])
  <2>1. (value % 2 = 1) = TRUE
    BY <1>6
  <2> QED
    BY <1>6, <2>1, LinkSet
<1>8. PICK target \in Int : target = r14[cpsr.bank] + offset
  BY Here, PipelineAssumption DEF PipelineInv, Types
<1>9. /\ FetchedAhead' /\ r15' \in Int
      /\ pipeline'[0].address = Program!Align(pipeline'[0].address, TRUE)
  <2>1. PICK t \in BOOLEAN : t = TRUE
    OBVIOUS
  <2>2. cpsr'.thumb = t
    BY <1>2, <2>1, Here
  <2>3. PipelineFlush(target, t)
    BY <1>1, <1>8, <2>1
  <2> QED
    BY <2>1, <2>2, <2>3, FlushAnywhere
<1>10. Program!BranchWithLink
  <2>1. cpsr.thumb = TRUE
    BY <1>2, Here
  <2> QED
    BY <1>2, <1>4, <1>7, <1>9, <2>1 DEF Program!BranchWithLink, Program!Call
<1> QED
  BY <1>2, <1>6, <1>9, <1>10, Here, LinkSet DEF Kept, Types

(* The flush of an exception goes to its vector, and the link leads back   *)
(* to the place, with the status that was interrupted.                     *)
LEMMA ExceptionInOrder ==
  ASSUME PipelineInv, NEW bank \in {"IRQ", "SVC", "UND"},
         NEW value \in Int, NEW place \in Int, Exception(bank, value),
         place = value - Offset(bank), place % Width(cpsr.thumb) = 0
  PROVE  Kept /\ Program!Exception(bank, place)
<1>0. PICK c \in Banks : c = cpsr.bank
  BY Here
<1>1. bank \in Exceptional /\ bank \in Banks
  BY DEF Exception, Exceptional
<1>2. PICK target \in Int : target = Vector(bank) /\ target % 4 = 0
  BY DEF Vector
<1>3. cpsr' = [bank |-> bank, thumb |-> FALSE, irqDisable |-> TRUE]
  BY DEF Exception
<1>4. FetchedAhead' /\ r15' \in Int /\ pipeline'[0].address = target
  <2>1. PICK t \in BOOLEAN : t = FALSE
    OBVIOUS
  <2>2. PipelineFlush(target, t)
    BY <1>2, <2>1 DEF Exception
  <2>3. cpsr'.thumb = t
    BY <1>3, <2>1
  <2>4. FetchedAhead' /\ r15' \in Int /\ pipeline'[0].address = Align(target, t)
    BY <2>2, <2>3, FlushAnywhere
  <2>5. Align(target, t) = target
    BY <1>2, <2>1 DEF Align, Width
  <2> QED
    BY <2>4, <2>5
<1>5. /\ r14 \in [Banks -> Int] /\ link \in [Banks -> Links]
      /\ spsr \in [Exceptional -> Status \cup {Unknown}]
  BY DEF PipelineInv, Types
<1>6. /\ r14' \in [Banks -> Int] /\ link' \in [Banks -> Links]
      /\ spsr' \in [Exceptional -> Status \cup {Unknown}]
      /\ cpsr' \in Status
  <2>1. cpsr' \in Status
    BY <1>1, <1>3 DEF Status
  <2>2. r14' \in [Banks -> Int]
    BY <1>5 DEF Exception
  <2>3. link' \in [Banks -> Links]
    BY <1>5 DEF Exception, Links
  <2>4. spsr' \in [Exceptional -> Status \cup {Unknown}]
    <3>1. PICK s \in Status \cup {Unknown} :
            spsr' = [spsr EXCEPT ![bank] = s]
      BY <1>5, Here DEF Exception
    <3> QED
      BY <1>5, <3>1
  <2> QED
    BY <2>1, <2>2, <2>3, <2>4
<1>7. ASSUME NEW b \in Banks \ {bank}
      PROVE  LinkHolds(b)' /\ Led(b)' = Led(b)
  <2>1. /\ link'[b] = link[b] /\ r14'[b] = r14[b]
        /\ b \in Exceptional => spsr'[b] = spsr[b]
    BY <1>5, <1>7 DEF Exception
  <2>2. LinkHolds(b)
    BY DEF PipelineInv
  <2> QED
    BY <2>1, <2>2 DEF LinkHolds, Led
<1>8. CASE bank = c
  <2>1. link'[bank] = "other"
    BY <1>0, <1>1, <1>5, <1>8 DEF Exception
  <2>2. LinkHolds(bank)' /\ Led(bank)' = Lost
    BY <2>1 DEF LinkHolds, Led
  <2>3. Program!Link(bank, Lost)
    BY <1>1, <1>7, <2>2, OneLink
  <2> QED
    BY <1>0, <1>2, <1>3, <1>4, <1>6, <1>7, <1>8, <2>2, <2>3
    DEF Kept, Types, Program!Exception, Vector
<1>9. CASE bank # c
  <2>1. link'[bank] = "exception" /\ r14'[bank] = value /\ spsr'[bank] = cpsr
    BY <1>0, <1>1, <1>5, <1>9 DEF Exception
  <2>2. LinkHolds(bank)'
    <3>1. cpsr \in Status
      BY Here
    <3> QED
      BY <1>1, <2>1, <3>1 DEF LinkHolds
  <2>3. Led(bank)' = [kind |-> "exception", next |-> place, status |-> cpsr]
    <3>1. place = value - (IF bank = "IRQ" THEN 4 ELSE 0)
      BY DEF Offset
    <3> QED
      BY <2>1, <3>1 DEF Led
  <2>4. Program!Link(bank, [kind |-> "exception", next |-> place, status |-> cpsr])
    <3>1. PICK s : s = [kind |-> "exception", next |-> place, status |-> cpsr]
      OBVIOUS
    <3>2. Program!Link(bank, s)
      BY <1>1, <1>7, <2>3, <3>1, OneLink
    <3> QED
      BY <3>1, <3>2
  <2> QED
    BY <1>0, <1>2, <1>3, <1>4, <1>6, <1>7, <1>9, <2>2, <2>4
    DEF Kept, Types, Program!Exception, Program!Interrupted, Vector
<1> QED
  BY <1>8, <1>9

LEMMA InterruptInOrder ==
  ASSUME PipelineInv, HandleInterruptRequests
  PROVE  Kept /\ Program!Interrupt
<1>1. PICK value \in Int : value = InterruptLink
  BY Here DEF InterruptLink
<1>2. PICK place \in Int : place = r15 - Width(cpsr.thumb)
  BY Here DEF Width
<1>3. place = value - Offset("IRQ") /\ place % Width(cpsr.thumb) = 0
  <2>1. place = value - Offset("IRQ")
    BY <1>1, <1>2, Here DEF InterruptLink, Offset, Width
  <2>2. PICK here \in Int : here = r15
    BY Here
  <2>3. CASE cpsr.thumb
    <3>1. Width(cpsr.thumb) = 2 /\ here % 2 = 0 /\ place = here - 2
      BY <1>2, <2>2, <2>3, Here DEF Width
    <3>2. place % 2 = 0
      BY <3>1
    <3> QED
      BY <2>1, <3>1, <3>2
  <2>4. CASE ~cpsr.thumb
    <3>1. Width(cpsr.thumb) = 4 /\ here % 4 = 0 /\ place = here - 4
      BY <1>2, <2>2, <2>4, Here DEF Width
    <3>2. place % 4 = 0
      BY <3>1
    <3> QED
      BY <2>1, <3>1, <3>2
  <2> QED
    BY <2>3, <2>4
<1>4. free' = FALSE /\ ~cpsr.irqDisable /\ Exception("IRQ", value)
  BY <1>1 DEF HandleInterruptRequests
<1>5. Kept /\ Program!Exception("IRQ", place)
  BY <1>3, <1>4, ExceptionInOrder
<1> QED
  BY <1>2, <1>4, <1>5, Here DEF Program!Interrupt

LEMMA TrapInOrder ==
  ASSUME PipelineInv, ThumbSWI \/ ArmTrap
  PROVE  Kept /\ Program!Trap
<1>1. PICK place \in Int : place = r15
  BY Here
<1>2. free' = FALSE
  BY DEF ThumbSWI, ArmTrap, Trap
<1>3. PICK bank \in {"SVC", "UND"} : Exception(bank, place)
  <2>1. CASE ThumbSWI
    <3>1. Exception("SVC", Ahead - 2) /\ cpsr.thumb
      BY <2>1 DEF ThumbSWI
    <3>2. Ahead - 2 = place
      BY <1>1, <3>1, Here DEF Width
    <3> QED
      BY <3>1, <3>2
  <2>2. CASE ArmTrap
    <3>1. PICK bank \in {"SVC", "UND"} : Exception(bank, Ahead - 4)
      BY <2>2 DEF ArmTrap
    <3>2. ~cpsr.thumb
      BY <2>2 DEF ArmTrap
    <3>3. Ahead - 4 = place
      BY <1>1, <3>2, Here DEF Width
    <3> QED
      BY <3>1, <3>3
  <2> QED
    BY <2>1, <2>2
<1>4. place = place - Offset(bank) /\ place % Width(cpsr.thumb) = 0
  BY <1>1, Here DEF Offset
<1>5. Kept /\ Program!Exception(bank, place)
  BY <1>3, <1>4, ExceptionInOrder
<1> QED
  BY <1>1, <1>2, <1>5, Here DEF Program!Trap

(* The status comes back, and the flush is in the state it brings.         *)
LEMMA StatusRestored ==
  ASSUME PipelineInv, NEW target \in Int, NEW computed,
         RestoreStatus(target, computed)
  PROVE  /\ Kept
         /\ free' = computed
         /\ cpsr' \in Status
         /\ link[cpsr.bank] = "exception" => cpsr' = spsr[cpsr.bank]
         /\ Program!Unlink(Program!Spoilt(cpsr'.bank)
                 \cup {b \in {cpsr.bank} : Program!IsException(Back[b])})
         /\ pipeline'[0].address = Align(target, cpsr'.thumb)
         /\ pipeline'[0].address = Program!Align(pipeline'[0].address, cpsr'.thumb)
<1>1. PICK c \in Banks : c = cpsr.bank
  BY Here
<1>2. PICK p \in GetSPSR :
        /\ free' = computed
        /\ cpsr' = p
        /\ Unlink(Spoilt(p.bank) \cup {b \in {cpsr.bank} : link[b] = "exception"})
        /\ PipelineFlush(target, p.thumb)
  BY DEF RestoreStatus
<1>3. spsr \in [Exceptional -> Status \cup {Unknown}]
  BY DEF PipelineInv, Types
<1>4. p \in Status
  BY <1>2, <1>3, Here DEF GetSPSR, Exceptional
<1>5. link[c] = "exception" => p = spsr[c]
  <2>1. ASSUME link[c] = "exception"
        PROVE  c \in Exceptional /\ spsr[c] \in Status
    BY <2>1 DEF PipelineInv, LinkHolds
  <2> QED
    BY <1>1, <1>2, <2>1, PipelineAssumption DEF GetSPSR, Exceptional
<1>6. PICK banks \in SUBSET Banks :
        banks = Spoilt(p.bank) \cup {b \in {c} : link[b] = "exception"}
  BY <1>4, SameSpoilt DEF Status
<1>7. banks = Program!Spoilt(p.bank) \cup {b \in {c} : Program!IsException(Back[b])}
  BY <1>4, <1>6, SameSpoilt, Leads DEF Status
<1>8. Unlink(banks)
  BY <1>1, <1>2, <1>6
<1>9. Program!Unlink(banks)
  BY <1>8, Unlinked
<1>10. PICK t \in BOOLEAN : t = p.thumb
  BY <1>4 DEF Status
<1>11. /\ FetchedAhead' /\ r15' \in Int
       /\ pipeline'[0].address = Align(target, t)
       /\ pipeline'[0].address = Program!Align(pipeline'[0].address, t)
  <2>1. cpsr'.thumb = t /\ PipelineFlush(target, t)
    BY <1>2, <1>10
  <2> QED
    BY <2>1, FlushAnywhere
<1>12. Kept
  BY <1>2, <1>4, <1>8, <1>11, Unlinked DEF Kept, Types
<1> QED
  BY <1>1, <1>2, <1>4, <1>5, <1>7, <1>9, <1>10, <1>11, <1>12

LEMMA ReturnFromExceptionInOrder ==
  ASSUME PipelineInv, ReturnFromException
  PROVE  Kept /\ Program!ReturnFromException
<1>1. PICK c \in Banks : c = cpsr.bank
  BY Here
<1>2. r14 \in [Banks -> Int]
  BY DEF PipelineInv, Types
<1>3. PICK target \in Int : target = r14[c] - Offset(c)
  BY <1>2 DEF Offset
<1>4. link[c] = "exception" /\ RestoreStatus(target, FALSE)
  BY <1>1, <1>3 DEF ReturnFromException, HandlerOffset, Offset
<1>5. /\ Kept /\ free' = FALSE
      /\ cpsr' = spsr[c]
      /\ Program!Unlink(Program!Spoilt(cpsr'.bank)
                 \cup {b \in {c} : Program!IsException(Back[b])})
      /\ pipeline'[0].address = Align(target, cpsr'.thumb)
  BY <1>1, <1>4, StatusRestored
<1>6. /\ Program!IsException(Back[c])
      /\ Back[c].next = target
      /\ Back[c].status = spsr[c]
  BY <1>3, <1>4, Leads
<1>7. Align(target, spsr[c].thumb) = target
  <2>1. spsr[c] \in Status /\ target % Width(spsr[c].thumb) = 0
    BY <1>3, <1>4 DEF PipelineInv, LinkHolds
  <2> QED
    BY <2>1, Aligned DEF Status
<1>8. Program!Unlink({c} \cup Program!Spoilt(cpsr'.bank))
  <2>1. {b \in {c} : Program!IsException(Back[b])} = {c}
    BY <1>6
  <2>2. Program!Spoilt(cpsr'.bank) \cup {c} = {c} \cup Program!Spoilt(cpsr'.bank)
    OBVIOUS
  <2> QED
    BY <1>5, <2>1, <2>2
<1> QED
  BY <1>1, <1>5, <1>6, <1>7, <1>8 DEF Program!ReturnFromException, Back

LEMMA LeaveInOrder ==
  ASSUME PipelineInv, Leave \/ Compare
  PROVE  Kept /\ Program!Leave
<1>1. PICK target \in Int : RestoreStatus(target, TRUE)
  <2>1. CASE Leave
    <3>1. PICK target \in Targets : RestoreStatus(target, TRUE)
      BY <2>1 DEF Leave
    <3>2. target \in Int
      BY PipelineAssumption
    <3> QED
      BY <3>1, <3>2
  <2>2. CASE Compare
    <3>1. PICK target \in Int : target = Ahead
      BY Here
    <3>2. RestoreStatus(target, TRUE)
      BY <2>2, <3>1 DEF Compare
    <3> QED
      BY <3>2
  <2> QED
    BY <2>1, <2>2
<1>2. PICK c \in Banks : c = cpsr.bank
  BY Here
<1>3. /\ Kept /\ free' = TRUE
      /\ cpsr' \in Status
      /\ link[c] = "exception" => cpsr' = spsr[c]
      /\ Program!Unlink(Program!Spoilt(cpsr'.bank)
                 \cup {b \in {c} : Program!IsException(Back[b])})
      /\ pipeline'[0].address = Program!Align(pipeline'[0].address, cpsr'.thumb)
  BY <1>1, <1>2, StatusRestored
<1>4. Program!IsException(Back[c]) => cpsr' = Back[c].status
  BY <1>3, Leads
<1> QED
  BY <1>2, <1>3, <1>4 DEF Program!Leave, Program!Status, Status, Back

LEMMA ArmMSRInOrder ==
  ASSUME PipelineInv, ArmMSR
  PROVE  Kept /\ Program!ChangeMode
<1>1. PICK status \in Status : cpsr' = status /\ ~status.thumb /\ Unlink(Spoilt(status.bank))
  BY PipelineAssumption DEF ArmMSR
<1>2. free' = FALSE /\ ~cpsr.thumb /\ Advance
  BY DEF ArmMSR
<1>3. cpsr'.thumb = cpsr.thumb
  BY <1>1, <1>2, Here DEF Status
<1>4. Types /\ FetchedAhead
  BY DEF PipelineInv
<1>5. FetchedAhead' /\ r15' \in Int /\ pipeline'[0].address = r15
  BY <1>2, <1>3, <1>4, Advances
<1>6. PICK banks \in SUBSET Banks : banks = Spoilt(status.bank)
  BY SameSpoilt DEF Status
<1>7. Unlink(banks) /\ banks = Program!Spoilt(status.bank)
  BY <1>1, <1>6, SameSpoilt DEF Status
<1>8. Program!Unlink(banks)
  BY <1>7, Unlinked
<1>9. Kept
  BY <1>1, <1>5, <1>7, Unlinked DEF Kept, Types
<1> QED
  BY <1>1, <1>2, <1>3, <1>5, <1>7, <1>8, <1>9, Here
  DEF Program!ChangeMode, Program!Status, Status

(* Reset's flush starts the pipeline.                                      *)
LEMMA StartsInOrder ==
  ASSUME Init
  PROVE  PipelineInv /\ Program!Init
<1>1. PICK t \in BOOLEAN : t = cpsr.thumb
  BY DEF Init, Status
<1>2. Width(t) \in {2, 4} /\ r15 = Width(t)
  BY <1>1 DEF Init, Width
<1>3. \A k \in 0 .. 1 : k * Width(t) = r15 - (1 - k) * Width(t)
  <2>1. 0 * Width(t) = r15 - (1 - 0) * Width(t) /\ 1 * Width(t) = r15 - (1 - 1) * Width(t)
    BY <1>2
  <2> QED
    BY <2>1
<1>4. pipeline = [k \in 0 .. 1 |-> Fetched(k * Width(t), t)]
  BY <1>1 DEF Init
<1>5. pipeline[0].address = 0
  BY <1>2, <1>4 DEF Fetched
<1>6. FetchedAhead
  <2>1. r15 % Width(t) = 0
    BY <1>2
  <2>2. pipeline = [k \in 0 .. 1 |-> Fetched(r15 - (1 - k) * Width(t), t)]
    BY <1>3, <1>4
  <2> QED
    BY <1>1, <2>1, <2>2 DEF FetchedAhead
<1>7. \A b \in Banks : LinkHolds(b) /\ Led(b) = Lost
  BY DEF Init, LinkHolds, Led
<1>8. Types
  BY <1>2 DEF Init, Types, Links, Status
<1> QED
  BY <1>5, <1>6, <1>7, <1>8 DEF Init, PipelineInv, Program!Init, Program!Status, Status

LEMMA StaysInOrder ==
  ASSUME PipelineInv, [Next]_vars
  PROVE  PipelineInv' /\ [Program!Next]_(Program!vars)
<1>1. CASE UNCHANGED vars
  <2>1. UNCHANGED <<r15, pipeline, cpsr, spsr, r14, link, free>>
    BY <1>1 DEF vars
  <2>2. Kept /\ Back' = Back
    BY <2>1, LinksKept DEF Kept, PipelineInv, Types, FetchedAhead
  <2> QED
    BY <2>1, <2>2 DEF Kept, PipelineInv, Program!vars, Back
<1>2. CASE Next
  <2>1. Kept /\ Program!Next
    BY <1>2, StepInOrder, BranchInOrder, WriteR15InOrder, ExchangeInOrder,
       ArmBranchWithLinkInOrder, ThumbFirstInOrder, ThumbSecondInOrder,
       ReturnFromCallInOrder, InterruptInOrder, TrapInOrder,
       ReturnFromExceptionInOrder, LeaveInOrder, ArmMSRInOrder
    DEF Next, Program!Next
  <2> QED
    BY <2>1 DEF Kept, PipelineInv
<1> QED
  BY <1>1, <1>2

(* Whatever branches, changes state or mode or is interrupted, the         *)
(* pipeline holds the two instructions up to R15, fetched in the state     *)
(* they execute in: PipelineFlush is called once wherever it has to be.    *)
THEOREM PipelineFetched == Spec => []FetchedAhead
<1>1. Init => PipelineInv
  BY StartsInOrder
<1>2. PipelineInv /\ [Next]_vars => PipelineInv'
  BY StaysInOrder
<1>3. PipelineInv => FetchedAhead
  BY DEF PipelineInv
<1> QED
  BY <1>1, <1>2, <1>3, PTL DEF Spec

(* The prefetching CPU runs every program in the order of ProgramOrder:    *)
(* calls, interrupts and software interrupts return where they should,     *)
(* for all addresses, nestings and changes of state.                       *)
THEOREM RunsInOrder == Spec => ImplementsProgramOrder
<1>1. Init => PipelineInv /\ Program!Init
  BY StartsInOrder
<1>2. PipelineInv /\ [Next]_vars => PipelineInv' /\ [Program!Next]_(Program!vars)
  BY StaysInOrder
<1> QED
  BY <1>1, <1>2, PTL DEF Spec, ImplementsProgramOrder, Program!Spec

-----------------------------------------------------------------------------
(* How the operators below count a carry, and read a word with its sign.   *)
One(bit)     == IF bit THEN 1 ELSE 0
HalfRange    == Range \div 2
WithSign(a)  == IF Sign(a) THEN a - Range ELSE a
OutOfSign(k) == k >= HalfRange \/ k < -HalfRange

(* The powers of two, written out for the provers.                         *)
LEMMA Doubled ==
    ASSUME NEW k \in 1 .. 32
    PROVE  2 ^ (k - 1) \in Nat /\ 2 ^ (k - 1) >= 1 /\ 2 ^ k = 2 * 2 ^ (k - 1)
<1>1. CASE k = 1 BY <1>1, 2 ^ 1 = 2, 2 ^ 0 = 1, SMT
<1>2. CASE k = 2 BY <1>2, 2 ^ 2 = 4, 2 ^ 1 = 2, SMT
<1>3. CASE k = 3 BY <1>3, 2 ^ 3 = 8, 2 ^ 2 = 4, SMT
<1>4. CASE k = 4 BY <1>4, 2 ^ 4 = 16, 2 ^ 3 = 8, SMT
<1>5. CASE k = 5 BY <1>5, 2 ^ 5 = 32, 2 ^ 4 = 16, SMT
<1>6. CASE k = 6 BY <1>6, 2 ^ 6 = 64, 2 ^ 5 = 32, SMT
<1>7. CASE k = 7 BY <1>7, 2 ^ 7 = 128, 2 ^ 6 = 64, SMT
<1>8. CASE k = 8 BY <1>8, 2 ^ 8 = 256, 2 ^ 7 = 128, SMT
<1>9. CASE k = 9 BY <1>9, 2 ^ 9 = 512, 2 ^ 8 = 256, SMT
<1>10. CASE k = 10 BY <1>10, 2 ^ 10 = 1024, 2 ^ 9 = 512, SMT
<1>11. CASE k = 11 BY <1>11, 2 ^ 11 = 2048, 2 ^ 10 = 1024, SMT
<1>12. CASE k = 12 BY <1>12, 2 ^ 12 = 4096, 2 ^ 11 = 2048, SMT
<1>13. CASE k = 13 BY <1>13, 2 ^ 13 = 8192, 2 ^ 12 = 4096, SMT
<1>14. CASE k = 14 BY <1>14, 2 ^ 14 = 16384, 2 ^ 13 = 8192, SMT
<1>15. CASE k = 15 BY <1>15, 2 ^ 15 = 32768, 2 ^ 14 = 16384, SMT
<1>16. CASE k = 16 BY <1>16, 2 ^ 16 = 65536, 2 ^ 15 = 32768, SMT
<1>17. CASE k = 17 BY <1>17, 2 ^ 17 = 131072, 2 ^ 16 = 65536, SMT
<1>18. CASE k = 18 BY <1>18, 2 ^ 18 = 262144, 2 ^ 17 = 131072, SMT
<1>19. CASE k = 19 BY <1>19, 2 ^ 19 = 524288, 2 ^ 18 = 262144, SMT
<1>20. CASE k = 20 BY <1>20, 2 ^ 20 = 1048576, 2 ^ 19 = 524288, SMT
<1>21. CASE k = 21 BY <1>21, 2 ^ 21 = 2097152, 2 ^ 20 = 1048576, SMT
<1>22. CASE k = 22 BY <1>22, 2 ^ 22 = 4194304, 2 ^ 21 = 2097152, SMT
<1>23. CASE k = 23 BY <1>23, 2 ^ 23 = 8388608, 2 ^ 22 = 4194304, SMT
<1>24. CASE k = 24 BY <1>24, 2 ^ 24 = 16777216, 2 ^ 23 = 8388608, SMT
<1>25. CASE k = 25 BY <1>25, 2 ^ 25 = 33554432, 2 ^ 24 = 16777216, SMT
<1>26. CASE k = 26 BY <1>26, 2 ^ 26 = 67108864, 2 ^ 25 = 33554432, SMT
<1>27. CASE k = 27 BY <1>27, 2 ^ 27 = 134217728, 2 ^ 26 = 67108864, SMT
<1>28. CASE k = 28 BY <1>28, 2 ^ 28 = 268435456, 2 ^ 27 = 134217728, SMT
<1>29. CASE k = 29 BY <1>29, 2 ^ 29 = 536870912, 2 ^ 28 = 268435456, SMT
<1>30. CASE k = 30 BY <1>30, 2 ^ 30 = 1073741824, 2 ^ 29 = 536870912, SMT
<1>31. CASE k = 31 BY <1>31, 2 ^ 31 = 2147483648, 2 ^ 30 = 1073741824, SMT
<1>32. CASE k = 32 BY <1>32, 2 ^ 32 = 4294967296, 2 ^ 31 = 2147483648, SMT
<1> QED BY <1>1, <1>2, <1>3, <1>4, <1>5, <1>6, <1>7, <1>8,
           <1>9, <1>10, <1>11, <1>12, <1>13, <1>14, <1>15, <1>16,
           <1>17, <1>18, <1>19, <1>20, <1>21, <1>22, <1>23, <1>24,
           <1>25, <1>26, <1>27, <1>28, <1>29, <1>30, <1>31, <1>32

LEMMA PowersOfTwo ==
    ASSUME NEW k \in 0 .. 32
    PROVE  2 ^ k \in Nat /\ 2 ^ k >= 1
<1>1. CASE k = 0 BY <1>1, 2 ^ 0 = 1
<1>2. CASE k \in 1 .. 32
  <2>1. 2 ^ (k - 1) \in Nat /\ 2 ^ (k - 1) >= 1 /\ 2 ^ k = 2 * 2 ^ (k - 1)
    BY <1>2, Doubled
  <2> QED BY <2>1
<1> QED BY <1>1, <1>2

LEMMA HalfOfRange ==
    /\ Range \in Nat
    /\ HalfRange \in Nat
    /\ HalfRange >= 1
    /\ Range = 2 * HalfRange
<1> DEFINE h == 2 ^ (WordBits - 1)
<1>1. h \in Nat /\ h >= 1 /\ Range = 2 * h
  BY AluAssumption, Doubled DEF Range
<1> HIDE DEF h
<1> QED BY <1>1 DEF HalfRange

LEMMA SignIs ==
    ASSUME NEW a \in Words
    PROVE  /\ a \in Int /\ a >= 0 /\ a < Range
           /\ Sign(a) \in BOOLEAN
           /\ Sign(a) <=> a >= HalfRange
           /\ WithSign(a) \in Int
           /\ WithSign(a) >= -HalfRange /\ WithSign(a) < HalfRange
BY HalfOfRange DEF Words, Sign, HalfRange, WithSign

(* Of a number less than twice the range away, the remainder is the one    *)
(* word that differs by the range or not at all.                           *)
LEMMA Remainders ==
    ASSUME NEW n \in Nat, n > 0, NEW a \in 0 .. n - 1
    PROVE  /\ a % n = a
           /\ (a + n) % n = a
           /\ (a - n) % n = a
OBVIOUS

LEMMA Wrapped ==
    ASSUME NEW k \in Int, k >= -Range, k < 2 * Range
    PROVE  /\ k % Range \in Words
           /\ k % Range = IF k >= Range THEN k - Range
                          ELSE IF k >= 0 THEN k ELSE k + Range
<1>1. CASE k >= Range
  <2>1. k - Range \in 0 .. Range - 1 /\ (k - Range) + Range = k /\ Range > 0
    BY <1>1, HalfOfRange
  <2>2. k % Range = k - Range
    BY <2>1, HalfOfRange, Remainders
  <2> QED BY <1>1, <2>1, <2>2 DEF Words
<1>2. CASE k >= 0 /\ k < Range
  <2>1. k \in 0 .. Range - 1 /\ Range > 0
    BY <1>2, HalfOfRange
  <2>2. k % Range = k
    BY <2>1, HalfOfRange, Remainders
  <2> QED BY <1>2, <2>1, <2>2, HalfOfRange DEF Words
<1>3. CASE k < 0
  <2>1. k + Range \in 0 .. Range - 1 /\ (k + Range) - Range = k /\ Range > 0
    BY <1>3, HalfOfRange
  <2>2. k % Range = k + Range
    BY <2>1, HalfOfRange, Remainders
  <2> QED BY <1>3, <2>1, <2>2, HalfOfRange DEF Words
<1> QED BY <1>1, <1>2, <1>3, HalfOfRange

-----------------------------------------------------------------------------
(* One word of a sum, with the carry that comes in, and one of a           *)
(* difference, where a missing carry is a borrow.                          *)
IsSum(r, a, b, carry) ==
    /\ r.value \in Words
    /\ r.carry \in BOOLEAN
    /\ r.overflow \in BOOLEAN
    /\ r.value + Range * One(r.carry) = a + b + One(carry)
    /\ r.overflow <=> OutOfSign(WithSign(a) + WithSign(b) + One(carry))

IsDifference(r, a, b, carry) ==
    /\ r.value \in Words
    /\ r.carry \in BOOLEAN
    /\ r.overflow \in BOOLEAN
    /\ r.value - Range * One(~r.carry) = a - b - One(~carry)
    /\ r.overflow <=> OutOfSign(WithSign(a) - WithSign(b) - One(~carry))

LEMMA IsComputed ==
    ASSUME NEW value, NEW carry, NEW overflow
    PROVE  /\ Computed(value, carry, overflow).value = value
           /\ Computed(value, carry, overflow).carry = carry
           /\ Computed(value, carry, overflow).overflow = overflow
BY DEF Computed

LEMMA AddIs ==
    ASSUME NEW a \in Words, NEW b \in Words
    PROVE  IsSum(Add(a, b), a, b, FALSE)
<1> DEFINE dest == (a + b) % Range
           over == Sign(a) = Sign(b) /\ Sign(a) # Sign(dest)
           r    == Computed(dest, a + b >= Range, over)
<1>1. dest \in Words /\ dest = IF a + b >= Range THEN (a + b) - Range ELSE a + b
  <2> DEFINE k == a + b
  <2>1. k \in Int /\ k >= 0 /\ k >= -Range /\ k < 2 * Range
    BY SignIs, HalfOfRange
  <2> HIDE DEF k
  <2>2. k % Range \in Words /\ k % Range = IF k >= Range THEN k - Range ELSE k
    BY <2>1, Wrapped
  <2> QED BY <2>2 DEF k
<1>2. Add(a, b) = r
  BY DEF Add
<1> HIDE DEF dest
<1>3. dest + Range * One(a + b >= Range) = a + b + One(FALSE)
  BY <1>1, SignIs, HalfOfRange DEF One
<1>4. over <=> OutOfSign(WithSign(a) + WithSign(b) + One(FALSE))
  BY <1>1, SignIs, HalfOfRange DEF OutOfSign, WithSign, One
<1>5. r.value = dest /\ r.carry = (a + b >= Range) /\ r.overflow = over
  BY IsComputed
<1>6. (a + b >= Range) \in BOOLEAN /\ over \in BOOLEAN
  OBVIOUS
<1> HIDE DEF r, over
<1> QED BY <1>1, <1>2, <1>3, <1>4, <1>5, <1>6, Zenon DEF IsSum

LEMMA SubtractIs ==
    ASSUME NEW a \in Words, NEW b \in Words
    PROVE  IsDifference(Subtract(a, b), a, b, TRUE)
<1> DEFINE dest == (a - b) % Range
           over == Sign(a) # Sign(b) /\ Sign(b) = Sign(dest)
           r    == Computed(dest, a >= b, over)
<1>1. dest \in Words /\ dest = IF a >= b THEN a - b ELSE a - b + Range
  <2> DEFINE k == a - b
  <2>1. /\ k \in Int /\ k >= -Range /\ k < Range /\ k < 2 * Range
        /\ a >= b <=> k >= 0
    BY SignIs, HalfOfRange
  <2> HIDE DEF k
  <2>2. k % Range \in Words /\ k % Range = IF k >= 0 THEN k ELSE k + Range
    <3>1. /\ k % Range \in Words
          /\ k % Range = IF k >= Range THEN k - Range
                         ELSE IF k >= 0 THEN k ELSE k + Range
      BY <2>1, Wrapped
    <3>2. ~(k >= Range)
      BY <2>1, HalfOfRange
    <3> QED BY <3>1, <3>2
  <2> QED BY <2>1, <2>2, SignIs, HalfOfRange DEF k
<1>2. Subtract(a, b) = r
  BY DEF Subtract
<1> HIDE DEF dest
<1>3. dest - Range * One(~(a >= b)) = a - b - One(~TRUE)
  BY <1>1, SignIs, HalfOfRange DEF One
<1>4. over <=> OutOfSign(WithSign(a) - WithSign(b) - One(~TRUE))
  BY <1>1, SignIs, HalfOfRange DEF OutOfSign, WithSign, One
<1>5. r.value = dest /\ r.carry = (a >= b) /\ r.overflow = over
  BY IsComputed
<1>6. (a >= b) \in BOOLEAN /\ over \in BOOLEAN
  OBVIOUS
<1> HIDE DEF r, over
<1> QED BY <1>1, <1>2, <1>3, <1>4, <1>5, <1>6, Zenon DEF IsDifference

LEMMA AddCarryIs ==
    ASSUME NEW a \in Words, NEW b \in Words, NEW carry \in BOOLEAN
    PROVE  IsSum(AddCarry(a, b, carry), a, b, carry)
<1> DEFINE total == a + b + One(carry)
           first == (a + b) % Range
           dest  == total % Range
           over  == (Sign(a) = Sign(b) /\ Sign(first) # Sign(b))
                      # (~Sign(first) /\ Sign(dest))
           r     == Computed(dest, total >= Range, over)
<1>1. One(carry) \in {0, 1}
  BY DEF One
<1>2. first \in Words /\ first = IF a + b >= Range THEN (a + b) - Range ELSE a + b
  <2> DEFINE k == a + b
  <2>1. k \in Int /\ k >= 0 /\ k >= -Range /\ k < 2 * Range
    BY SignIs, HalfOfRange
  <2> HIDE DEF k
  <2>2. k % Range \in Words /\ k % Range = IF k >= Range THEN k - Range ELSE k
    BY <2>1, Wrapped
  <2> QED BY <2>2, SignIs, HalfOfRange DEF k
<1>3. total \in Int /\ total >= 0 /\ total >= -Range /\ total < 2 * Range
  BY <1>1, SignIs, HalfOfRange
<1>4. AddCarry(a, b, carry) = r
  BY Zenon DEF AddCarry, One
<1> HIDE DEF total
<1>5. dest \in Words /\ dest = IF total >= Range THEN total - Range ELSE total
  BY <1>3, Wrapped
<1> HIDE DEF first, dest
<1>6. dest + Range * One(total >= Range) = total
  BY <1>3, <1>5, SignIs, HalfOfRange DEF One
<1>7. over <=> OutOfSign(WithSign(a) + WithSign(b) + One(carry))
  <2> DEFINE c == One(carry)
  <2>1. total = a + b + c /\ c \in {0, 1}
    BY <1>1 DEF total
  <2> HIDE DEF c
  <2>2. over <=> OutOfSign(WithSign(a) + WithSign(b) + c)
    BY <1>2, <1>5, <2>1, SignIs, HalfOfRange DEF OutOfSign, WithSign
  <2> QED BY <2>2 DEF c
<1>8. r.value = dest /\ r.carry = (total >= Range) /\ r.overflow = over
  BY IsComputed
<1>9. (total >= Range) \in BOOLEAN /\ over \in BOOLEAN
  BY <1>3, HalfOfRange
<1>10. total = a + b + One(carry)
  BY DEF total
<1> HIDE DEF r, over
<1> QED BY <1>4, <1>5, <1>6, <1>7, <1>8, <1>9, <1>10, Zenon DEF IsSum

LEMMA SubtractBorrowIs ==
    ASSUME NEW a \in Words, NEW b \in Words, NEW carry \in BOOLEAN
    PROVE  IsDifference(SubtractBorrow(a, b, carry), a, b, carry)
<1> DEFINE borrow == IF carry THEN 0 ELSE 1
           first  == (a - b) % Range
           dest   == (first - borrow) % Range
           out    == a >= b /\ first >= borrow
           over   == (Sign(a) # Sign(b) /\ Sign(first) = Sign(b))
                       # (Sign(first) /\ ~Sign(dest))
           r      == Computed(dest, out, over)
<1>1. borrow \in {0, 1} /\ borrow = One(~carry)
  BY DEF One
<1>2. first \in Words /\ first = IF a >= b THEN a - b ELSE (a - b) + Range
  <2> DEFINE k == a - b
  <2>1. /\ k \in Int /\ k >= -Range /\ k < Range /\ k < 2 * Range
        /\ a >= b <=> k >= 0
    BY SignIs, HalfOfRange
  <2> HIDE DEF k
  <2>2. /\ k % Range \in Words
        /\ k % Range = IF k >= Range THEN k - Range
                       ELSE IF k >= 0 THEN k ELSE k + Range
    BY <2>1, Wrapped
  <2>3. ~(k >= Range)
    BY <2>1, HalfOfRange
  <2> QED BY <2>1, <2>2, <2>3, SignIs, HalfOfRange DEF k
<1>3. SubtractBorrow(a, b, carry) = r
  BY Zenon DEF SubtractBorrow
<1> HIDE DEF borrow, first
<1>4. dest \in Words /\ dest = IF first >= borrow THEN first - borrow
                               ELSE (first - borrow) + Range
  <2> DEFINE k == first - borrow
  <2>1. /\ k \in Int /\ k >= -Range /\ k < Range /\ k < 2 * Range
        /\ first >= borrow <=> k >= 0
    BY <1>1, <1>2, SignIs, HalfOfRange
  <2> HIDE DEF k
  <2>2. /\ k % Range \in Words
        /\ k % Range = IF k >= Range THEN k - Range
                       ELSE IF k >= 0 THEN k ELSE k + Range
    BY <2>1, Wrapped
  <2>3. ~(k >= Range)
    BY <2>1, HalfOfRange
  <2> QED BY <1>1, <1>2, <2>1, <2>2, <2>3, SignIs, HalfOfRange DEF k
<1> HIDE DEF dest
<1>5. dest - Range * One(~out) = a - b - borrow
  BY <1>1, <1>2, <1>4, SignIs, HalfOfRange DEF One
<1>6. over <=> OutOfSign(WithSign(a) - WithSign(b) - borrow)
  BY <1>1, <1>2, <1>4, SignIs, HalfOfRange DEF OutOfSign, WithSign
<1>7. r.value = dest /\ r.carry = out /\ r.overflow = over
  BY IsComputed
<1>8. out \in BOOLEAN /\ over \in BOOLEAN
  OBVIOUS
<1> HIDE DEF r, over, out
<1> QED BY <1>1, <1>3, <1>4, <1>5, <1>6, <1>7, <1>8, Zenon DEF IsDifference

-----------------------------------------------------------------------------
(* Numbers of several words, below base: as read with a sign, and whether  *)
(* a number with a sign is out of reach.                                   *)
SignedIn(x, base)    == IF 2 * x >= base THEN x - base ELSE x
OverflownIn(k, base) == 2 * k >= base \/ 2 * k < -base

(* The upper part decides the order of two numbers.                        *)
LEMMA UpperPartDecides ==
    ASSUME NEW base \in Nat, base >= 1, NEW t \in 0 .. base - 1,
           NEW k \in Int, NEW h \in Int
    PROVE  /\ t + k * base \in Int
           /\ h * base \in Int
           /\ t + k * base >= h * base <=> k >= h
<1>1. t + k * base \in Int /\ h * base \in Int
  OBVIOUS
<1>2. ASSUME k >= h
      PROVE  t + k * base >= h * base
  <2>1. (k - h) * base >= 0
    BY <1>2
  <2>2. (k - h) * base = k * base - h * base
    OBVIOUS
  <2> QED BY <2>1, <2>2
<1>3. ASSUME k < h
      PROVE  t + k * base < h * base
  <2>1. ((h - 1) - k) * base >= 0
    BY <1>3
  <2>2. ((h - 1) - k) * base = (h * base - base) - k * base
    OBVIOUS
  <2> QED BY <2>1, <2>2
<1> QED BY <1>1, <1>2, <1>3

(* One more word in front of a number.                                     *)
LEMMA LongerNumber ==
    ASSUME NEW base \in Nat, base >= 1, NEW x \in 0 .. base - 1, NEW a \in Words
    PROVE  /\ base * Range \in Nat /\ base * Range >= 1
           /\ x + a * base \in 0 .. base * Range - 1
           /\ 2 * (x + a * base) >= base * Range <=> Sign(a)
           /\ SignedIn(x + a * base, base * Range) = x + WithSign(a) * base
<1> DEFINE upper == a * base
           whole == base * Range
           half  == HalfRange * base
<1>1. whole \in Nat /\ upper \in Nat /\ half \in Nat /\ whole = 2 * half
  <2>1. whole \in Nat /\ upper \in Nat /\ half \in Nat
    BY HalfOfRange, SignIs
  <2>2. base * (2 * HalfRange) = 2 * (HalfRange * base)
    BY HalfOfRange
  <2> QED BY <2>1, <2>2, HalfOfRange
<1>2. half >= 1
  BY HalfOfRange
<1>3. x + upper >= half <=> a >= HalfRange
  <2>1. a \in Int /\ HalfRange \in Int
    BY HalfOfRange, SignIs
  <2> QED BY <2>1, UpperPartDecides
<1>4. x + upper < whole
  <2>1. x + a * base >= Range * base <=> a >= Range
    BY UpperPartDecides, HalfOfRange, SignIs
  <2>2. Range * base = whole /\ ~(a >= Range)
    BY HalfOfRange, SignIs
  <2> QED BY <1>1, <2>1, <2>2
<1>5. (a - Range) * base = upper - whole
  BY HalfOfRange, SignIs
<1> HIDE DEF upper, whole, half
<1>6. 2 * (x + upper) >= whole <=> Sign(a)
  BY <1>1, <1>3, SignIs
<1>7. SignedIn(x + upper, whole) = x + WithSign(a) * base
  <2>1. CASE Sign(a)
    <3>1. WithSign(a) * base = upper - whole
      BY <1>5, <2>1 DEF WithSign
    <3>2. SignedIn(x + upper, whole) = (x + upper) - whole
      BY <1>6, <2>1 DEF SignedIn
    <3> QED BY <3>1, <3>2, <1>1
  <2>2. CASE ~Sign(a)
    <3>1. WithSign(a) * base = upper
      BY <2>2 DEF WithSign, upper
    <3>2. SignedIn(x + upper, whole) = x + upper
      BY <1>6, <2>2 DEF SignedIn
    <3> QED BY <3>1, <3>2
  <2> QED BY <2>1, <2>2
<1> QED BY <1>1, <1>2, <1>4, <1>6, <1>7 DEF upper, whole

(* The number t that lies k bases away, as the result of an operation.     *)
LEMMA LongerOverflow ==
    ASSUME NEW base \in Nat, base >= 1, NEW t \in 0 .. base - 1, NEW k \in Int
    PROVE  OverflownIn(t + k * base, base * Range) <=> OutOfSign(k)
<1> DEFINE whole == base * Range
           half  == HalfRange * base
           n     == t + k * base
<1>1. whole \in Nat /\ half \in Nat /\ whole = 2 * half
  <2>1. whole \in Nat /\ half \in Nat
    BY HalfOfRange
  <2>2. base * (2 * HalfRange) = 2 * (HalfRange * base)
    BY HalfOfRange
  <2> QED BY <2>1, <2>2, HalfOfRange
<1>2. n \in Int /\ (n >= half <=> k >= HalfRange)
  BY UpperPartDecides, HalfOfRange
<1>3. (-HalfRange) * base = -half
  BY HalfOfRange
<1>4. n >= -half <=> k >= -HalfRange
  BY <1>3, UpperPartDecides, HalfOfRange
<1> HIDE DEF whole, half, n
<1>5. OverflownIn(n, whole) <=> n >= half \/ ~(n >= -half)
  BY <1>1, <1>2 DEF OverflownIn
<1>6. OutOfSign(k) <=> k >= HalfRange \/ ~(k >= -HalfRange)
  BY HalfOfRange DEF OutOfSign
<1> QED BY <1>2, <1>4, <1>5, <1>6 DEF n, whole

(* The number so far, with the carry and overflow of its last word.        *)
IsLongSum(x, y, t, base, carry, overflow) ==
    /\ {x, y, t} \subseteq 0 .. base - 1
    /\ t + base * One(carry) = x + y
    /\ overflow <=> OverflownIn(SignedIn(x, base) + SignedIn(y, base), base)

IsLongDifference(x, y, t, base, carry, overflow) ==
    /\ {x, y, t} \subseteq 0 .. base - 1
    /\ t - base * One(~carry) = x - y
    /\ overflow <=> OverflownIn(SignedIn(x, base) - SignedIn(y, base), base)

LEMMA LongerSum ==
    ASSUME NEW base \in Nat, base >= 1,
           NEW x \in 0 .. base - 1, NEW y \in 0 .. base - 1, NEW t \in 0 .. base - 1,
           NEW carry \in BOOLEAN, t + base * One(carry) = x + y,
           NEW a \in Words, NEW b \in Words, NEW r, IsSum(r, a, b, carry)
    PROVE  IsLongSum(x + a * base, y + b * base, t + r.value * base,
                     base * Range, r.carry, r.overflow)
<1> DEFINE v == r.value
           o == One(carry)
           p == One(r.carry)
           q == WithSign(a)
           s == WithSign(b)
<1>1. /\ v \in Words /\ v \in Int /\ a \in Int /\ b \in Int
      /\ q \in Int /\ s \in Int /\ o \in Int /\ p \in Int
  BY SignIs DEF IsSum, One
<1>2. v + Range * p = a + b + o /\ (r.overflow <=> OutOfSign(q + s + o))
  BY DEF IsSum
<1>3. /\ x + a * base \in 0 .. base * Range - 1
      /\ y + b * base \in 0 .. base * Range - 1
      /\ t + v * base \in 0 .. base * Range - 1
      /\ SignedIn(x + a * base, base * Range) = x + q * base
      /\ SignedIn(y + b * base, base * Range) = y + s * base
  BY <1>1, LongerNumber
<1>4. t + base * o = x + y
  OBVIOUS
<1> HIDE DEF v, o, p, q, s
<1>5. (t + v * base) + (base * Range) * p = (x + a * base) + (y + b * base)
  <2>1. (v + Range * p) * base = (a + b + o) * base
    BY <1>2
  <2>2. (v + Range * p) * base = v * base + (base * Range) * p
    BY <1>1, HalfOfRange
  <2>3. (a + b + o) * base = a * base + b * base + base * o
    BY <1>1
  <2> DEFINE vb == v * base
             wb == (base * Range) * p
             ab == a * base
             bb == b * base
             ob == base * o
  <2>4. /\ vb \in Int /\ wb \in Int /\ ab \in Int /\ bb \in Int /\ ob \in Int
        /\ vb + wb = ab + bb + ob
    BY <1>1, <2>1, <2>2, <2>3, HalfOfRange
  <2>5. t + ob = x + y
    BY <1>4
  <2> HIDE DEF vb, wb, ab, bb, ob
  <2>6. (t + vb) + wb = (x + ab) + (y + bb)
    BY <2>4, <2>5
  <2> QED BY <2>6 DEF vb, wb, ab, bb
<1>6. (x + q * base) + (y + s * base) = t + (q + s + o) * base
  <2>1. (q + s + o) * base = q * base + s * base + base * o
    BY <1>1
  <2>2. q * base \in Int /\ s * base \in Int /\ base * o \in Int
    BY <1>1
  <2> QED BY <1>4, <2>1, <2>2
<1>7. q + s + o \in Int
  BY <1>1
<1>8. OverflownIn(t + (q + s + o) * base, base * Range) <=> OutOfSign(q + s + o)
  BY <1>7, LongerOverflow
<1> QED BY <1>2, <1>3, <1>5, <1>6, <1>8, Zenon DEF IsLongSum, v, p

LEMMA LongerDifference ==
    ASSUME NEW base \in Nat, base >= 1,
           NEW x \in 0 .. base - 1, NEW y \in 0 .. base - 1, NEW t \in 0 .. base - 1,
           NEW carry \in BOOLEAN, t - base * One(~carry) = x - y,
           NEW a \in Words, NEW b \in Words, NEW r, IsDifference(r, a, b, carry)
    PROVE  IsLongDifference(x + a * base, y + b * base, t + r.value * base,
                            base * Range, r.carry, r.overflow)
<1> DEFINE v == r.value
           o == One(~carry)
           p == One(~r.carry)
           q == WithSign(a)
           s == WithSign(b)
<1>1. /\ v \in Words /\ v \in Int /\ a \in Int /\ b \in Int
      /\ q \in Int /\ s \in Int /\ o \in Int /\ p \in Int
  BY SignIs DEF IsDifference, One
<1>2. v - Range * p = a - b - o /\ (r.overflow <=> OutOfSign(q - s - o))
  BY DEF IsDifference
<1>3. /\ x + a * base \in 0 .. base * Range - 1
      /\ y + b * base \in 0 .. base * Range - 1
      /\ t + v * base \in 0 .. base * Range - 1
      /\ SignedIn(x + a * base, base * Range) = x + q * base
      /\ SignedIn(y + b * base, base * Range) = y + s * base
  BY <1>1, LongerNumber
<1>4. t - base * o = x - y
  OBVIOUS
<1> HIDE DEF v, o, p, q, s
<1>5. (t + v * base) - (base * Range) * p = (x + a * base) - (y + b * base)
  <2>1. (v - Range * p) * base = (a - b - o) * base
    BY <1>2
  <2>2. (v - Range * p) * base = v * base - (base * Range) * p
    BY <1>1, HalfOfRange
  <2>3. (a - b - o) * base = a * base - b * base - base * o
    BY <1>1
  <2> DEFINE vb == v * base
             wb == (base * Range) * p
             ab == a * base
             bb == b * base
             ob == base * o
  <2>4. /\ vb \in Int /\ wb \in Int /\ ab \in Int /\ bb \in Int /\ ob \in Int
        /\ vb - wb = ab - bb - ob
    BY <1>1, <2>1, <2>2, <2>3, HalfOfRange
  <2>5. t - ob = x - y
    BY <1>4
  <2> HIDE DEF vb, wb, ab, bb, ob
  <2>6. (t + vb) - wb = (x + ab) - (y + bb)
    BY <2>4, <2>5
  <2> QED BY <2>6 DEF vb, wb, ab, bb
<1>6. (x + q * base) - (y + s * base) = t + (q - s - o) * base
  <2>1. (q - s - o) * base = q * base - s * base - base * o
    BY <1>1
  <2>2. q * base \in Int /\ s * base \in Int /\ base * o \in Int
    BY <1>1
  <2> QED BY <1>4, <2>1, <2>2
<1>7. q - s - o \in Int
  BY <1>1
<1>8. OverflownIn(t + (q - s - o) * base, base * Range) <=> OutOfSign(q - s - o)
  BY <1>7, LongerOverflow
<1> QED BY <1>2, <1>3, <1>5, <1>6, <1>8, Zenon DEF IsLongDifference, v, p

(* The first word, as what is put in front of a number of none.            *)
LEMMA FirstSum ==
    ASSUME NEW a \in Words, NEW b \in Words, NEW r, IsSum(r, a, b, FALSE)
    PROVE  IsLongSum(a, b, r.value, Range, r.carry, r.overflow)
<1>1. 1 \in Nat /\ 1 >= 1 /\ 0 \in 0 .. 1 - 1 /\ 0 + 1 * One(FALSE) = 0 + 0
  BY DEF One
<1>2. IsLongSum(0 + a * 1, 0 + b * 1, 0 + r.value * 1, 1 * Range, r.carry, r.overflow)
  BY <1>1, LongerSum
<1>3. /\ 0 + a * 1 = a /\ 0 + b * 1 = b /\ 0 + r.value * 1 = r.value
      /\ 1 * Range = Range
  BY HalfOfRange, SignIs DEF IsSum
<1> QED BY <1>2, <1>3, Zenon

LEMMA FirstDifference ==
    ASSUME NEW a \in Words, NEW b \in Words, NEW r, IsDifference(r, a, b, TRUE)
    PROVE  IsLongDifference(a, b, r.value, Range, r.carry, r.overflow)
<1>1. 1 \in Nat /\ 1 >= 1 /\ 0 \in 0 .. 1 - 1 /\ 0 - 1 * One(~TRUE) = 0 - 0
  BY DEF One
<1>2. IsLongDifference(0 + a * 1, 0 + b * 1, 0 + r.value * 1, 1 * Range,
                       r.carry, r.overflow)
  BY <1>1, LongerDifference
<1>3. /\ 0 + a * 1 = a /\ 0 + b * 1 = b /\ 0 + r.value * 1 = r.value
      /\ 1 * Range = Range
  BY HalfOfRange, SignIs DEF IsDifference
<1> QED BY <1>2, <1>3, Zenon

-----------------------------------------------------------------------------
(* The inductive invariant.  The total and the carry together are the sum  *)
(* or difference, which the next word goes on with; N is that of the total *)
(* and V that of the operation if no other has written it; Z speaks of one *)
(* word alone.                                                             *)
LongNumbers == [kind : {"none", "sum", "difference"}, x : Nat, y : Nat, total : Nat,
                words : 0 .. MaxWords, range : Nat, exact : BOOLEAN]

Agree(f, m) ==
    /\ f \in Flags
    /\ m \in LongNumbers
    /\ m.range >= 1
    /\ {m.x, m.y, m.total} \subseteq 0 .. m.range - 1
    /\ m.kind = "sum" =>
         /\ m.total + m.range * One(f.c) = m.x + m.y
         /\ m.exact => (f.v <=> OverflownIn(SignedIn(m.x, m.range) + SignedIn(m.y, m.range), m.range))
    /\ m.kind = "difference" =>
         /\ m.total - m.range * One(~f.c) = m.x - m.y
         /\ m.exact => (f.v <=> OverflownIn(SignedIn(m.x, m.range) - SignedIn(m.y, m.range), m.range))
    /\ m.kind # "none" => /\ m.words >= 1
                          /\ f.n <=> 2 * m.total >= m.range
                          /\ m.words = 1 => (f.z <=> m.total = 0)

AluInv == Agree(flags, number)

LEMMA NoNumberAgrees ==
    ASSUME NEW f \in Flags
    PROVE  Agree(f, NoNumber)
BY AluAssumption DEF Agree, NoNumber, LongNumbers

(* The flags after an operation that sets them all.                        *)
AfterAll(f, r) == SetFlags([f EXCEPT !.v = r.overflow], r.value, r.carry)

LEMMA FlagsAfterAll ==
    ASSUME NEW f \in Flags, NEW r,
           r.value \in Words, r.carry \in BOOLEAN, r.overflow \in BOOLEAN
    PROVE  /\ AfterAll(f, r) \in Flags
           /\ AfterAll(f, r).n = Sign(r.value)
           /\ AfterAll(f, r).z = (r.value = 0)
           /\ AfterAll(f, r).c = r.carry
           /\ AfterAll(f, r).v = r.overflow
BY SignIs DEF AfterAll, SetFlags, Flags

LEMMA FlagsSet ==
    ASSUME NEW f \in Flags, NEW value \in Int, NEW carry \in BOOLEAN
    PROVE  SetFlags(f, value, carry) \in Flags
<1>1. Sign(value) \in BOOLEAN /\ (value = 0) \in BOOLEAN
  BY HalfOfRange DEF Sign, HalfRange
<1>2. ASSUME NEW n \in BOOLEAN, NEW z \in BOOLEAN
      PROVE  [f EXCEPT !.n = n, !.z = z, !.c = carry] \in Flags
  BY DEF Flags
<1> QED BY <1>1, <1>2, Zenon DEF SetFlags

LEMMA OverflowSet ==
    ASSUME NEW f \in Flags, NEW v \in BOOLEAN
    PROVE  /\ [f EXCEPT !.v = v] \in Flags
           /\ [f EXCEPT !.v = v].n = f.n
           /\ [f EXCEPT !.v = v].z = f.z
           /\ [f EXCEPT !.v = v].c = f.c
           /\ [f EXCEPT !.v = v].v = v
BY DEF Flags

Entry(kind, x, y, total, words, range) ==
    [kind |-> kind, x |-> x, y |-> y, total |-> total, words |-> words,
     range |-> range, exact |-> TRUE]

(* After any word of a sum or a difference.                                *)
LEMMA SumAgrees ==
    ASSUME NEW f \in Flags, NEW r, NEW a \in Words, NEW b \in Words,
           NEW carry \in BOOLEAN, IsSum(r, a, b, carry),
           NEW x, NEW y, NEW total, NEW base \in Nat, base >= 1,
           IsLongSum(x, y, total, base, r.carry, r.overflow),
           NEW words \in 1 .. MaxWords,
           Sign(r.value) <=> 2 * total >= base,
           words = 1 => total = r.value
    PROVE  Agree(AfterAll(f, r), Entry("sum", x, y, total, words, base))
<1> DEFINE g == AfterAll(f, r)
<1> DEFINE m == Entry("sum", x, y, total, words, base)
<1>1. /\ x \in Nat /\ y \in Nat /\ total \in Nat /\ words \in 0 .. MaxWords
      /\ {x, y, total} \subseteq 0 .. base - 1
  BY AluAssumption DEF IsLongSum
<1>2. /\ m \in LongNumbers
      /\ m.kind = "sum" /\ m.x = x /\ m.y = y /\ m.total = total
      /\ m.words = words /\ m.range = base /\ m.exact
  BY <1>1, SMT DEF Entry, LongNumbers
<1>3. /\ g \in Flags
      /\ g.n = Sign(r.value) /\ g.z = (r.value = 0)
      /\ g.c = r.carry /\ g.v = r.overflow
  BY FlagsAfterAll, Zenon DEF IsSum
<1> HIDE DEF g, m
<1>4. /\ total + base * One(r.carry) = x + y
      /\ r.overflow <=> OverflownIn(SignedIn(x, base) + SignedIn(y, base), base)
  BY DEF IsLongSum
<1>5. words >= 1
  BY AluAssumption
<1>6. Agree(g, m)
  BY <1>1, <1>2, <1>3, <1>4, <1>5, Zenon DEF Agree
<1> QED BY <1>6 DEF g, m

LEMMA DifferenceAgrees ==
    ASSUME NEW f \in Flags, NEW r, NEW a \in Words, NEW b \in Words,
           NEW carry \in BOOLEAN, IsDifference(r, a, b, carry),
           NEW x, NEW y, NEW total, NEW base \in Nat, base >= 1,
           IsLongDifference(x, y, total, base, r.carry, r.overflow),
           NEW words \in 1 .. MaxWords,
           Sign(r.value) <=> 2 * total >= base,
           words = 1 => total = r.value
    PROVE  Agree(AfterAll(f, r), Entry("difference", x, y, total, words, base))
<1> DEFINE g == AfterAll(f, r)
<1> DEFINE m == Entry("difference", x, y, total, words, base)
<1>1. /\ x \in Nat /\ y \in Nat /\ total \in Nat /\ words \in 0 .. MaxWords
      /\ {x, y, total} \subseteq 0 .. base - 1
  BY AluAssumption DEF IsLongDifference
<1>2. /\ m \in LongNumbers
      /\ m.kind = "difference" /\ m.x = x /\ m.y = y /\ m.total = total
      /\ m.words = words /\ m.range = base /\ m.exact
  BY <1>1, SMT DEF Entry, LongNumbers
<1>3. /\ g \in Flags
      /\ g.n = Sign(r.value) /\ g.z = (r.value = 0)
      /\ g.c = r.carry /\ g.v = r.overflow
  BY FlagsAfterAll, Zenon DEF IsDifference
<1> HIDE DEF g, m
<1>4. /\ total - base * One(~r.carry) = x - y
      /\ r.overflow <=> OverflownIn(SignedIn(x, base) - SignedIn(y, base), base)
  BY DEF IsLongDifference
<1>5. words >= 1
  BY AluAssumption
<1>6. Agree(g, m)
  BY <1>1, <1>2, <1>3, <1>4, <1>5, Zenon DEF Agree
<1> QED BY <1>6 DEF g, m

-----------------------------------------------------------------------------
(* The word behind those so far.                                           *)
LEMMA NextWord ==
    ASSUME NEW f \in Flags, NEW m \in LongNumbers, Agree(f, m),
           m.kind # "none", m.words # MaxWords,
           NEW a \in Words, NEW b \in Words, NEW r, NEW v \in Words, r.value = v
    PROVE  /\ m.words + 1 \in 1 .. MaxWords /\ m.words + 1 # 1
           /\ m.range * Range \in Nat /\ m.range * Range >= 1
           /\ Sign(v) <=> 2 * (m.total + v * m.range) >= m.range * Range
<1>1. /\ m.words \in 0 .. MaxWords /\ m.words >= 1 /\ m.range \in Nat /\ m.range >= 1
      /\ m.total \in 0 .. m.range - 1
  BY DEF Agree, LongNumbers
<1>2. m.words + 1 \in 1 .. MaxWords /\ m.words + 1 # 1
  BY <1>1, AluAssumption
<1> QED BY <1>1, <1>2, LongerNumber

LEMMA NextSumAgrees ==
    ASSUME NEW f \in Flags, NEW m \in LongNumbers, Agree(f, m),
           m.kind = "sum", m.words # MaxWords,
           NEW a \in Words, NEW b \in Words, NEW r, IsSum(r, a, b, f.c)
    PROVE  Agree(AfterAll(f, r),
                 Entry("sum", m.x + a * m.range, m.y + b * m.range,
                       m.total + r.value * m.range, m.words + 1, m.range * Range))
<1>1. /\ m.range \in Nat /\ m.range >= 1
      /\ m.x \in 0 .. m.range - 1 /\ m.y \in 0 .. m.range - 1
      /\ m.total \in 0 .. m.range - 1
      /\ m.total + m.range * One(f.c) = m.x + m.y
  BY DEF Agree, LongNumbers
<1>2. f.c \in BOOLEAN /\ r.value \in Words
  BY DEF Flags, IsSum
<1>3. IsLongSum(m.x + a * m.range, m.y + b * m.range, m.total + r.value * m.range,
                m.range * Range, r.carry, r.overflow)
  BY <1>1, <1>2, LongerSum
<1>4. /\ m.words + 1 \in 1 .. MaxWords /\ m.words + 1 # 1
      /\ m.range * Range \in Nat /\ m.range * Range >= 1
      /\ Sign(r.value) <=> 2 * (m.total + r.value * m.range) >= m.range * Range
  BY <1>2, NextWord
<1> QED BY <1>2, <1>3, <1>4, SumAgrees

LEMMA NextDifferenceAgrees ==
    ASSUME NEW f \in Flags, NEW m \in LongNumbers, Agree(f, m),
           m.kind = "difference", m.words # MaxWords,
           NEW a \in Words, NEW b \in Words, NEW r, IsDifference(r, a, b, f.c)
    PROVE  Agree(AfterAll(f, r),
                 Entry("difference", m.x + a * m.range, m.y + b * m.range,
                       m.total + r.value * m.range, m.words + 1, m.range * Range))
<1>1. /\ m.range \in Nat /\ m.range >= 1
      /\ m.x \in 0 .. m.range - 1 /\ m.y \in 0 .. m.range - 1
      /\ m.total \in 0 .. m.range - 1
      /\ m.total - m.range * One(~f.c) = m.x - m.y
  BY DEF Agree, LongNumbers
<1>2. f.c \in BOOLEAN /\ r.value \in Words
  BY DEF Flags, IsDifference
<1>3. IsLongDifference(m.x + a * m.range, m.y + b * m.range, m.total + r.value * m.range,
                       m.range * Range, r.carry, r.overflow)
  BY <1>1, <1>2, LongerDifference
<1>4. /\ m.words + 1 \in 1 .. MaxWords /\ m.words + 1 # 1
      /\ m.range * Range \in Nat /\ m.range * Range >= 1
      /\ Sign(r.value) <=> 2 * (m.total + r.value * m.range) >= m.range * Range
  BY <1>2, NextWord
<1> QED BY <1>2, <1>3, <1>4, DifferenceAgrees

LEMMA FirstSumAgrees ==
    ASSUME NEW f \in Flags, NEW a \in Words, NEW b \in Words,
           NEW r, IsSum(r, a, b, FALSE)
    PROVE  Agree(AfterAll(f, r), Entry("sum", a, b, r.value, 1, Range))
<1>1. IsLongSum(a, b, r.value, Range, r.carry, r.overflow)
  BY FirstSum
<1>2. /\ r.value \in Words /\ Range \in Nat /\ Range >= 1 /\ 1 \in 1 .. MaxWords
      /\ Sign(r.value) <=> 2 * r.value >= Range
  BY SignIs, HalfOfRange, AluAssumption DEF IsSum
<1> QED BY <1>1, <1>2, SumAgrees

LEMMA FirstDifferenceAgrees ==
    ASSUME NEW f \in Flags, NEW a \in Words, NEW b \in Words,
           NEW r, IsDifference(r, a, b, TRUE)
    PROVE  Agree(AfterAll(f, r), Entry("difference", a, b, r.value, 1, Range))
<1>1. IsLongDifference(a, b, r.value, Range, r.carry, r.overflow)
  BY FirstDifference
<1>2. /\ r.value \in Words /\ Range \in Nat /\ Range >= 1 /\ 1 \in 1 .. MaxWords
      /\ Sign(r.value) <=> 2 * r.value >= Range
  BY SignIs, HalfOfRange, AluAssumption DEF IsDifference
<1> QED BY <1>1, <1>2, DifferenceAgrees

-----------------------------------------------------------------------------
(* What the operations compute.                                            *)
LEMMA ComputeIs ==
    ASSUME NEW op \in Arithmetics, NEW a \in Words, NEW b \in Words, NEW carry \in BOOLEAN,
           NEW r, r = Compute(op, a, b, carry)
    PROVE  /\ r.value \in Words /\ r.carry \in BOOLEAN /\ r.overflow \in BOOLEAN
           /\ op \in {"ADD", "CMN"} => IsSum(r, a, b, FALSE)
           /\ op \in {"SUB", "CMP"} => IsDifference(r, a, b, TRUE)
           /\ op = "RSB" => IsDifference(r, b, a, TRUE)
           /\ op = "ADC" => IsSum(r, a, b, carry)
           /\ op = "SBC" => IsDifference(r, a, b, carry)
           /\ op = "RSC" => IsDifference(r, b, a, carry)
<1>1. CASE op \in {"ADD", "CMN"}
  <2>1. r = Add(a, b)
    BY <1>1 DEF Compute
  <2>2. IsSum(r, a, b, FALSE)
    BY <2>1, AddIs, Zenon
  <2>3. r.value \in Words /\ r.carry \in BOOLEAN /\ r.overflow \in BOOLEAN
    BY <2>2, Zenon DEF IsSum
  <2> QED BY <1>1, <2>2, <2>3
<1>2. CASE op \in {"SUB", "CMP"}
  <2>1. r = Subtract(a, b)
    BY <1>2 DEF Compute
  <2>2. IsDifference(r, a, b, TRUE)
    BY <2>1, SubtractIs, Zenon
  <2>3. r.value \in Words /\ r.carry \in BOOLEAN /\ r.overflow \in BOOLEAN
    BY <2>2, Zenon DEF IsDifference
  <2> QED BY <1>2, <2>2, <2>3
<1>3. CASE op = "RSB"
  <2>1. r = Subtract(b, a)
    BY <1>3 DEF Compute
  <2>2. IsDifference(r, b, a, TRUE)
    BY <2>1, SubtractIs, Zenon
  <2>3. r.value \in Words /\ r.carry \in BOOLEAN /\ r.overflow \in BOOLEAN
    BY <2>2, Zenon DEF IsDifference
  <2> QED BY <1>3, <2>2, <2>3
<1>4. CASE op = "ADC"
  <2>1. r = AddCarry(a, b, carry)
    BY <1>4 DEF Compute
  <2>2. IsSum(r, a, b, carry)
    BY <2>1, AddCarryIs, Zenon
  <2>3. r.value \in Words /\ r.carry \in BOOLEAN /\ r.overflow \in BOOLEAN
    BY <2>2, Zenon DEF IsSum
  <2> QED BY <1>4, <2>2, <2>3
<1>5. CASE op = "SBC"
  <2>1. r = SubtractBorrow(a, b, carry)
    BY <1>5 DEF Compute
  <2>2. IsDifference(r, a, b, carry)
    BY <2>1, SubtractBorrowIs, Zenon
  <2>3. r.value \in Words /\ r.carry \in BOOLEAN /\ r.overflow \in BOOLEAN
    BY <2>2, Zenon DEF IsDifference
  <2> QED BY <1>5, <2>2, <2>3
<1>6. CASE op = "RSC"
  <2>1. r = SubtractBorrow(b, a, carry)
    BY <1>6 DEF Compute
  <2>2. IsDifference(r, b, a, carry)
    BY <2>1, SubtractBorrowIs, Zenon
  <2>3. r.value \in Words /\ r.carry \in BOOLEAN /\ r.overflow \in BOOLEAN
    BY <2>2, Zenon DEF IsDifference
  <2> QED BY <1>6, <2>2, <2>3
<1> QED BY <1>1, <1>2, <1>3, <1>4, <1>5, <1>6 DEF Arithmetics, Compares

LEMMA ExtendedAgrees ==
    ASSUME AluInv, NEW op \in Arithmetics, NEW a \in Words, NEW b \in Words,
           NEW r, r = Compute(op, a, b, flags.c)
    PROVE  Agree(AfterAll(flags, r), Extended(op, a, b, r.value))
<1>1. flags \in Flags /\ flags.c \in BOOLEAN /\ number \in LongNumbers
  BY DEF AluInv, Agree, Flags
<1>2. /\ r.value \in Words /\ r.carry \in BOOLEAN /\ r.overflow \in BOOLEAN
      /\ op \in {"ADD", "CMN"} => IsSum(r, a, b, FALSE)
      /\ op \in {"SUB", "CMP"} => IsDifference(r, a, b, TRUE)
      /\ op = "RSB" => IsDifference(r, b, a, TRUE)
      /\ op = "ADC" => IsSum(r, a, b, flags.c)
      /\ op = "SBC" => IsDifference(r, a, b, flags.c)
      /\ op = "RSC" => IsDifference(r, b, a, flags.c)
  BY <1>1, ComputeIs, Zenon
<1> DEFINE m == Extended(op, a, b, r.value)
           g == AfterAll(flags, r)
<1>3. CASE op \in {"ADD", "CMN"}
  <2>1. m = Entry("sum", a, b, r.value, 1, Range)
    BY <1>3 DEF Extended, Entry, Kind
  <2> QED BY <1>1, <1>2, <1>3, <2>1, FirstSumAgrees, Zenon
<1>4. CASE op \in {"SUB", "CMP"}
  <2>1. m = Entry("difference", a, b, r.value, 1, Range)
    BY <1>4 DEF Extended, Entry, Kind
  <2> QED BY <1>1, <1>2, <1>4, <2>1, FirstDifferenceAgrees, Zenon
<1>5. CASE op = "RSB"
  <2>1. m = Entry("difference", b, a, r.value, 1, Range)
    BY <1>5 DEF Extended, Entry, Kind
  <2> QED BY <1>1, <1>2, <1>5, <2>1, FirstDifferenceAgrees, Zenon
<1>6. CASE op \in {"ADC", "SBC", "RSC"} /\ (Kind(op) # number.kind \/ number.words = MaxWords)
  <2>1. m = NoNumber
    BY <1>6 DEF Extended
  <2>2. g \in Flags
    BY <1>1, <1>2, FlagsAfterAll
  <2> QED BY <2>1, <2>2, NoNumberAgrees
<1>7. CASE op = "ADC" /\ Kind(op) = number.kind /\ number.words # MaxWords
  <2>1. /\ m = Entry("sum", number.x + a * number.range, number.y + b * number.range,
                     number.total + r.value * number.range, number.words + 1,
                     number.range * Range)
        /\ number.kind = "sum"
    BY <1>7 DEF Extended, Entry, Kind
  <2> QED BY <1>1, <1>2, <1>7, <2>1, NextSumAgrees, Zenon DEF AluInv
<1>8. CASE op = "SBC" /\ Kind(op) = number.kind /\ number.words # MaxWords
  <2>1. /\ m = Entry("difference", number.x + a * number.range, number.y + b * number.range,
                     number.total + r.value * number.range, number.words + 1,
                     number.range * Range)
        /\ number.kind = "difference"
    BY <1>8 DEF Extended, Entry, Kind
  <2> QED BY <1>1, <1>2, <1>8, <2>1, NextDifferenceAgrees, Zenon DEF AluInv
<1>9. CASE op = "RSC" /\ Kind(op) = number.kind /\ number.words # MaxWords
  <2>1. /\ m = Entry("difference", number.x + b * number.range, number.y + a * number.range,
                     number.total + r.value * number.range, number.words + 1,
                     number.range * Range)
        /\ number.kind = "difference"
    BY <1>9 DEF Extended, Entry, Kind
  <2> QED BY <1>1, <1>2, <1>9, <2>1, NextDifferenceAgrees, Zenon DEF AluInv
<1> QED BY <1>3, <1>4, <1>5, <1>6, <1>7, <1>8, <1>9, Zenon DEF Arithmetics, Compares

(* Without S the operation writes V alone, and the history no longer says  *)
(* what V is.                                                              *)
LEMMA OverflowAloneAgrees ==
    ASSUME AluInv, NEW v \in BOOLEAN
    PROVE  Agree([flags EXCEPT !.v = v], [number EXCEPT !.exact = FALSE])
<1>1. /\ flags \in Flags /\ number \in LongNumbers
  BY DEF AluInv, Agree
<1> DEFINE g == [flags EXCEPT !.v = v]
           m == [number EXCEPT !.exact = FALSE]
<1>2. g \in Flags /\ g.n = flags.n /\ g.z = flags.z /\ g.c = flags.c
  BY <1>1, OverflowSet, Zenon
<1>3. /\ m \in LongNumbers /\ ~m.exact
      /\ m.kind = number.kind /\ m.x = number.x /\ m.y = number.y
      /\ m.total = number.total /\ m.words = number.words /\ m.range = number.range
  BY <1>1 DEF LongNumbers
<1> HIDE DEF g, m
<1>4. Agree(g, m)
  BY <1>2, <1>3, Zenon DEF AluInv, Agree
<1> QED BY <1>4 DEF g, m

LEMMA DataProcessingAgrees ==
    ASSUME AluInv, NEW op \in Arithmetics, NEW S \in BOOLEAN,
           NEW a \in Words, NEW b \in Words, DataProcessing(op, S, a, b)
    PROVE  AluInv'
<1> DEFINE r == Compute(op, a, b, flags.c)
<1>1. flags \in Flags /\ flags.c \in BOOLEAN
  BY DEF AluInv, Agree, Flags
<1>2. r.overflow \in BOOLEAN
  BY <1>1, ComputeIs, Zenon
<1>3. CASE S \/ op \in Compares
  <2>1. flags' = AfterAll(flags, r) /\ number' = Extended(op, a, b, r.value)
    BY <1>3, Zenon DEF DataProcessing, AfterAll
  <2>2. Agree(AfterAll(flags, r), Extended(op, a, b, r.value))
    BY ExtendedAgrees, Zenon
  <2> QED BY <2>1, <2>2, Zenon DEF AluInv
<1>4. CASE ~(S \/ op \in Compares)
  <2>1. flags' = [flags EXCEPT !.v = r.overflow] /\ number' = [number EXCEPT !.exact = FALSE]
    BY <1>4, Zenon DEF DataProcessing
  <2>2. Agree([flags EXCEPT !.v = r.overflow], [number EXCEPT !.exact = FALSE])
    BY <1>2, OverflowAloneAgrees, Zenon
  <2> QED BY <2>1, <2>2, Zenon DEF AluInv
<1> QED BY <1>3, <1>4

(* The other operations end the number.                                    *)
LEMMA Ends ==
    ASSUME flags' \in Flags, number' = NoNumber
    PROVE  AluInv'
BY NoNumberAgrees, Zenon DEF AluInv

-----------------------------------------------------------------------------
(* The shifter gives a number and a truth value.                           *)
LEMMA LastOutIs ==
    ASSUME NEW value \in Words, NEW amount \in 1 .. 32
    PROVE  LastOut(value, amount) \in BOOLEAN
BY DEF LastOut

LEMMA ShiftLeftIs ==
    ASSUME NEW value \in Words, NEW amount \in 0 .. 255, NEW carry \in BOOLEAN
    PROVE  /\ ShiftLeft(value, amount, carry).value \in Int
           /\ ShiftLeft(value, amount, carry).carry \in BOOLEAN
<1> DEFINE almost == (value * 2 ^ (amount - 1)) % Range
<1>1. WordBits \in 1 .. 32
  BY AluAssumption
<1>2. CASE amount = 0
  BY <1>2, SignIs DEF ShiftLeft, Shifted
<1>3. CASE amount # 0 /\ amount < WordBits
  <2>1. amount - 1 \in 0 .. 32
    BY <1>1, <1>3
  <2>2. 2 ^ (amount - 1) \in Nat
    BY <2>1, PowersOfTwo
  <2> DEFINE p == value * 2 ^ (amount - 1)
  <2>3. p \in Int
    BY <2>2, SignIs
  <2> HIDE DEF p
  <2>4. p % Range \in Int
    BY <2>3, HalfOfRange
  <2>5. almost \in Int
    BY <2>4 DEF p
  <2>6. ShiftLeft(value, amount, carry) = Shifted((almost * 2) % Range, Sign(almost))
    BY <1>3 DEF ShiftLeft
  <2> HIDE DEF almost
  <2>7. (almost * 2) % Range \in Int /\ Sign(almost) \in BOOLEAN
    BY <2>5, HalfOfRange DEF Sign, HalfRange
  <2> QED BY <2>6, <2>7 DEF Shifted
<1>4. CASE amount # 0 /\ amount = WordBits
  <2>1. ~(amount < WordBits)
    BY <1>1, <1>4
  <2>2. ShiftLeft(value, amount, carry) = Shifted(0, value % 2 = 1)
    BY <1>4, <2>1, Zenon DEF ShiftLeft
  <2> QED BY <2>2 DEF Shifted
<1>5. CASE amount # 0 /\ ~(amount < WordBits) /\ amount # WordBits
  BY <1>5 DEF ShiftLeft, Shifted
<1> QED BY <1>2, <1>3, <1>4, <1>5

LEMMA ShiftRightIs ==
    ASSUME NEW value \in Words, NEW amount \in 1 .. WordBits, NEW arithmetic \in BOOLEAN
    PROVE  /\ ShiftRight(value, amount, arithmetic).value \in Int
           /\ ShiftRight(value, amount, arithmetic).carry \in BOOLEAN
<1>1. /\ amount \in 0 .. 32 /\ amount \in 1 .. 32
      /\ WordBits - amount \in 0 .. 32
  BY AluAssumption
<1>2. /\ 2 ^ amount \in Nat /\ 2 ^ amount >= 1
      /\ 2 ^ (WordBits - amount) \in Nat
  BY <1>1, PowersOfTwo
<1>3. value \div 2 ^ amount \in Int /\ UpperOnes(amount) \in Int
  BY <1>2, SignIs, HalfOfRange DEF UpperOnes
<1>4. LastOut(value, amount) \in BOOLEAN
  BY <1>1, LastOutIs
<1> QED BY <1>3, <1>4 DEF ShiftRight, Shifted

LEMMA RotateRightIs ==
    ASSUME NEW value \in Words, NEW amount \in 1 .. 255
    PROVE  /\ RotateRight(value, amount).value \in Int
           /\ RotateRight(value, amount).carry \in BOOLEAN
<1> DEFINE by == IF amount % WordBits = 0 THEN WordBits ELSE amount % WordBits
<1>1. WordBits \in 1 .. 32
  BY AluAssumption
<1>2. by \in 1 .. WordBits
  BY <1>1
<1>3. RotateRight(value, amount)
        = Shifted(value \div 2 ^ by + ((value * 2 ^ (WordBits - by)) % Range),
                  LastOut(value, by))
  BY DEF RotateRight
<1> HIDE DEF by
<1>4. by \in 0 .. 32 /\ by \in 1 .. 32 /\ WordBits - by \in 0 .. 32
  BY <1>1, <1>2
<1>5. /\ 2 ^ by \in Nat /\ 2 ^ by >= 1
      /\ 2 ^ (WordBits - by) \in Nat
  BY <1>4, PowersOfTwo
<1> DEFINE p == value * 2 ^ (WordBits - by)
<1>6. value \div 2 ^ by \in Int /\ p \in Int
  BY <1>5, SignIs
<1> HIDE DEF p
<1>7. value \div 2 ^ by + (p % Range) \in Int
  BY <1>6, HalfOfRange
<1>8. LastOut(value, by) \in BOOLEAN
  BY <1>4, LastOutIs
<1> QED BY <1>3, <1>7, <1>8 DEF Shifted, p

LEMMA ShiftIs ==
    ASSUME NEW value \in Words, NEW type \in ShiftTypes, NEW amount \in 0 .. 255,
           NEW byRegister \in BOOLEAN, NEW carry \in BOOLEAN,
           NEW s \in Shift(value, type, amount, byRegister, carry)
    PROVE  s.value \in Int /\ s.carry \in BOOLEAN
<1>1. WordBits \in 1 .. 32 /\ value \in Int
  BY AluAssumption, SignIs
<1>2. CASE type = "LSL"
  <2>1. s = ShiftLeft(value, amount, carry)
    BY <1>2 DEF Shift
  <2> QED BY <2>1, ShiftLeftIs
<1>3. CASE s = Shifted(value, carry)
  BY <1>1, <1>3 DEF Shifted
<1>4. CASE type \in {"LSR", "ASR"} /\ amount > WordBits
  <2>1. s \in ShiftRightFar(value, amount, type = "ASR")
    BY <1>4 DEF Shift
  <2>2. \A k \in Int, b \in BOOLEAN :
           Shifted(k, b).value \in Int /\ Shifted(k, b).carry \in BOOLEAN
    BY DEF Shifted
  <2>3. \E k \in Int, b \in BOOLEAN : s = Shifted(k, b)
    <3>1. 0 \in Int /\ Range - 1 \in Int
      BY HalfOfRange
    <3> QED BY <2>1, <3>1, Zenon DEF ShiftRightFar
  <2> QED BY <2>2, <2>3, Zenon
<1>5. CASE type \in {"LSR", "ASR"} /\ ~(amount > WordBits) /\ amount > 0
  <2>1. s = ShiftRight(value, amount, type = "ASR")
    BY <1>5 DEF Shift
  <2>2. amount \in 1 .. WordBits
    BY <1>1, <1>5
  <2> QED BY <2>1, <2>2, ShiftRightIs
<1>6. CASE type \in {"LSR", "ASR"} /\ ~(amount > 0)
  <2>1. \/ s = Shifted(value, carry)
        \/ s = ShiftRight(value, WordBits, type = "ASR")
    BY <1>1, <1>6 DEF Shift
  <2>2. WordBits \in 1 .. WordBits
    BY <1>1
  <2> QED BY <1>3, <2>1, <2>2, ShiftRightIs
<1>7. CASE type = "ROR" /\ amount > 0
  <2>1. s = RotateRight(value, amount)
    BY <1>7 DEF Shift
  <2>2. amount \in 1 .. 255
    BY <1>7
  <2> QED BY <2>1, <2>2, RotateRightIs
<1>8. CASE type = "ROR" /\ ~(amount > 0)
  <2>1. \/ s = Shifted(value, carry)
        \/ s = RotateExtended(value, carry)
    BY <1>8 DEF Shift
  <2>2. /\ RotateExtended(value, carry).value \in Int
        /\ RotateExtended(value, carry).carry \in BOOLEAN
    BY <1>1, HalfOfRange DEF RotateExtended, Shifted, HalfRange
  <2> QED BY <1>3, <2>1, <2>2
<1> QED BY <1>2, <1>4, <1>5, <1>6, <1>7, <1>8 DEF ShiftTypes

-----------------------------------------------------------------------------
LEMMA MoveAgrees ==
    ASSUME AluInv, NEW value \in Words, NEW type \in ShiftTypes,
           NEW amount \in 0 .. 255, NEW byRegister \in BOOLEAN,
           Move(value, type, amount, byRegister)
    PROVE  AluInv'
<1>1. flags \in Flags /\ flags.c \in BOOLEAN
  BY DEF AluInv, Agree, Flags
<1>2. PICK s \in Shift(value, type, amount, byRegister, flags.c) :
         flags' = SetFlags(flags, s.value, s.carry)
  BY Zenon DEF Move
<1>3. s.value \in Int /\ s.carry \in BOOLEAN
  BY <1>1, ShiftIs
<1>4. flags' \in Flags
  BY <1>1, <1>2, <1>3, FlagsSet
<1> QED BY <1>4, Ends DEF Move

LEMMA LogicalAgrees ==
    ASSUME NEW f \in Flags, NEW value \in Words, NEW carry \in BOOLEAN,
           Logical(f, value, carry)
    PROVE  AluInv'
<1>1. value \in Int
  BY SignIs
<1> QED BY <1>1, FlagsSet, Ends DEF Logical

LEMMA ReturnAgrees ==
    ASSUME NEW op \in Arithmetics, NEW f \in Flags, NEW a \in Words, NEW b \in Words,
           Return(op, f, a, b)
    PROVE  AluInv'
<1> DEFINE r == Compute(op, a, b, f.c)
           g == [f EXCEPT !.v = r.overflow]
<1>1. f.c \in BOOLEAN
  BY DEF Flags
<1>2. r.value \in Words /\ r.carry \in BOOLEAN /\ r.overflow \in BOOLEAN
  BY <1>1, ComputeIs, Zenon
<1>3. number' = NoNumber /\ (flags' = SetFlags(g, r.value, r.carry) \/ flags' = g)
  BY Zenon DEF Return
<1> HIDE DEF r
<1>4. g \in Flags
  BY <1>2, OverflowSet
<1> HIDE DEF g
<1>5. r.value \in Int
  BY <1>2, SignIs
<1>6. flags' \in Flags
  BY <1>2, <1>3, <1>4, <1>5, FlagsSet
<1> QED BY <1>3, <1>6, Ends

LEMMA MultiplyAgrees ==
    ASSUME AluInv, NEW negative \in BOOLEAN, NEW zero \in BOOLEAN,
           Multiply(negative, zero)
    PROVE  AluInv'
<1>1. flags \in Flags
  BY DEF AluInv, Agree
<1>2. [flags EXCEPT !.n = negative, !.z = zero] \in Flags
  BY <1>1 DEF Flags
<1> QED BY <1>2, Ends, Zenon DEF Multiply

LEMMA ThumbALUAgrees ==
    ASSUME AluInv, NEW op \in 0 .. 15, NEW d \in Operands, NEW s \in Operands,
           ThumbALUOps(op, d, s)
    PROVE  AluInv'
<1>1. /\ d \in Words /\ s \in Words /\ 0 \in Words /\ Operands \subseteq Words
      /\ flags \in Flags /\ flags.c \in BOOLEAN
  BY AluAssumption, HalfOfRange DEF AluInv, Agree, Flags, Words
<1>2. s % 256 \in 0 .. 255
  BY <1>1, SignIs
<1>3. /\ {"LSL", "LSR", "ASR", "ROR"} = ShiftTypes
      /\ {"RSB", "ADC", "SBC", "CMP", "CMN"} \subseteq Arithmetics
  BY DEF ShiftTypes, Arithmetics, Compares
<1>4. CASE \E type \in ShiftTypes : Move(d, type, s % 256, TRUE)
  BY <1>1, <1>2, <1>4, MoveAgrees
<1>5. CASE \E o \in Arithmetics, a, b \in Words : DataProcessing(o, TRUE, a, b)
  BY <1>5, DataProcessingAgrees
<1>6. CASE \E negative, zero \in BOOLEAN : Multiply(negative, zero)
  BY <1>6, MultiplyAgrees
<1>7. CASE \E value \in Operands : Logical(flags, value, flags.c)
  BY <1>1, <1>7, LogicalAgrees
<1> QED BY <1>1, <1>3, <1>4, <1>5, <1>6, <1>7 DEF ThumbALUOps

LEMMA ThumbAgrees ==
    ASSUME AluInv, Thumb
    PROVE  AluInv'
<1>1. /\ Operands \subseteq Words
      /\ flags \in Flags /\ flags.c \in BOOLEAN
      /\ {"SUB", "ADD", "CMP"} \subseteq Arithmetics
      /\ 0 .. WordBits - 1 \subseteq 0 .. 255
  BY AluAssumption DEF AluInv, Agree, Flags, Arithmetics, Compares
<1>2. ASSUME NEW s \in Operands, NEW op \in 0 .. 3, NEW offset \in 0 .. WordBits - 1,
             ThumbMoveShiftedReg(op, offset, s)
      PROVE  AluInv'
  <2>1. op \in {0, 1, 2}
    BY <1>2 DEF ThumbMoveShiftedReg
  <2>2. <<"LSL", "LSR", "ASR">>[op + 1] \in ShiftTypes
    BY <2>1 DEF ShiftTypes
  <2>3. Move(s, <<"LSL", "LSR", "ASR">>[op + 1], offset, FALSE)
    BY <1>2 DEF ThumbMoveShiftedReg
  <2> QED BY <1>1, <2>2, <2>3, MoveAgrees
<1>3. ASSUME NEW s \in Operands, NEW d \in Operands,
             \E o \in Arithmetics, S \in BOOLEAN :
                DataProcessing(o, S, s, d) \/ DataProcessing(o, S, d, s)
      PROVE  AluInv'
  BY <1>1, <1>3, DataProcessingAgrees
<1>4. ASSUME NEW s \in Operands, Logical(flags, s, flags.c)
      PROVE  AluInv'
  BY <1>1, <1>4, LogicalAgrees
<1>5. ASSUME NEW s \in Operands, NEW d \in Operands,
             \/ \E op \in 0 .. 1 : ThumbAddSubtract(op, s, d)
             \/ \E op \in 0 .. 3 : ThumbMoveCompAddSubImm(op, d, s)
             \/ \E op \in 0 .. 1 : ThumbHiRegOps(op, d, s)
      PROVE  AluInv'
  BY <1>1, <1>3, <1>4, <1>5
     DEF ThumbAddSubtract, ThumbMoveCompAddSubImm, ThumbHiRegOps
<1> QED BY <1>2, <1>5, ThumbALUAgrees, Zenon DEF Thumb

LEMMA NextAgrees ==
    ASSUME AluInv, NextAlu
    PROVE  AluInv'
<1>1. /\ Operands \subseteq Words /\ Restored \subseteq Flags
      /\ Amounts \subseteq 0 .. 255 /\ 0 .. WordBits - 1 \subseteq 0 .. 255
      /\ flags \in Flags
  BY AluAssumption DEF AluInv, Agree
<1>2. CASE Thumb
  BY <1>2, ThumbAgrees
<1>3. CASE \E op \in Arithmetics, S \in BOOLEAN, a, b \in Operands :
              DataProcessing(op, S, a, b)
  BY <1>1, <1>3, DataProcessingAgrees
<1>4. CASE \E op \in Arithmetics, f \in Restored, a, b \in Operands : Return(op, f, a, b)
  BY <1>1, <1>4, ReturnAgrees
<1>5. CASE \E f \in {flags} \cup Restored, value \in Operands, carry \in BOOLEAN :
              Logical(f, value, carry)
  BY <1>1, <1>5, LogicalAgrees
<1>6. CASE \E value \in Operands, type \in ShiftTypes :
              \/ \E amount \in Amounts : Move(value, type, amount, TRUE)
              \/ \E amount \in 0 .. WordBits - 1 : Move(value, type, amount, FALSE)
  <2>1. \E value \in Words, type \in ShiftTypes, amount \in 0 .. 255, byRegister \in BOOLEAN :
           Move(value, type, amount, byRegister)
    BY <1>1, <1>6
  <2> QED BY <2>1, MoveAgrees
<1>7. CASE \E f \in Restored : Restore(f)
  BY <1>1, <1>7, Ends DEF Restore
<1>8. CASE \E negative, zero \in BOOLEAN : Multiply(negative, zero)
  BY <1>8, MultiplyAgrees
<1> QED BY <1>2, <1>3, <1>4, <1>5, <1>6, <1>7, <1>8, Zenon DEF NextAlu

LEMMA AluStays == AluSpec => []AluInv
<1>1. InitAlu => AluInv
  BY NoNumberAgrees DEF InitAlu, AluInv
<1>2. AluInv /\ [NextAlu]_aluVars => AluInv'
  <2>1. CASE NextAlu
    BY <2>1, NextAgrees
  <2>2. CASE UNCHANGED aluVars
    BY <2>2 DEF aluVars, AluInv
  <2> QED BY <2>1, <2>2
<1> QED BY <1>1, <1>2, PTL DEF AluSpec

LEMMA ReadWithSign ==
    /\ \A x : Signed(x) = SignedIn(x, number.range)
    /\ \A k : Overflown(k) <=> OverflownIn(k, number.range)
BY DEF Signed, SignedIn, Overflown, OverflownIn

(* The carry of a sum and the missing borrow of a difference.              *)
LEMMA CarryTells ==
    ASSUME NEW base \in Nat, base >= 1, NEW carry \in BOOLEAN,
           NEW x \in 0 .. base - 1, NEW y \in 0 .. base - 1, NEW t \in 0 .. base - 1,
           t + base * One(carry) = x + y
    PROVE  t = (x + y) % base /\ (carry <=> x + y >= base)
<1>1. t % base = t /\ (t + base) % base = t
  BY Remainders
<1> DEFINE k == x + y
<1>2. t + (IF carry THEN base ELSE 0) = k
  BY DEF One
<1> HIDE DEF k
<1>3. t = k % base
  BY <1>1, <1>2
<1>4. carry <=> k >= base
  BY <1>2
<1> QED BY <1>3, <1>4 DEF k

LEMMA NoBorrowTells ==
    ASSUME NEW base \in Nat, base >= 1, NEW carry \in BOOLEAN,
           NEW x \in 0 .. base - 1, NEW y \in 0 .. base - 1, NEW t \in 0 .. base - 1,
           t - base * One(~carry) = x - y
    PROVE  t = (x - y) % base /\ (carry <=> x >= y)
<1>1. t % base = t /\ (t - base) % base = t
  BY Remainders
<1> DEFINE k == x - y
<1>2. t - (IF carry THEN 0 ELSE base) = k
  BY DEF One
<1>3. x >= y <=> k >= 0
  OBVIOUS
<1> HIDE DEF k
<1>4. t = k % base
  BY <1>1, <1>2
<1>5. carry <=> k >= 0
  BY <1>2
<1> QED BY <1>3, <1>4, <1>5 DEF k

LEMMA AluIsTyped ==
    ASSUME AluInv
    PROVE  AluTypeOK
BY Zenon DEF AluInv, Agree, LongNumbers, AluTypeOK

LEMMA AluIsExact ==
    ASSUME AluInv
    PROVE  LongArithmetic
<1> DEFINE B == number.range
           x == number.x
           y == number.y
           t == number.total
<1>1. /\ B \in Nat /\ B >= 1 /\ flags.c \in BOOLEAN
      /\ x \in 0 .. B - 1 /\ y \in 0 .. B - 1 /\ t \in 0 .. B - 1
  BY DEF AluInv, Agree, LongNumbers, Flags
<1>2. /\ t + B * One(flags.c) = x + y =>
           t = (x + y) % B /\ (flags.c <=> x + y >= B)
      /\ t - B * One(~flags.c) = x - y =>
           t = (x - y) % B /\ (flags.c <=> x >= y)
  <2> DEFINE c == flags.c
  <2>1. c \in BOOLEAN
    BY <1>1
  <2> HIDE DEF B, x, y, t, c
  <2>2. ASSUME t + B * One(c) = x + y
        PROVE  t = (x + y) % B /\ (c <=> x + y >= B)
    BY <1>1, <2>1, <2>2, CarryTells
  <2>3. ASSUME t - B * One(~c) = x - y
        PROVE  t = (x - y) % B /\ (c <=> x >= y)
    BY <1>1, <2>1, <2>3, NoBorrowTells
  <2> QED BY <2>2, <2>3 DEF c
<1>3. /\ number.kind = "sum" =>
           /\ t + B * One(flags.c) = x + y
           /\ number.exact => (flags.v <=> OverflownIn(SignedIn(x, B) + SignedIn(y, B), B))
      /\ number.kind = "difference" =>
           /\ t - B * One(~flags.c) = x - y
           /\ number.exact => (flags.v <=> OverflownIn(SignedIn(x, B) - SignedIn(y, B), B))
      /\ number.kind # "none" => (flags.n <=> 2 * t >= B)
  BY DEF AluInv, Agree
<1> QED BY <1>2, <1>3, ReadWithSign, Zenon DEF LongArithmetic

LEMMA AluDecides ==
    ASSUME AluInv
    PROVE  ConditionsDecide
<1> DEFINE B == number.range
           x == number.x
           y == number.y
           t == number.total
           p == SignedIn(x, B)
           q == SignedIn(y, B)
           N == flags.n
           Z == flags.z
           C == flags.c
           V == flags.v
<1> SUFFICES ASSUME number.kind = "difference"
             PROVE  ConditionsDecide
  BY DEF ConditionsDecide
<1>1. /\ B \in Nat /\ B >= 1
      /\ x \in 0 .. B - 1 /\ y \in 0 .. B - 1 /\ t \in 0 .. B - 1
      /\ N \in BOOLEAN /\ Z \in BOOLEAN /\ C \in BOOLEAN /\ V \in BOOLEAN
  BY DEF AluInv, Agree, LongNumbers, Flags
<1>2. /\ t - B * One(~C) = x - y
      /\ number.exact => (V <=> OverflownIn(p - q, B))
      /\ N <=> 2 * t >= B
      /\ number.words = 1 => (Z <=> t = 0)
  BY DEF AluInv, Agree
<1>3. /\ p \in Int /\ q \in Int
      /\ p = IF 2 * x >= B THEN x - B ELSE x
      /\ q = IF 2 * y >= B THEN y - B ELSE y
  BY <1>1 DEF SignedIn
<1>4. Signed(number.x) = p /\ Signed(number.y) = q
  BY ReadWithSign
<1>5. t = IF C THEN x - y ELSE (x - y) + B
  <2> HIDE DEF B, x, y, t, C
  <2>1. CASE C
    BY <1>1, <1>2, <2>1 DEF One
  <2>2. CASE ~C
    BY <1>1, <1>2, <2>2 DEF One
  <2> QED BY <2>1, <2>2
<1>6. C <=> x >= y
  <2> HIDE DEF B, x, y, t, C
  <2> QED BY <1>1, <1>5
<1>7. t = 0 <=> x = y
  <2> HIDE DEF B, x, y, t, C
  <2> QED BY <1>1, <1>5, <1>6
<1>8. p = q <=> x = y
  <2> HIDE DEF B, x, y, p, q
  <2> QED BY <1>1, <1>3
<1>9. number.exact => (N = V <=> p >= q)
  <2> HIDE DEF B, x, y, t, p, q, N, C, V
  <2>1. (2 * t >= B <=> OverflownIn(p - q, B)) <=> p >= q
    BY <1>1, <1>3, <1>5, <1>6 DEF OverflownIn
  <2> QED BY <1>1, <1>2, <2>1
<1>10. /\ x < y <=> ~(x >= y)
       /\ x > y <=> x >= y /\ x # y
       /\ x <= y <=> ~(x >= y) \/ x = y
       /\ p < q <=> ~(p >= q)
       /\ p > q <=> p >= q /\ p # q
       /\ p <= q <=> ~(p >= q) \/ p = q
  <2> HIDE DEF B, x, y, p, q
  <2> QED BY <1>1, <1>3
<1>11. /\ ConditionCheck(flags, "CS") <=> C
       /\ ConditionCheck(flags, "CC") <=> ~C
       /\ ConditionCheck(flags, "EQ") <=> Z
       /\ ConditionCheck(flags, "NE") <=> ~Z
       /\ ConditionCheck(flags, "HI") <=> C /\ ~Z
       /\ ConditionCheck(flags, "LS") <=> ~C \/ Z
       /\ ConditionCheck(flags, "GE") <=> N = V
       /\ ConditionCheck(flags, "LT") <=> N # V
       /\ ConditionCheck(flags, "GT") <=> N = V /\ ~Z
       /\ ConditionCheck(flags, "LE") <=> N # V \/ Z
  BY <1>1 DEF ConditionCheck
<1> HIDE DEF p, q, t, N, Z, C, V
<1> QED BY <1>2, <1>4, <1>6, <1>7, <1>8, <1>9, <1>10, <1>11, Zenon
        DEF ConditionsDecide

(* Sums and differences of numbers of several words have the total, carry, *)
(* sign and overflow of long arithmetic, whatever instructions without S   *)
(* come between the words: the formulas of DataProcessing for ADD, ADC,    *)
(* SUB, SBC, RSB and RSC are right for every pair of operands.             *)
THEOREM LongSums == AluSpec => []LongArithmetic
<1>1. AluInv => LongArithmetic
  BY AluIsExact
<1> QED BY <1>1, AluStays, PTL

(* What ConditionCheck says after a comparison is the order of its         *)
(* operands, with and without sign, until the flags change.                *)
THEOREM ConditionsOrder == AluSpec => []ConditionsDecide
<1>1. AluInv => ConditionsDecide
  BY AluDecides
<1> QED BY <1>1, AluStays, PTL

(* The flags are truth values after every operation.                       *)
THEOREM AluTyped == AluSpec => []AluTypeOK
<1>1. AluInv => AluTypeOK
  BY AluIsTyped
<1> QED BY <1>1, AluStays, PTL

-----------------------------------------------------------------------------
(* Induction over the natural numbers, from the library's theorem that they *)
(* are well founded: with a set for the operator of its induction theorem. *)
Below == {p \in Nat \X Nat : p[1] < p[2]}

LEMMA NaturalsWellFounded == IsWellFoundedOn(Below, Nat)
<1>1. OpToRel(<, Nat) = Below
  BY Zenon DEF OpToRel, Below
<1>2. IsWellFoundedOn(OpToRel(<, Nat), Nat)
  BY NatLessThanWellFounded, Zenon
<1> QED BY <1>1, <1>2, Zenon

LEMMA Induction ==
    ASSUME NEW S, 0 \in S, \A n \in Nat : n \in S => n + 1 \in S
    PROVE  \A n \in Nat : n \in S
<1> DEFINE T == {n \in Nat : n \notin S}
<1> SUFFICES ASSUME T # {} PROVE FALSE
  OBVIOUS
<1>1. PICK x \in T : \A y \in T : ~(<<y, x>> \in Below)
  BY NaturalsWellFounded, WFMin
<1>2. x # 0 /\ x - 1 \in Nat
  BY <1>1
<1>3. x - 1 \in T
  BY <1>1, <1>2
<1>4. <<x - 1, x>> \in Below
  BY <1>2 DEF Below
<1> QED BY <1>1, <1>3, <1>4

LEMMA Divided ==
    ASSUME NEW d \in Nat, d > 0, NEW q \in Int, NEW r \in 0 .. d - 1
    PROVE  (q * d + r) \div d = q /\ (q * d + r) % d = r
<1> DEFINE n == q * d + r
           p == n \div d
<1>1. n \in Int /\ p \in Int
  OBVIOUS
<1>2. n % d \in 0 .. d - 1 /\ n = d * p + (n % d)
  OBVIOUS
<1> DEFINE s == n % d
<1>3. (q - p) * d = s - r
  BY <1>1, <1>2
<1>4. s \in 0 .. d - 1
  BY <1>2
<1> HIDE DEF n, p, s
<1>5. q - p \in Int /\ q - p = 0
  <2>1. CASE q - p >= 1
    <3>1. ((q - p) - 1) * d >= 0
      BY <1>1, <2>1
    <3> QED BY <1>1, <1>3, <1>4, <3>1
  <2>2. CASE q - p <= -1
    <3>1. (-1 - (q - p)) * d >= 0
      BY <1>1, <2>2
    <3> QED BY <1>1, <1>3, <1>4, <3>1
  <2> QED BY <1>1, <2>1, <2>2
<1>6. q = p /\ s = r
  BY <1>1, <1>3, <1>4, <1>5
<1> QED BY <1>6 DEF n, p, s

LEMMA Division ==
    ASSUME NEW d \in Nat, d > 0, NEW n \in Nat
    PROVE  /\ n \div d \in Nat
           /\ n % d \in 0 .. d - 1
           /\ n = (n \div d) * d + (n % d)
OBVIOUS

(* Dividing twice, and dividing multiples.                                 *)
LEMMA DividedTwice ==
    ASSUME NEW d \in Nat, d > 0, NEW e \in Nat, e > 0, NEW n \in Nat
    PROVE  (n \div d) \div e = n \div (e * d)
<1> DEFINE q == n \div d
           r == n % d
           p == q \div e
           s == q % e
           f == e * d
           t == s * d + r
<1>1. q \in Nat /\ r \in 0 .. d - 1 /\ n = q * d + r
  BY Division
<1> HIDE DEF q, r
<1>2. p \in Nat /\ s \in 0 .. e - 1 /\ q = p * e + s
  BY <1>1, Division
<1> HIDE DEF p, s
<1>3. f \in Nat /\ f > 0
  OBVIOUS
<1>4. t \in 0 .. f - 1
  <2>1. s * d \in Nat
    BY <1>2
  <2>2. ((e - 1) - s) * d >= 0 /\ ((e - 1) - s) * d = (f - d) - s * d
    BY <1>2
  <2> QED BY <1>1, <1>3, <2>1, <2>2
<1>5. n = p * f + t
  <2>1. q * d = (p * e + s) * d
    BY <1>2
  <2>2. (p * e + s) * d = p * f + s * d
    BY <1>2
  <2>3. p * f \in Int /\ s * d \in Int
    BY <1>2, <1>3
  <2> QED BY <1>1, <2>1, <2>2, <2>3
<1> HIDE DEF f, t
<1>6. (p * f + t) \div f = p
  BY <1>2, <1>3, <1>4, Divided
<1> QED BY <1>5, <1>6 DEF p, q, f

LEMMA DividedMultiple ==
    ASSUME NEW d \in Nat, d > 0, NEW e \in Nat, e > 0, NEW n \in Nat,
           NEW r \in 0 .. d - 1
    PROVE  (n * d + r) \div (e * d) = n \div e
<1> DEFINE m == n * d + r
<1>1. m \in Nat
  OBVIOUS
<1>2. m \div d = n
  BY Divided
<1> HIDE DEF m
<1>3. (m \div d) \div e = m \div (e * d)
  BY <1>1, DividedTwice
<1> QED BY <1>2, <1>3 DEF m

(* An even number of times p above x does not change the bit at p.         *)
LEMMA EvenAbove ==
    ASSUME NEW p \in Nat, p > 0, NEW m \in Nat, NEW x \in Nat
    PROVE  (((2 * m) * p + x) \div p) % 2 = (x \div p) % 2
<1> DEFINE q == x \div p
           r == x % p
<1>1. q \in Nat /\ r \in 0 .. p - 1 /\ x = q * p + r
  BY Division
<1> HIDE DEF q, r
<1>2. (2 * m) * p + x = (2 * m + q) * p + r
  <2>1. (2 * m + q) * p = (2 * m) * p + q * p
    BY <1>1
  <2>2. (2 * m) * p \in Int /\ q * p \in Int
    BY <1>1
  <2> QED BY <1>1, <2>1, <2>2
<1>3. ((2 * m + q) * p + r) \div p = 2 * m + q
  <2> DEFINE k == 2 * m + q
  <2>1. k \in Int
    BY <1>1
  <2> HIDE DEF k
  <2>2. (k * p + r) \div p = k
    BY <1>1, <2>1, Divided
  <2> QED BY <2>2 DEF k
<1>4. (2 * m + q) % 2 = q % 2
  <2> DEFINE a == q \div 2
             b == q % 2
  <2>1. a \in Nat /\ b \in 0 .. 2 - 1 /\ q = a * 2 + b
    BY <1>1, Division
  <2> HIDE DEF a, b
  <2>2. 2 * m + q = (m + a) * 2 + b
    BY <2>1
  <2>3. ((m + a) * 2 + b) % 2 = b
    BY <2>1, Divided
  <2> QED BY <2>2, <2>3 DEF b
<1> QED BY <1>2, <1>3, <1>4 DEF q

Power(k) == 2 ^ k

LEMMA PowerNext ==
    ASSUME NEW k \in 1 .. 32
    PROVE  Power(k) = 2 * Power(k - 1)
BY Doubled, Zenon DEF Power

LEMMA PowerType ==
    /\ Power(0) = 1
    /\ \A k \in 0 .. 32 : Power(k) \in Nat /\ Power(k) >= 1 /\ Power(k) > 0
<1>1. Power(0) = 1
  BY SMT DEF Power
<1>2. \A k \in 0 .. 32 : Power(k) \in Nat /\ Power(k) >= 1
  BY PowersOfTwo, Zenon DEF Power
<1> QED BY <1>1, <1>2

LEMMA PowersAdd ==
    ASSUME NEW j \in 0 .. 32, NEW k \in 0 .. 32, j + k <= 32
    PROVE  Power(j + k) = Power(j) * Power(k)
<1> DEFINE S == {n \in Nat : j + n <= 32 => Power(j + n) = Power(j) * Power(n)}
<1>1. 0 \in S
  <2>1. j + 0 = j /\ Power(j) \in Nat
    BY PowerType
  <2>2. Power(j) * Power(0) = Power(j)
    <3> DEFINE a == Power(j)
    <3>1. a \in Nat
      BY <2>1
    <3> HIDE DEF a
    <3>2. a * 1 = a
      BY <3>1
    <3>3. Power(0) = 1
      BY PowerType
    <3> QED BY <3>2, <3>3 DEF a
  <2> QED BY <2>1, <2>2
<1>2. ASSUME NEW n \in Nat, n \in S
      PROVE  n + 1 \in S
  <2> SUFFICES ASSUME j + (n + 1) <= 32
               PROVE  Power(j + (n + 1)) = Power(j) * Power(n + 1)
    OBVIOUS
  <2>1. Power(j + n) = Power(j) * Power(n)
    BY <1>2
  <2>2. /\ n + 1 \in 1 .. 32 /\ (n + 1) - 1 = n
        /\ j + (n + 1) \in 1 .. 32 /\ (j + (n + 1)) - 1 = j + n
        /\ n \in 0 .. 32
    OBVIOUS
  <2>3. Power(n + 1) = 2 * Power(n) /\ Power(j + (n + 1)) = 2 * Power(j + n)
    <3>1. Power(n + 1) = 2 * Power((n + 1) - 1)
      BY <2>2, PowerNext
    <3>2. Power(j + (n + 1)) = 2 * Power((j + (n + 1)) - 1)
      BY <2>2, PowerNext
    <3> QED BY <2>2, <3>1, <3>2
  <2> DEFINE a == Power(j)
             b == Power(n)
  <2>4. a \in Nat /\ b \in Nat
    BY <2>2, PowerType
  <2> HIDE DEF a, b
  <2>5. 2 * (a * b) = a * (2 * b)
    BY <2>4
  <2> QED BY <2>1, <2>3, <2>5 DEF a, b
<1> HIDE DEF S
<1>3. \A n \in Nat : n \in S
  BY <1>1, <1>2, Induction
<1>4. k \in S
  BY <1>3
<1> QED BY <1>4 DEF S

\* The bit of x at a power of two.
At(x, p) == (x \div p) % 2

LEMMA BitIs ==
    ASSUME NEW x, NEW k
    PROVE  Bit(x, k) <=> At(x, Power(k)) = 1
BY DEF Bit, At, Power

(* A power of two less than another: what they differ by, half of it.      *)
LEMMA PowersApart ==
    ASSUME NEW k \in 0 .. 32, NEW n \in 0 .. 32, k < n
    PROVE  \E e \in Nat : e >= 1 /\ Power(n) = (2 * e) * Power(k)
<1> DEFINE p == Power(k)
           q == Power(n)
           e == Power((n - k) - 1)
<1>1. n - k \in 1 .. 32 /\ (n - k) - 1 \in 0 .. 32 /\ k + (n - k) = n
  OBVIOUS
<1>2. e \in Nat /\ e >= 1 /\ Power(n - k) = 2 * e
  BY <1>1, PowerNext, PowerType
<1>3. Power(n) = Power(k) * Power(n - k)
  <2>1. Power(k + (n - k)) = Power(k) * Power(n - k)
    BY <1>1, PowersAdd
  <2> QED BY <1>1, <2>1
<1>4. p \in Nat
  BY PowerType
<1>5. q = p * (2 * e)
  BY <1>2, <1>3
<1> HIDE DEF p, q, e
<1>6. p * (2 * e) = (2 * e) * p
  BY <1>2, <1>4
<1>7. e >= 1 /\ e \in Nat /\ q = (2 * e) * p
  BY <1>2, <1>5, <1>6
<1> QED BY <1>7 DEF p, q

(* The lower bits of a number are those of its remainder.                  *)
LEMMA LowerBits ==
    ASSUME NEW k \in 0 .. 32, NEW n \in 0 .. 32, k < n,
           NEW x \in Nat
    PROVE  /\ x % Power(n) \in 0 .. Power(n) - 1
           /\ At(x % Power(n), Power(k)) = At(x, Power(k))
<1> DEFINE p == Power(k)
           q == Power(n)
<1>1. PICK e \in Nat : e >= 1 /\ q = (2 * e) * p
  BY PowersApart
<1>2. p \in Nat /\ p > 0 /\ q \in Nat /\ q > 0
  BY PowerType
<1> HIDE DEF p, q
<1> DEFINE m == x \div q
           r == x % q
<1>3. m \in Nat /\ r \in 0 .. q - 1 /\ x = m * q + r
  BY <1>2, Division
<1> HIDE DEF m, r
<1>4. x = (2 * (m * e)) * p + r
  <2>1. m * ((2 * e) * p) = (2 * (m * e)) * p
    BY <1>1, <1>2, <1>3
  <2> QED BY <1>1, <1>3, <2>1
<1>5. ((((2 * (m * e)) * p) + r) \div p) % 2 = (r \div p) % 2
  <2> DEFINE l == m * e
  <2>1. l \in Nat
    BY <1>1, <1>3
  <2> HIDE DEF l
  <2>2. r \in Nat
    BY <1>2, <1>3
  <2>3. (((2 * l) * p + r) \div p) % 2 = (r \div p) % 2
    BY <1>2, <2>1, <2>2, EvenAbove
  <2> QED BY <2>3 DEF l
<1> QED BY <1>3, <1>4, <1>5 DEF At, p, q, r

(* Shifted right, every bit moves down.                                    *)
LEMMA BitsDown ==
    ASSUME NEW a \in 0 .. 32, NEW k \in 0 .. 32, a + k <= 32, NEW x \in Nat
    PROVE  x \div Power(a) \in Nat /\ At(x \div Power(a), Power(k)) = At(x, Power(a + k))
<1> DEFINE p == Power(a)
           q == Power(k)
<1>1. p \in Nat /\ p > 0 /\ q \in Nat /\ q > 0
  BY PowerType
<1>2. Power(a + k) = q * p
  <2>1. Power(a + k) = p * q
    BY PowersAdd
  <2> HIDE DEF p, q
  <2>2. p * q = q * p
    BY <1>1
  <2> QED BY <2>1, <2>2
<1> HIDE DEF p, q
<1>3. (x \div p) \div q = x \div (q * p) /\ x \div p \in Nat
  BY <1>1, DividedTwice, Division
<1> QED BY <1>2, <1>3 DEF At, p, q

(* Shifted left, every bit moves up, and the others are 0.                 *)
LEMMA BitsUp ==
    ASSUME NEW a \in 0 .. 32, NEW k \in 0 .. 32, NEW x \in Nat
    PROVE  /\ x * Power(a) \in Nat
           /\ k >= a => At(x * Power(a), Power(k)) = At(x, Power(k - a))
           /\ k < a => At(x * Power(a), Power(k)) = 0
<1> DEFINE p == Power(a)
           q == Power(k)
<1>1. p \in Nat /\ p > 0 /\ q \in Nat /\ q > 0
  BY PowerType
<1>2. x * p \in Nat
  <2> HIDE DEF p
  <2> QED BY <1>1
<1>3. ASSUME k >= a
      PROVE  At(x * p, q) = At(x, Power(k - a))
  <2> DEFINE e == Power(k - a)
  <2>1. k - a \in 0 .. 32 /\ a + (k - a) = k
    BY <1>3
  <2>2. e \in Nat /\ e > 0
    BY <2>1, PowerType
  <2>3. q = e * p
    <3>1. Power(a + (k - a)) = p * e
      BY <2>1, PowersAdd
    <3> HIDE DEF p, e
    <3>2. p * e = e * p
      BY <1>1, <2>2
    <3> QED BY <2>1, <3>1, <3>2
  <2> HIDE DEF p, q, e
  <2>4. (x * p + 0) \div (e * p) = x \div e
    <3>1. 0 \in 0 .. p - 1
      BY <1>1
    <3> QED BY <1>1, <2>2, <3>1, DividedMultiple
  <2>5. x * p + 0 = x * p
    BY <1>2
  <2>6. At(x * p, q) = At(x, e)
    BY <2>3, <2>4, <2>5 DEF At
  <2> QED BY <2>6 DEF e
<1>4. ASSUME k < a
      PROVE  At(x * p, q) = 0
  <2>1. PICK e \in Nat : e >= 1 /\ p = (2 * e) * q
    BY <1>4, PowersApart
  <2> HIDE DEF p, q
  <2>2. x * p = (2 * (x * e)) * q + 0
    <3>1. x * ((2 * e) * q) = (2 * (x * e)) * q + 0
      BY <1>1, <2>1
    <3> QED BY <2>1, <3>1
  <2>3. (((2 * (x * e)) * q + 0) \div q) % 2 = (0 \div q) % 2
    <3> DEFINE l == x * e
    <3>1. l \in Nat
      OBVIOUS
    <3> HIDE DEF l
    <3>2. (((2 * l) * q + 0) \div q) % 2 = (0 \div q) % 2
      BY <1>1, <3>1, EvenAbove
    <3> QED BY <3>2 DEF l
  <2>4. (0 \div q) % 2 = 0
    <3>1. (0 * q + 0) \div q = 0
      <4>1. 0 \in 0 .. q - 1
        BY <1>1
      <4> QED BY <1>1, <4>1, Divided
    <3>2. 0 * q + 0 = 0
      BY <1>1
    <3> QED BY <3>1, <3>2
  <2> QED BY <2>2, <2>3, <2>4 DEF At
<1> QED BY <1>2, <1>3, <1>4

-----------------------------------------------------------------------------
LEMMA AtIs ==
    ASSUME NEW p \in Nat, p > 0, NEW x \in Nat
    PROVE  /\ At(x, p) \in {0, 1}
           /\ x < p => At(x, p) = 0
           /\ x < 2 * p => (At(x, p) = 1 <=> x >= p)
<1> DEFINE q == x \div p
           r == x % p
<1>1. q \in Nat /\ r \in 0 .. p - 1 /\ x = q * p + r
  BY Division
<1>2. q % 2 \in {0, 1}
  BY <1>1
<1> HIDE DEF q, r
<1>3. ASSUME x < p
      PROVE  q = 0
  <2>1. CASE q >= 1
    <3>1. (q - 1) * p >= 0
      BY <1>1, <2>1
    <3> QED BY <1>1, <1>3, <3>1
  <2> QED BY <1>1, <2>1
<1>4. ASSUME x < 2 * p, x >= p
      PROVE  q = 1
  <2>1. CASE q >= 2
    <3>1. (q - 2) * p >= 0
      BY <1>1, <2>1
    <3> QED BY <1>1, <1>4, <3>1
  <2>2. CASE q = 0
    BY <1>1, <1>4, <2>2
  <2> QED BY <1>1, <2>1, <2>2
<1>5. 0 % 2 = 0 /\ 1 % 2 = 1
  OBVIOUS
<1> QED BY <1>2, <1>3, <1>4, <1>5 DEF At, q

(* The bits of a word.                                                     *)
LEMMA WordIs ==
    /\ WordBits \in 1 .. 32 /\ WordBits - 1 \in 0 .. 32
    /\ Range = Power(WordBits) /\ Range = 2 * Power(WordBits - 1)
    /\ Power(WordBits - 1) \in Nat /\ Power(WordBits - 1) > 0
    /\ \A x \in Words : x \in Nat /\ x < Range
    /\ \A x \in Nat : x < Range => x \in Words
    /\ \A x \in Words : Sign(x) <=> At(x, Power(WordBits - 1)) = 1
<1>1. WordBits \in 1 .. 32
  BY AluAssumption
<1>2. WordBits - 1 \in 0 .. 32 /\ Range = Power(WordBits)
  BY <1>1 DEF Range, Power
<1>3. Range = 2 * Power(WordBits - 1)
  BY <1>1, <1>2, PowerNext
<1>4. Power(WordBits - 1) \in Nat /\ Power(WordBits - 1) > 0
  BY <1>2, PowerType
<1> DEFINE h == Power(WordBits - 1)
<1> HIDE DEF h
<1>5. h \in Nat /\ h > 0 /\ Range = 2 * h
  BY <1>3, <1>4 DEF h
<1>6. Range \div 2 = h
  BY <1>5
<1>7. \A x \in Words : x \in Nat /\ x < Range
  BY <1>5 DEF Words
<1>8. \A x \in Nat : x < Range => x \in Words
  BY <1>5 DEF Words
<1>9. ASSUME NEW x \in Words
      PROVE  Sign(x) <=> At(x, h) = 1
  <2>1. x \in Nat /\ x < 2 * h
    BY <1>5, <1>7
  <2>2. At(x, h) = 1 <=> x >= h
    BY <1>5, <2>1, AtIs
  <2> QED BY <1>6, <2>2 DEF Sign
<1> QED BY <1>1, <1>2, <1>3, <1>4, <1>7, <1>8, <1>9 DEF h

LEMMA PowersGrow ==
    ASSUME NEW k \in 0 .. 32, NEW n \in 0 .. 32, k <= n
    PROVE  Power(k) <= Power(n)
<1>1. CASE k = n
  BY <1>1, PowerType
<1>2. CASE k < n
  <2> DEFINE p == Power(k)
             q == Power(n)
  <2>1. PICK e \in Nat : e >= 1 /\ q = (2 * e) * p
    BY <1>2, PowersApart
  <2>2. p \in Nat
    BY PowerType
  <2> HIDE DEF p, q
  <2>3. (2 * e) * p = p + (2 * e - 1) * p
    BY <2>1, <2>2
  <2>4. (2 * e - 1) * p >= 0
    BY <2>1, <2>2
  <2>5. q >= p
    BY <2>1, <2>2, <2>3, <2>4
  <2> QED BY <2>5 DEF p, q
<1> QED BY <1>1, <1>2

(* Zero has no bits, and no bit counts from the lowest.                    *)
LEMMA ZeroBits ==
    /\ \A k \in 0 .. 32 : ~Bit(0, k)
    /\ \A x \in Nat : Bit(x, 0) <=> x % 2 = 1
<1>1. ASSUME NEW k \in 0 .. 32
      PROVE  ~Bit(0, k)
  <2>1. Power(k) \in Nat /\ Power(k) > 0
    BY PowerType
  <2>2. At(0, Power(k)) = 0
    BY <2>1, AtIs
  <2> QED BY <2>2, BitIs
<1>2. ASSUME NEW x \in Nat
      PROVE  Bit(x, 0) <=> x % 2 = 1
  <2>1. x \div 1 = x /\ Power(0) = 1
    BY PowerType
  <2> QED BY <2>1, BitIs DEF At
<1> QED BY <1>1, <1>2

-----------------------------------------------------------------------------
(* What the reference says of a shift's result.                            *)
MovesBits(s, value, type, amount) ==
    /\ s.carry <=> LostBit(value, type, amount)
    /\ s.value \in Words
    /\ \A k \in 0 .. WordBits - 1 :
          Bit(s.value, k) <=> MovedBit(value, type, amount, k)

LEMMA ShiftedIs ==
    ASSUME NEW x, NEW c
    PROVE  Shifted(x, c).value = x /\ Shifted(x, c).carry = c
BY DEF Shifted

LEMMA IsShifted ==
    ASSUME NEW x, NEW c, NEW value, NEW type, NEW amount,
           x \in Words, c <=> LostBit(value, type, amount),
           \A k \in 0 .. WordBits - 1 : Bit(x, k) <=> MovedBit(value, type, amount, k)
    PROVE  MovesBits(Shifted(x, c), value, type, amount)
BY DEF MovesBits, Shifted

(* Shifted left in a word: the bits that stay move up.                     *)
LEMMA LeftInWord ==
    ASSUME NEW a \in 0 .. 32, NEW x \in Nat, NEW y, y = (x * Power(a)) % Range
    PROVE  /\ y \in Words
           /\ \A k \in 0 .. WordBits - 1 : Bit(y, k) <=> k >= a /\ Bit(x, k - a)
<1> DEFINE z == x * Power(a)
<1>1. z \in Nat
  BY BitsUp
<1>2. WordBits \in 0 .. 32 /\ Range = Power(WordBits)
  BY WordIs
<1>3. y \in 0 .. Range - 1
  BY <1>1, HalfOfRange
<1>4. ASSUME NEW k \in 0 .. WordBits - 1
      PROVE  Bit(y, k) <=> k >= a /\ Bit(x, k - a)
  <2>1. k \in 0 .. 32 /\ k < WordBits
    BY <1>2
  <2>2. /\ k >= a => At(z, Power(k)) = At(x, Power(k - a))
        /\ k < a => At(z, Power(k)) = 0
    BY <2>1, BitsUp
  <2> HIDE DEF z
  <2>3. At(z % Range, Power(k)) = At(z, Power(k))
    <3>1. At(z % Power(WordBits), Power(k)) = At(z, Power(k))
      BY <1>1, <1>2, <2>1, LowerBits
    <3> QED BY <1>2, <3>1
  <2>4. At(y, Power(k)) = At(z, Power(k))
    BY <2>3 DEF z
  <2>5. /\ Bit(y, k) <=> At(y, Power(k)) = 1
        /\ Bit(x, k - a) <=> At(x, Power(k - a)) = 1
    BY BitIs
  <2> QED BY <2>1, <2>2, <2>4, <2>5
<1> QED BY <1>3, <1>4 DEF Words

LEMMA LeftMoves ==
    ASSUME NEW value \in Words, NEW amount \in 1 .. 255, NEW carry
    PROVE  MovesBits(ShiftLeft(value, amount, carry), value, "LSL", amount)
<1>1. WordBits \in 1 .. 32 /\ value \in Nat /\ 0 \in Words
  BY WordIs, HalfOfRange DEF Words
<1>2. CASE amount < WordBits
  <2> DEFINE b == amount - 1
             almost == (value * 2 ^ b) % Range
             x == (almost * 2) % Range
  <2>1. b \in 0 .. 32 /\ b < WordBits
    BY <1>1, <1>2
  <2>2. almost = (value * Power(b)) % Range
    BY DEF Power
  <2>3. ShiftLeft(value, amount, carry) = Shifted(x, Sign(almost))
    <3>1. amount # 0
      OBVIOUS
    <3> QED BY <1>2, <3>1, Zenon DEF ShiftLeft
  <2> HIDE DEF almost
  <2>4. /\ almost \in Words
        /\ \A k \in 0 .. WordBits - 1 : Bit(almost, k) <=> k >= b /\ Bit(value, k - b)
    BY <1>1, <2>1, <2>2, LeftInWord
  <2>5. x = (almost * Power(1)) % Range
    <3>1. Power(1) = 2
      BY SMT DEF Power
    <3> QED BY <3>1
  <2> HIDE DEF x
  <2>6. /\ x \in Words
        /\ \A k \in 0 .. WordBits - 1 : Bit(x, k) <=> k >= 1 /\ Bit(almost, k - 1)
    <3>1. almost \in Nat
      BY <2>4, WordIs
    <3> QED BY <2>5, <3>1, LeftInWord
  <2>7. Sign(almost) <=> LostBit(value, "LSL", amount)
    <3>1. Sign(almost) <=> Bit(almost, WordBits - 1)
      BY <2>4, WordIs, BitIs
    <3>2. /\ WordBits - 1 \in 0 .. WordBits - 1 /\ WordBits - 1 >= b
          /\ (WordBits - 1) - b = WordBits - amount /\ amount <= WordBits
      BY <1>1, <1>2
    <3>3. Sign(almost) <=> Bit(value, WordBits - amount)
      BY <2>4, <3>1, <3>2
    <3> QED BY <3>2, <3>3 DEF LostBit
  <2>8. ASSUME NEW k \in 0 .. WordBits - 1
        PROVE  Bit(x, k) <=> MovedBit(value, "LSL", amount, k)
    <3>1. Bit(x, k) <=> k >= amount /\ Bit(value, k - amount)
      <4>1. CASE k = 0
        BY <1>1, <2>6, <4>1
      <4>2. CASE k # 0
        <5>1. /\ k - 1 \in 0 .. WordBits - 1 /\ k >= 1 /\ (k - 1) - b = k - amount
              /\ k - 1 >= b <=> k >= amount
          BY <1>1, <4>2
        <5> QED BY <2>4, <2>6, <5>1
      <4> QED BY <4>1, <4>2
    <3> QED BY <3>1 DEF MovedBit
  <2> QED BY <2>3, <2>6, <2>7, <2>8, IsShifted
<1>3. ASSUME amount >= WordBits
      PROVE  \A k \in 0 .. WordBits - 1 : Bit(0, k) <=> MovedBit(value, "LSL", amount, k)
  <2> SUFFICES ASSUME NEW k \in 0 .. WordBits - 1
               PROVE  Bit(0, k) <=> MovedBit(value, "LSL", amount, k)
    OBVIOUS
  <2>1. k \in 0 .. 32 /\ ~(k >= amount)
    BY <1>1, <1>3
  <2> QED BY <2>1, ZeroBits DEF MovedBit
<1>4. CASE amount = WordBits
  <2>1. amount # 0 /\ ~(amount < WordBits) /\ amount >= WordBits
    BY <1>1, <1>4
  <2>2. ShiftLeft(value, amount, carry) = Shifted(0, value % 2 = 1)
    BY <1>4, <2>1, Zenon DEF ShiftLeft
  <2>3. value % 2 = 1 <=> LostBit(value, "LSL", amount)
    <3>1. WordBits - amount = 0 /\ amount <= WordBits
      BY <1>1, <1>4
    <3> QED BY <1>1, <3>1, ZeroBits DEF LostBit
  <2> DEFINE c == value % 2 = 1
  <2> HIDE DEF c
  <2>4. MovesBits(Shifted(0, c), value, "LSL", amount)
    BY <1>1, <1>3, <2>1, <2>3, IsShifted, Zenon DEF c
  <2> QED BY <2>2, <2>4 DEF c
<1>5. CASE amount > WordBits
  <2>1. amount # 0 /\ ~(amount < WordBits) /\ amount # WordBits
        /\ amount >= WordBits /\ ~(amount <= WordBits)
    BY <1>1, <1>5
  <2>2. ShiftLeft(value, amount, carry) = Shifted(0, FALSE)
    BY <2>1, Zenon DEF ShiftLeft
  <2>3. FALSE <=> LostBit(value, "LSL", amount)
    BY <2>1 DEF LostBit
  <2> QED BY <1>1, <1>3, <2>1, <2>2, <2>3, IsShifted, Zenon
<1> QED BY <1>1, <1>2, <1>4, <1>5

-----------------------------------------------------------------------------
(* Shifted right: the upper amount of bits are 0.                          *)
LEMMA RightInWord ==
    ASSUME NEW a \in 0 .. WordBits, NEW x \in Words
    PROVE  /\ x \div Power(a) \in Nat
           /\ x \div Power(a) < Power(WordBits - a)
           /\ \A k \in 0 .. WordBits - 1 :
                 Bit(x \div Power(a), k) <=> k + a < WordBits /\ Bit(x, k + a)
<1> DEFINE p == Power(a)
           n == WordBits - a
           q == Power(n)
           y == x \div p
<1>1. WordBits \in 1 .. 32 /\ a \in 0 .. 32 /\ n \in 0 .. 32 /\ a + n = WordBits
      /\ x \in Nat /\ x < Range /\ Range = Power(WordBits)
  BY WordIs
<1>2. p \in Nat /\ p > 0 /\ q \in Nat /\ q > 0
  BY <1>1, PowerType
<1>3. Range = p * q
  <2> HIDE DEF n
  <2>1. Power(a + n) = Power(a) * Power(n)
    BY <1>1, PowersAdd
  <2> QED BY <1>1, <2>1
<1>4. y \in Nat /\ y < q
  <2> HIDE DEF p, q
  <2> DEFINE r == x % p
  <2>1. y \in Nat /\ r \in 0 .. p - 1 /\ x = y * p + r
    BY <1>1, <1>2, Division
  <2> HIDE DEF y, r
  <2>2. CASE y >= q
    <3>1. (y - q) * p >= 0
      BY <1>2, <2>1, <2>2
    <3>2. (y - q) * p = y * p - p * q
      BY <1>2, <2>1
    <3>3. y * p \in Int /\ p * q \in Int
      BY <1>2, <2>1
    <3>4. x >= p * q
      BY <1>1, <2>1, <3>1, <3>2, <3>3
    <3> QED BY <1>1, <1>3, <3>3, <3>4
  <2> QED BY <1>2, <2>1, <2>2
<1>5. ASSUME NEW k \in 0 .. WordBits - 1
      PROVE  Bit(y, k) <=> k + a < WordBits /\ Bit(x, k + a)
  <2>1. CASE k + a < WordBits
    <3>1. k \in 0 .. 32 /\ a + k <= 32 /\ a + k = k + a
      BY <1>1, <2>1
    <3>2. At(y, Power(k)) = At(x, Power(k + a))
      <4>1. At(x \div Power(a), Power(k)) = At(x, Power(a + k))
        BY <1>1, <3>1, BitsDown
      <4> QED BY <3>1, <4>1
    <3> QED BY <2>1, <3>2, BitIs
  <2>2. CASE ~(k + a < WordBits)
    <3>1. k \in 0 .. 32 /\ n <= k
      BY <1>1, <2>2
    <3>2. q <= Power(k) /\ Power(k) \in Nat /\ Power(k) > 0
      BY <1>1, <3>1, PowersGrow, PowerType
    <3> HIDE DEF y, q
    <3>3. y < Power(k)
      BY <1>2, <1>4, <3>2
    <3>4. At(y, Power(k)) = 0
      BY <1>4, <3>2, <3>3, AtIs
    <3> QED BY <2>2, <3>4, BitIs
  <2> QED BY <2>1, <2>2
<1> QED BY <1>4, <1>5

LEMMA LastOutBit ==
    ASSUME NEW value, NEW amount
    PROVE  LastOut(value, amount) <=> Bit(value, amount - 1)
BY DEF LastOut, Bit

\* Below Power(n), so a word.
LEMMA PartIsWord ==
    ASSUME NEW n \in 0 .. WordBits, NEW x \in Nat, x < Power(n)
    PROVE  x \in Words
<1>1. WordBits \in 1 .. 32 /\ Range = Power(WordBits)
  BY WordIs
<1>2. n \in 0 .. 32 /\ WordBits \in 0 .. 32 /\ n <= WordBits
  BY <1>1
<1>3. Power(n) <= Range /\ Power(n) \in Nat /\ Range \in Nat
  BY <1>1, <1>2, PowersGrow, PowerType
<1> QED BY <1>3, WordIs

(* Rotated or shifted, the sum of a part below Power(n) and of a multiple  *)
(* of it has the bits of the one below n, and those of the other above.    *)
LEMMA JoinedBits ==
    ASSUME NEW n \in 0 .. 32, NEW low \in Nat, low < Power(n), NEW c \in Nat,
           NEW k \in 0 .. 32
    PROVE  /\ c * Power(n) \in Nat
           /\ k < n => (Bit(low + c * Power(n), k) <=> Bit(low, k))
           /\ k >= n => (Bit(low + c * Power(n), k) <=> Bit(c * Power(n), k))
<1> DEFINE p == Power(k)
           q == Power(n)
<1>1. p \in Nat /\ p > 0 /\ q \in Nat /\ q > 0 /\ low < q
  BY PowerType
<1>2. c * q \in Nat
  <2> HIDE DEF q
  <2> QED BY <1>1
<1>3. ASSUME k < n
      PROVE  At(low + c * q, p) = At(low, p)
  <2>1. PICK e \in Nat : e >= 1 /\ q = (2 * e) * p
    BY <1>3, PowersApart
  <2> HIDE DEF p, q
  <2>2. low + c * q = (2 * (c * e)) * p + low
    <3>1. c * ((2 * e) * p) = (2 * (c * e)) * p
      BY <1>1, <2>1
    <3>2. c * q \in Int
      BY <1>1
    <3> QED BY <2>1, <3>1, <3>2
  <2> DEFINE l == c * e
  <2>3. l \in Nat
    BY <2>1
  <2>4. low + c * q = (2 * l) * p + low
    BY <2>2
  <2> HIDE DEF l
  <2>5. (((2 * l) * p + low) \div p) % 2 = (low \div p) % 2
    BY <1>1, <2>3, EvenAbove
  <2> QED BY <2>4, <2>5 DEF At
<1>4. ASSUME k >= n
      PROVE  At(low + c * q, p) = At(c * q, p)
  <2> DEFINE e == Power(k - n)
  <2>1. k - n \in 0 .. 32 /\ n + (k - n) = k
    BY <1>4
  <2>2. e \in Nat /\ e > 0
    BY <2>1, PowerType
  <2>3. p = e * q
    <3>1. Power(n + (k - n)) = q * e
      BY <2>1, PowersAdd
    <3> HIDE DEF q, e
    <3>2. q * e = e * q
      BY <1>1, <2>2
    <3> QED BY <2>1, <3>1, <3>2
  <2> HIDE DEF p, q, e
  <2>4. low \in 0 .. q - 1 /\ 0 \in 0 .. q - 1
    BY <1>1
  <2>5. (c * q + low) \div (e * q) = c \div e /\ (c * q + 0) \div (e * q) = c \div e
    BY <1>1, <2>2, <2>4, DividedMultiple
  <2>6. low + c * q = c * q + low /\ c * q + 0 = c * q
    BY <1>1, <1>2
  <2> QED BY <2>3, <2>5, <2>6 DEF At
<1> QED BY <1>2, <1>3, <1>4, BitIs

(* The sign's copies: all the bits from n on.                              *)
LEMMA OnesAbove ==
    ASSUME NEW n \in 0 .. WordBits, NEW low \in Nat, low < Power(n)
    PROVE  /\ low + (Range - Power(n)) \in Words
           /\ \A k \in 0 .. WordBits - 1 :
                 Bit(low + (Range - Power(n)), k) <=> k >= n \/ Bit(low, k)
<1> DEFINE m == WordBits - n
           q == Power(n)
           c == Power(m) - 1
           x == low + (Range - q)
<1>1. /\ WordBits \in 1 .. 32 /\ n \in 0 .. 32 /\ m \in 0 .. 32 /\ n + m = WordBits
      /\ Range = Power(WordBits) /\ Range \in Nat
  BY WordIs, HalfOfRange
<1>2. q \in Nat /\ q > 0 /\ Power(m) \in Nat /\ Power(m) >= 1 /\ low < q
  BY <1>1, PowerType
<1>3. Range = q * Power(m)
  <2> HIDE DEF m
  <2>1. Power(n + m) = Power(n) * Power(m)
    BY <1>1, PowersAdd
  <2> QED BY <1>1, <2>1
<1>4. c \in Nat /\ Power(m) = c + 1
  BY <1>2
<1> HIDE DEF c, q, m
<1>5. Range - q = c * q
  BY <1>2, <1>3, <1>4
<1>6. x \in Words
  <2>1. c * q \in Nat /\ c * q + q = Range
    BY <1>2, <1>3, <1>4
  <2> QED BY <1>2, <1>5, <2>1, WordIs
<1>7. ASSUME NEW k \in 0 .. WordBits - 1
      PROVE  Bit(x, k) <=> k >= n \/ Bit(low, k)
  <2>1. k \in 0 .. 32
    BY <1>1
  <2>2. CASE k < n
    <3>1. Bit(low + c * q, k) <=> Bit(low, k)
      BY <1>1, <1>4, <2>1, <2>2, JoinedBits DEF q
    <3> QED BY <1>1, <1>5, <2>2, <3>1
  <2>3. CASE k >= n
    <3> DEFINE p == Power(k)
    <3>1. p \in Nat /\ p > 0 /\ p >= q
      BY <1>1, <2>1, <2>3, PowersGrow, PowerType DEF q
    <3>2. PICK e \in Nat : e >= 1 /\ Power(WordBits) = (2 * e) * p
      <4>1. k < WordBits /\ WordBits \in 0 .. 32
        BY <1>1
      <4> QED BY <2>1, <4>1, PowersApart
    <3> HIDE DEF p
    <3> DEFINE r == (p - q) + low
               l == 2 * e - 1
    <3>3. r \in 0 .. p - 1 /\ l \in Int
      BY <1>2, <3>1
    <3>4. x = l * p + r
      <4>1. (2 * e - 1) * p = (2 * e) * p - p
        BY <3>1
      <4>2. (2 * e) * p \in Int
        BY <3>1
      <4> QED BY <1>1, <1>2, <3>1, <3>2, <4>1, <4>2
    <3> HIDE DEF r
    <3>5. l % 2 = 1
      <4>1. l = (e - 1) * 2 + 1 /\ e - 1 \in Int /\ 1 \in 0 .. 2 - 1
        OBVIOUS
      <4>2. ((e - 1) * 2 + 1) % 2 = 1
        BY <4>1, Divided
      <4> QED BY <4>1, <4>2
    <3> HIDE DEF l, x
    <3>6. (l * p + r) \div p = l
      BY <3>1, <3>3, Divided
    <3>7. At(x, p) = 1
      BY <3>4, <3>5, <3>6 DEF At
    <3> QED BY <2>3, <3>7, BitIs DEF p
  <2> QED BY <1>1, <2>1, <2>2, <2>3
<1> QED BY <1>6, <1>7 DEF x, q

-----------------------------------------------------------------------------
LEMMA RightMoves ==
    ASSUME NEW value \in Words, NEW type \in {"LSR", "ASR"}, NEW amount \in 1 .. WordBits
    PROVE  MovesBits(ShiftRight(value, amount, type = "ASR"), value, type, amount)
<1> DEFINE low == value \div Power(amount)
           n == WordBits - amount
<1>1. /\ WordBits \in 1 .. 32 /\ amount \in 0 .. WordBits
      /\ n \in 0 .. WordBits /\ Lower(amount, WordBits) = amount
      /\ amount <= WordBits
  BY WordIs DEF Lower
<1>2. /\ low \in Nat /\ low < Power(n)
      /\ \A k \in 0 .. WordBits - 1 : Bit(low, k) <=> k + amount < WordBits /\ Bit(value, k + amount)
  BY <1>1, RightInWord
<1>3. Sign(value) <=> Bit(value, WordBits - 1)
  BY WordIs, BitIs
<1>4. LastOut(value, amount) <=> LostBit(value, type, amount)
  BY <1>1, LastOutBit DEF LostBit
<1>5. ASSUME NEW k \in 0 .. WordBits - 1
      PROVE  Lower(k + amount, WordBits - 1)
               = IF k + amount < WordBits THEN k + amount ELSE WordBits - 1
  BY <1>1 DEF Lower
<1> HIDE DEF low
<1>6. CASE type = "ASR" /\ Sign(value)
  <2>1. ShiftRight(value, amount, type = "ASR")
          = Shifted(low + (Range - Power(n)), LastOut(value, amount))
    BY <1>6 DEF ShiftRight, UpperOnes, Power, low
  <2> DEFINE x == low + (Range - Power(n))
  <2>2. /\ x \in Words
        /\ \A k \in 0 .. WordBits - 1 : Bit(x, k) <=> k >= n \/ Bit(low, k)
    BY <1>1, <1>2, OnesAbove
  <2> HIDE DEF x
  <2>3. ASSUME NEW k \in 0 .. WordBits - 1
        PROVE  Bit(x, k) <=> MovedBit(value, type, amount, k)
    <3>1. k >= n <=> ~(k + amount < WordBits)
      BY <1>1
    <3>2. Bit(x, k) <=> Bit(value, Lower(k + amount, WordBits - 1))
      BY <1>2, <1>3, <1>5, <1>6, <2>2, <3>1
    <3> QED BY <1>6, <3>2 DEF MovedBit
  <2> QED BY <1>4, <2>1, <2>2, <2>3, IsShifted DEF x
<1>7. CASE ~(type = "ASR" /\ Sign(value))
  <2>1. ShiftRight(value, amount, type = "ASR") = Shifted(low, LastOut(value, amount))
    <3>1. low + 0 = low
      BY <1>2
    <3> QED BY <1>7, <3>1 DEF ShiftRight, Power, low
  <2>2. low \in Words
    BY <1>1, <1>2, PartIsWord
  <2>3. ASSUME NEW k \in 0 .. WordBits - 1
        PROVE  Bit(low, k) <=> MovedBit(value, type, amount, k)
    <3>1. CASE type = "LSR"
      BY <1>2, <3>1 DEF MovedBit
    <3>2. CASE type = "ASR"
      <4>1. Bit(low, k) <=> Bit(value, Lower(k + amount, WordBits - 1))
        BY <1>2, <1>3, <1>5, <1>7, <3>2
      <4> QED BY <3>2, <4>1 DEF MovedBit
    <3> QED BY <3>1, <3>2
  <2> QED BY <1>4, <2>1, <2>2, <2>3, IsShifted
<1> QED BY <1>6, <1>7

(* By more than the word has bits nothing is left, but for the sign.       *)
LEMMA FarRightMoves ==
    ASSUME NEW value \in Words, NEW type \in {"LSR", "ASR"}, NEW amount \in 1 .. 255,
           amount > WordBits, ~(type = "ASR" /\ Sign(value)),
           NEW s \in ShiftRightFar(value, amount, type = "ASR")
    PROVE  MovesBits(s, value, type, amount)
<1>1. s = Shifted(0, FALSE)
  BY DEF ShiftRightFar
<1>2. WordBits \in 1 .. 32 /\ 0 \in Words
  BY WordIs, HalfOfRange DEF Words
<1>3. Sign(value) <=> Bit(value, WordBits - 1)
  BY WordIs, BitIs
<1>4. ~LostBit(value, type, amount)
  <2>1. ~(amount <= WordBits) /\ Lower(amount, WordBits) = WordBits
    BY <1>2 DEF Lower
  <2> QED BY <1>3, <2>1 DEF LostBit
<1>5. ASSUME NEW k \in 0 .. WordBits - 1
      PROVE  Bit(0, k) <=> MovedBit(value, type, amount, k)
  <2>1. /\ k \in 0 .. 32 /\ ~(k + amount < WordBits)
        /\ Lower(k + amount, WordBits - 1) = WordBits - 1
    BY <1>2 DEF Lower
  <2>2. ~Bit(0, k)
    BY <2>1, ZeroBits
  <2> QED BY <1>3, <2>1, <2>2 DEF MovedBit
<1> QED BY <1>1, <1>2, <1>4, <1>5, IsShifted

(* Rotating by the amount is rotating by its remainder.                    *)
LEMMA RotatedBy ==
    ASSUME NEW amount \in 1 .. 255, NEW by,
           by = IF amount % WordBits = 0 THEN WordBits ELSE amount % WordBits
    PROVE  /\ by \in 1 .. WordBits
           /\ (amount - 1) % WordBits = by - 1
           /\ \A k \in 0 .. WordBits - 1 : (k + amount) % WordBits =
                 IF k + by < WordBits THEN k + by ELSE (k + by) - WordBits
<1> DEFINE d == amount \div WordBits
           r == amount % WordBits
<1>1. WordBits \in 1 .. 32
  BY WordIs
<1>2. d \in Nat /\ r \in 0 .. WordBits - 1 /\ amount = d * WordBits + r
  BY <1>1, Division
<1>3. by = IF r = 0 THEN WordBits ELSE r
  OBVIOUS
<1> HIDE DEF d, r
<1>4. by \in 1 .. WordBits
  BY <1>1, <1>2, <1>3
<1>5. PICK e \in Int : amount = e * WordBits + by
  <2>1. CASE r = 0
    <3>1. amount = (d - 1) * WordBits + WordBits
      BY <1>1, <1>2, <2>1
    <3> QED BY <1>2, <1>3, <2>1, <3>1
  <2>2. CASE r # 0
    BY <1>2, <1>3, <2>2
  <2> QED BY <2>1, <2>2
<1>6. (amount - 1) % WordBits = by - 1
  <2>1. by - 1 \in 0 .. WordBits - 1 /\ amount - 1 = e * WordBits + (by - 1)
    BY <1>1, <1>4, <1>5
  <2> QED BY <1>1, <2>1, Divided
<1>7. ASSUME NEW k \in 0 .. WordBits - 1
      PROVE  (k + amount) % WordBits
               = IF k + by < WordBits THEN k + by ELSE (k + by) - WordBits
  <2>1. CASE k + by < WordBits
    <3>1. k + by \in 0 .. WordBits - 1 /\ k + amount = e * WordBits + (k + by)
      BY <1>1, <1>4, <1>5, <2>1
    <3>2. (k + amount) % WordBits = k + by
      BY <1>1, <3>1, Divided
    <3> QED BY <2>1, <3>2
  <2>2. CASE ~(k + by < WordBits)
    <3>1. /\ (k + by) - WordBits \in 0 .. WordBits - 1 /\ e + 1 \in Int
          /\ k + amount = (e + 1) * WordBits + ((k + by) - WordBits)
      BY <1>1, <1>4, <1>5, <2>2
    <3>2. (k + amount) % WordBits = (k + by) - WordBits
      BY <1>1, <3>1, Divided
    <3> QED BY <2>2, <3>2
  <2> QED BY <2>1, <2>2
<1> QED BY <1>4, <1>6, <1>7

(* What is rotated to the upper bits are the lower ones.                   *)
LEMMA UpperPart ==
    ASSUME NEW by \in 1 .. WordBits, NEW value \in Words
    PROVE  \E c \in Nat : /\ c < Power(by)
                          /\ (value * Power(WordBits - by)) % Range
                               = c * Power(WordBits - by)
<1> DEFINE m == WordBits - by
           p == Power(by)
           q == Power(m)
           u == value \div p
           c == value % p
<1>1. /\ WordBits \in 1 .. 32 /\ by \in 0 .. 32 /\ m \in 0 .. 32 /\ by + m = WordBits
      /\ Range = Power(WordBits) /\ Range \in Nat /\ Range > 0 /\ value \in Nat
  BY WordIs, HalfOfRange
<1>2. p \in Nat /\ p > 0 /\ q \in Nat /\ q > 0
  BY <1>1, PowerType
<1>3. Range = p * q
  <2> HIDE DEF m
  <2>1. Power(by + m) = Power(by) * Power(m)
    BY <1>1, PowersAdd
  <2> QED BY <1>1, <2>1
<1> HIDE DEF p, q
<1>4. u \in Nat /\ c \in 0 .. p - 1 /\ value = u * p + c
  BY <1>1, <1>2, Division
<1> HIDE DEF u, c
<1>5. value * q = u * Range + c * q
  <2>1. (u * p + c) * q = u * (p * q) + c * q
    BY <1>2, <1>4
  <2> QED BY <1>3, <1>4, <2>1
<1>6. c * q \in 0 .. Range - 1
  <2>1. c * q \in Nat
    BY <1>2, <1>4
  <2>2. ((p - 1) - c) * q >= 0 /\ ((p - 1) - c) * q = (p * q - q) - c * q
    BY <1>2, <1>4
  <2>3. (Range - q) - c * q >= 0
    BY <1>3, <2>2
  <2> DEFINE z == c * q
  <2>4. z \in Nat /\ (Range - q) - z >= 0
    BY <2>1, <2>3
  <2> HIDE DEF z
  <2>5. z \in 0 .. Range - 1
    BY <1>1, <1>2, <2>4
  <2> QED BY <2>5 DEF z
<1>7. (u * Range + c * q) % Range = c * q
  <2> DEFINE z == c * q
  <2>1. z \in 0 .. Range - 1
    BY <1>6
  <2> HIDE DEF z
  <2>2. Range \in Nat /\ Range > 0 /\ u \in Int
    BY <1>1, <1>4
  <2>3. (u * Range + z) % Range = z
    BY <2>1, <2>2, Divided, Zenon
  <2> QED BY <2>3 DEF z
<1>8. (value * q) % Range = c * q /\ c \in Nat /\ c < p
  BY <1>2, <1>4, <1>5, <1>7
<1> QED BY <1>8 DEF p, q

LEMMA RotateMoves ==
    ASSUME NEW value \in Words, NEW amount \in 1 .. 255
    PROVE  MovesBits(RotateRight(value, amount), value, "ROR", amount)
<1> DEFINE by == IF amount % WordBits = 0 THEN WordBits ELSE amount % WordBits
           m == WordBits - by
           low == value \div Power(by)
           x == low + ((value * Power(m)) % Range)
<1>1. WordBits \in 1 .. 32 /\ value \in Nat
  BY WordIs
<1>2. /\ by \in 1 .. WordBits
      /\ (amount - 1) % WordBits = by - 1
      /\ \A k \in 0 .. WordBits - 1 : (k + amount) % WordBits =
            IF k + by < WordBits THEN k + by ELSE (k + by) - WordBits
  BY RotatedBy
<1>3. RotateRight(value, amount) = Shifted(x, LastOut(value, by))
  BY DEF RotateRight, Power
<1> HIDE DEF by
<1>4. by \in 0 .. WordBits /\ m \in 0 .. 32 /\ m \in 0 .. WordBits /\ by + m = WordBits
  BY <1>1, <1>2
<1>5. /\ low \in Nat /\ low < Power(m)
      /\ \A k \in 0 .. WordBits - 1 : Bit(low, k) <=> k + by < WordBits /\ Bit(value, k + by)
  BY <1>4, RightInWord
<1>6. PICK c \in Nat : c < Power(by) /\ (value * Power(m)) % Range = c * Power(m)
  BY <1>2, UpperPart
<1> HIDE DEF m, low
<1>7. \A k \in 0 .. WordBits - 1 : Bit(c * Power(m), k) <=> k >= m /\ Bit(value, k - m)
  <2> DEFINE y == c * Power(m)
  <2>1. y = (value * Power(m)) % Range
    BY <1>6
  <2> HIDE DEF y
  <2>2. \A k \in 0 .. WordBits - 1 : Bit(y, k) <=> k >= m /\ Bit(value, k - m)
    BY <1>1, <1>4, <2>1, LeftInWord
  <2> QED BY <2>2 DEF y
<1>8. x = low + c * Power(m)
  BY <1>6
<1>9. x \in Words
  <2> DEFINE p == Power(by)
             q == Power(m)
  <2>1. p \in Nat /\ q \in Nat /\ c < p /\ low < q
    BY <1>1, <1>4, <1>5, <1>6, PowerType
  <2>2. Range = p * q /\ Range \in Nat
    <3>1. by \in 0 .. 32 /\ by + m <= 32
      BY <1>1, <1>4
    <3>2. Range = Power(by + m)
      BY <1>4, WordIs, Zenon
    <3>3. Power(by + m) = Power(by) * Power(m)
      BY <1>4, <3>1, PowersAdd
    <3> QED BY <3>2, <3>3, HalfOfRange
  <2> HIDE DEF p, q
  <2>3. ((p - 1) - c) * q >= 0 /\ ((p - 1) - c) * q = (p * q - q) - c * q
    BY <2>1
  <2>4. c * q \in Nat
    BY <2>1
  <2>5. low + c * q \in Nat /\ low + c * q < Range
    BY <1>5, <2>1, <2>2, <2>3, <2>4
  <2>6. low + c * q \in Words
    BY <2>5, WordIs
  <2> QED BY <1>8, <2>6 DEF q
<1>10. ASSUME NEW k \in 0 .. WordBits - 1
       PROVE  Bit(x, k) <=> MovedBit(value, "ROR", amount, k)
  <2>1. k \in 0 .. 32
    BY <1>1
  <2>2. /\ k < m => (Bit(low + c * Power(m), k) <=> Bit(low, k))
        /\ k >= m => (Bit(low + c * Power(m), k) <=> Bit(c * Power(m), k))
    BY <1>4, <1>5, <2>1, JoinedBits
  <2>3. (k < m <=> k + by < WordBits) /\ (k >= m => k - m = (k + by) - WordBits)
        /\ (k < m \/ k >= m)
    BY <1>1, <1>4
  <2>4. Bit(x, k) <=> Bit(value, (k + amount) % WordBits)
    BY <1>2, <1>5, <1>7, <1>8, <2>2, <2>3
  <2> QED BY <2>4 DEF MovedBit
<1>11. LastOut(value, by) <=> LostBit(value, "ROR", amount)
  BY <1>2, LastOutBit DEF LostBit
<1> HIDE DEF x
<1> QED BY <1>3, <1>9, <1>10, <1>11, IsShifted

(* By a register's 0 nothing moves, and by an immediate 0 to the right     *)
(* everything by one, through the carry.                                   *)
LEMMA ZeroMoves ==
    ASSUME NEW value \in Words, NEW type \in ShiftTypes
    PROVE  /\ value \in Words
           /\ \A k \in 0 .. WordBits - 1 :
                 Bit(value, k) <=> MovedBit(value, type, 0, k)
<1>1. WordBits \in 1 .. 32
  BY WordIs
<1>2. ASSUME NEW k \in 0 .. WordBits - 1
      PROVE  Bit(value, k) <=> MovedBit(value, type, 0, k)
  <2>1. /\ k >= 0 /\ k - 0 = k /\ k + 0 = k /\ k < WordBits
        /\ Lower(k, WordBits - 1) = k /\ k % WordBits = k
    BY <1>1 DEF Lower
  <2> QED BY <2>1 DEF MovedBit, ShiftTypes
<1> QED BY <1>2

LEMMA ExtendedMoves ==
    ASSUME NEW value \in Words, NEW carry \in BOOLEAN
    PROVE  /\ RotateExtended(value, carry).carry <=> Bit(value, 0)
           /\ \A k \in 0 .. WordBits - 1 : Bit(RotateExtended(value, carry).value, k) <=>
                 IF k = WordBits - 1 THEN carry ELSE Bit(value, k + 1)
<1> DEFINE low == value \div Power(1)
           n == WordBits - 1
           c == One(carry)
           x == low + c * Power(n)
<1>1. /\ WordBits \in 1 .. 32 /\ n \in 0 .. 32 /\ 1 \in 0 .. WordBits
      /\ value \in Nat /\ Range \div 2 = Power(n) /\ Power(n) \in Nat
  <2>1. Range = 2 * Power(WordBits - 1) /\ Power(WordBits - 1) \in Nat
    BY WordIs
  <2> QED BY <2>1, WordIs
<1>2. Power(1) = 2
  BY SMT DEF Power
<1>3. /\ low \in Nat /\ low < Power(n)
      /\ \A k \in 0 .. WordBits - 1 : Bit(low, k) <=> k + 1 < WordBits /\ Bit(value, k + 1)
  BY <1>1, RightInWord
<1>4. c \in {0, 1} /\ c \in Nat
  BY DEF One
<1>5. RotateExtended(value, carry) = Shifted(x, value % 2 = 1)
  <2>1. c * Power(n) = IF carry THEN Power(n) ELSE 0
    BY <1>1 DEF One
  <2> QED BY <1>1, <1>2, <2>1 DEF RotateExtended
<1>6. value % 2 = 1 <=> Bit(value, 0)
  BY <1>1, ZeroBits
<1>7. c * Power(n) < 2 * Power(n) /\ c * Power(n) \in Nat /\ Power(n) > 0
      /\ (c * Power(n) >= Power(n) <=> carry)
  <2>1. Power(n) > 0
    BY <1>1, PowerType
  <2> QED BY <1>1, <2>1 DEF One
<1>8. Bit(c * Power(n), n) <=> carry
  <2>1. At(c * Power(n), Power(n)) = 1 <=> carry
    BY <1>1, <1>7, AtIs
  <2> QED BY <2>1, BitIs
<1> HIDE DEF c, low
<1>9. ASSUME NEW k \in 0 .. WordBits - 1
      PROVE  Bit(x, k) <=> IF k = WordBits - 1 THEN carry ELSE Bit(value, k + 1)
  <2>1. k \in 0 .. 32 /\ (k = n \/ (k < n /\ k + 1 < WordBits)) /\ n >= n
    BY <1>1
  <2>2. CASE k = n
    BY <1>1, <1>3, <1>4, <1>8, <2>1, <2>2, JoinedBits
  <2>3. CASE k < n
    <3>1. Bit(x, k) <=> Bit(low, k)
      BY <1>1, <1>3, <1>4, <2>1, <2>3, JoinedBits
    <3> QED BY <1>1, <1>3, <2>1, <2>3, <3>1
  <2> QED BY <2>1, <2>2, <2>3
<1> HIDE DEF x
<1>10. /\ RotateExtended(value, carry).value = x
       /\ RotateExtended(value, carry).carry = (value % 2 = 1)
  BY <1>5, ShiftedIs
<1> QED BY <1>6, <1>9, <1>10

-----------------------------------------------------------------------------
(* The cases of Shift.                                                     *)
LEMMA ShiftMoves ==
    ASSUME NEW value \in Words, NEW type \in ShiftTypes, NEW amount \in 1 .. 255,
           NEW byRegister, NEW carry,
           ~(type = "ASR" /\ Sign(value) /\ amount > WordBits),
           NEW s \in Shift(value, type, amount, byRegister, carry)
    PROVE  MovesBits(s, value, type, amount)
<1>1. WordBits \in 1 .. 32 /\ amount > 0
  BY WordIs
<1>2. CASE type = "LSL"
  <2>1. s = ShiftLeft(value, amount, carry)
    BY <1>2 DEF Shift
  <2> QED BY <1>2, <2>1, LeftMoves
<1>3. CASE type \in {"LSR", "ASR"} /\ amount > WordBits
  <2>1. s \in ShiftRightFar(value, amount, type = "ASR")
    BY <1>3 DEF Shift
  <2> QED BY <1>3, <2>1, FarRightMoves
<1>4. CASE type \in {"LSR", "ASR"} /\ ~(amount > WordBits)
  <2>1. s = ShiftRight(value, amount, type = "ASR")
    BY <1>1, <1>4 DEF Shift
  <2>2. amount \in 1 .. WordBits
    BY <1>1, <1>4
  <2> QED BY <1>4, <2>1, <2>2, RightMoves
<1>5. CASE type = "ROR"
  <2>1. s = RotateRight(value, amount)
    BY <1>1, <1>5 DEF Shift
  <2> QED BY <1>5, <2>1, RotateMoves
<1> QED BY <1>2, <1>3, <1>4, <1>5 DEF ShiftTypes

LEMMA ShiftByZero ==
    ASSUME NEW value \in Words, NEW type \in ShiftTypes, NEW byRegister \in BOOLEAN,
           NEW carry \in BOOLEAN, NEW s \in Shift(value, type, 0, byRegister, carry)
    PROVE  /\ byRegister \/ type = "LSL" => s = Shifted(value, carry)
           /\ ~byRegister /\ type \in {"LSR", "ASR"}
                => s = ShiftRight(value, WordBits, type = "ASR")
           /\ ~byRegister /\ type = "ROR" => s = RotateExtended(value, carry)
<1>1. ~(0 > WordBits) /\ ~(0 > 0)
  BY WordIs
<1>2. CASE type = "LSL"
  BY <1>1, <1>2 DEF Shift, ShiftLeft
<1>3. CASE type \in {"LSR", "ASR"}
  BY <1>1, <1>3 DEF Shift
<1>4. CASE type = "ROR"
  BY <1>1, <1>4 DEF Shift
<1> QED BY <1>2, <1>3, <1>4 DEF ShiftTypes

(* One amount, one value: what ShiftsExact says of it.                     *)
Meant(type, amount, byRegister) ==
    IF ~byRegister /\ amount = 0 /\ type \in {"LSR", "ASR"} THEN WordBits ELSE amount

ExactShift(s, value, type, amount, byRegister, carry) ==
    IF ~byRegister /\ amount = 0 /\ type = "ROR"
    THEN /\ s.carry <=> Bit(value, 0)
         /\ \A k \in 0 .. WordBits - 1 : Bit(s.value, k) <=>
               IF k = WordBits - 1 THEN carry ELSE Bit(value, k + 1)
    ELSE /\ s.carry <=> IF Meant(type, amount, byRegister) = 0 THEN carry
                        ELSE LostBit(value, type, Meant(type, amount, byRegister))
         /\ s.value \in Words
         /\ \A k \in 0 .. WordBits - 1 :
               Bit(s.value, k) <=> MovedBit(value, type, Meant(type, amount, byRegister), k)

LEMMA ShiftIsExact ==
    ASSUME NEW value \in Words, NEW type \in ShiftTypes, NEW byRegister \in BOOLEAN,
           NEW amount \in 0 .. 255, byRegister \/ amount < WordBits,
           NEW carry \in BOOLEAN,
           ~(type = "ASR" /\ Sign(value) /\ amount > WordBits),
           NEW s \in Shift(value, type, amount, byRegister, carry)
    PROVE  ExactShift(s, value, type, amount, byRegister, carry)
<1> DEFINE meant == Meant(type, amount, byRegister)
<1>1. CASE amount # 0
  <2>1. amount \in 1 .. 255 /\ meant = amount /\ meant # 0
    BY <1>1 DEF Meant
  <2>2. MovesBits(s, value, type, amount)
    BY <2>1, ShiftMoves
  <2> QED BY <1>1, <2>1, <2>2, Zenon DEF MovesBits, ExactShift
<1>2. CASE amount = 0 /\ (byRegister \/ type = "LSL")
  <2>1. s = Shifted(value, carry) /\ meant = 0
    BY <1>2, ShiftByZero DEF Meant
  <2>2. s.value = value /\ s.carry = carry
    BY <2>1, ShiftedIs
  <2> QED BY <1>2, <2>1, <2>2, ZeroMoves, Zenon DEF ExactShift
<1>3. CASE amount = 0 /\ ~byRegister /\ type \in {"LSR", "ASR"}
  <2>1. s = ShiftRight(value, WordBits, type = "ASR") /\ meant = WordBits
    BY <1>3, ShiftByZero DEF Meant
  <2>2. WordBits \in 1 .. WordBits /\ meant # 0
    BY <2>1, WordIs
  <2>3. MovesBits(s, value, type, WordBits)
    BY <1>3, <2>1, <2>2, RightMoves
  <2> QED BY <1>3, <2>1, <2>2, <2>3, Zenon DEF MovesBits, ExactShift
<1>4. CASE amount = 0 /\ ~byRegister /\ type = "ROR"
  <2>1. s = RotateExtended(value, carry)
    BY <1>4, ShiftByZero
  <2> QED BY <1>4, <2>1, ExtendedMoves, Zenon DEF ExactShift
<1> QED BY <1>1, <1>2, <1>3, <1>4 DEF ShiftTypes

LEMMA AluShifts == AluInv => ShiftsExact
<1> SUFFICES ASSUME AluInv PROVE ShiftsExact
  OBVIOUS
<1>1. flags.c \in BOOLEAN
  BY DEF AluInv, Agree, Flags
<1>2. ASSUME NEW value \in Words, NEW type \in ShiftTypes,
             NEW byRegister \in BOOLEAN,
             NEW amount \in IF byRegister THEN Amounts ELSE 0 .. WordBits - 1
      PROVE  \/ type = "ASR" /\ Sign(value) /\ amount > WordBits
             \/ \A s \in Shift(value, type, amount, byRegister, flags.c) :
                   ExactShift(s, value, type, amount, byRegister, flags.c)
  <2>1. amount \in 0 .. 255 /\ (byRegister \/ amount < WordBits)
    BY AluAssumption
  <2> QED BY <1>1, <2>1, ShiftIsExact, Zenon
<1> QED BY <1>2, Zenon DEF ShiftsExact, ExactShift, Meant

(* The shifter moves every bit to its place and the last one lost to the   *)
(* carry (CPU::Shift, CPU::ApplyShift), for words of any length to 32 bits *)
(* and every value and amount, the amounts 0 and beyond the word included. *)
THEOREM ShiftsHold == AluSpec => []ShiftsExact
<1>1. AluInv => ShiftsExact
  BY AluShifts
<1> QED BY <1>1, AluStays, PTL
=============================================================================
