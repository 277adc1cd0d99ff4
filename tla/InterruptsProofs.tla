--------------------------- MODULE InterruptsProofs ---------------------------
(***************************************************************************)
(* Proofs about Interrupts.tla, for every set of lines and every split of  *)
(* it into two bytes, and about Timers.tla, for every size of a counter,   *)
(* every table of divisors and up to four timers.                          *)
(***************************************************************************)
EXTENDS Interrupts, Timers, TLAPS

\* The conclusions of InterruptUpdate, which every handler ends with.
Settled(s) == /\ s \in Registers
              /\ s.interruptReady <=> (s.ime # {} /\ Match(s) # {})
              /\ s.halt => Match(s) = {}

(* InterruptUpdate makes interruptReady exact and wakes a processor with an *)
(* enabled request, and touches nothing else.                               *)
LEMMA UpdateSettles ==
    ASSUME NEW s \in Registers
    PROVE  LET t == InterruptUpdate(s) IN
           /\ Settled(t)
           /\ t.ie = s.ie /\ t.irf = s.irf /\ t.ime = s.ime
           /\ t.halt => s.halt
BY DEF InterruptUpdate, Registers, Match, Settled

(* A store through any lane leaves a register a set of bits.               *)
LEMMA StoreToType ==
    ASSUME NEW register \in SUBSET Bits, NEW lane, NEW value \in SUBSET Bits
    PROVE  StoreTo(register, lane, value) \in SUBSET Bits
BY DEF StoreTo

(* A store that acknowledges can only remove requests.                     *)
LEMMA AcknowledgeShrinks ==
    ASSUME NEW register \in SUBSET Bits, NEW lane, NEW value \in SUBSET Bits
    PROVE  StoreTo(register, lane, register \ value) \subseteq register
BY DEF StoreTo

(* Each handler of a store ends settled, adds no request and never puts the *)
(* processor to sleep.                                                      *)
StoreFacts(s, t) == /\ Settled(t)
                    /\ t.irf \subseteq s.irf
                    /\ t.halt => s.halt

LEMMA WriteIEFacts ==
    ASSUME NEW s \in Registers, NEW lane, NEW value \in SUBSET Bits
    PROVE  StoreFacts(s, WriteIE(s, lane, value))
<1> DEFINE u == [s EXCEPT !.ie = StoreTo(@, lane, value)]
<1>1. StoreTo(s.ie, lane, value) \in SUBSET Bits
  BY StoreToType DEF Registers
<1>2. u \in Registers /\ u.irf = s.irf /\ u.halt = s.halt
  BY <1>1 DEF Registers
<1>3. WriteIE(s, lane, value) = InterruptUpdate(u)
  BY DEF WriteIE
<1> HIDE DEF u
<1> QED BY <1>2, <1>3, UpdateSettles DEF StoreFacts

LEMMA WriteIMEFacts ==
    ASSUME NEW s \in Registers, NEW lane, NEW value \in SUBSET Bits
    PROVE  StoreFacts(s, WriteIME(s, lane, value))
<1> DEFINE u == [s EXCEPT !.ime = StoreTo(@, lane, value)]
<1>1. StoreTo(s.ime, lane, value) \in SUBSET Bits
  BY StoreToType DEF Registers
<1>2. u \in Registers /\ u.irf = s.irf /\ u.halt = s.halt
  BY <1>1 DEF Registers
<1>3. WriteIME(s, lane, value) = InterruptUpdate(u)
  BY DEF WriteIME
<1> HIDE DEF u
<1> QED BY <1>2, <1>3, UpdateSettles DEF StoreFacts

LEMMA WriteIFFacts ==
    ASSUME NEW s \in Registers, NEW lane, NEW value \in SUBSET Bits
    PROVE  StoreFacts(s, WriteIF(s, lane, value))
<1> DEFINE u == [s EXCEPT !.irf = StoreTo(@, lane, @ \ value)]
<1>1. StoreTo(s.irf, lane, s.irf \ value) \in SUBSET Bits
  BY StoreToType DEF Registers
<1>2. u \in Registers /\ u.irf \subseteq s.irf /\ u.halt = s.halt
  BY <1>1, AcknowledgeShrinks DEF Registers
<1>3. WriteIF(s, lane, value) = InterruptUpdate(u)
  BY DEF WriteIF
<1> HIDE DEF u
<1> QED BY <1>2, <1>3, UpdateSettles DEF StoreFacts

LEMMA StoreInPlaceFacts ==
    ASSUME irq \in Registers, StoreInPlace
    PROVE  StoreFacts(irq, irq')
<1>1. CASE \E lane \in Lanes, value \in SUBSET Bits :
             \/ irq' = WriteIE(irq, lane, value)
             \/ irq' = WriteIF(irq, lane, value)
             \/ irq' = WriteIME(irq, lane, value)
  BY <1>1, WriteIEFacts, WriteIFFacts, WriteIMEFacts
<1>2. CASE \E v, w \in SUBSET Bits : irq' = WriteIEandIF(irq, v, w)
  <2>1. PICK v \in SUBSET Bits, w \in SUBSET Bits :
               irq' = WriteIEandIF(irq, v, w)
    BY <1>2
  <2>2. StoreFacts(irq, WriteIE(irq, Half, v))
          /\ WriteIE(irq, Half, v) \in Registers
    BY WriteIEFacts DEF StoreFacts, Settled
  <2>3. StoreFacts(WriteIE(irq, Half, v), WriteIF(WriteIE(irq, Half, v), Half, w))
    BY <2>2, WriteIFFacts
  <2> QED BY <2>1, <2>2, <2>3 DEF StoreFacts, WriteIEandIF
<1>3. CASE irq' = WriteWAITCNT(irq)
  BY <1>3, UpdateSettles DEF WriteWAITCNT, StoreFacts
<1> QED BY <1>1, <1>2, <1>3 DEF StoreInPlace

(* A store across the end of IE ends settled as well; the requests it makes *)
(* are those of IF's lower byte, and IE's lower byte and IME stay.          *)
AcrossFacts(s, t) == /\ Settled(t)
                     /\ t.irf \subseteq s.irf \cup LowByte
                     /\ t.ie \cap LowByte = s.ie \cap LowByte
                     /\ t.ime = s.ime
                     /\ t.halt => s.halt

LEMMA AcknowledgeKeeps ==
    ASSUME NEW s \in Registers, NEW lane, NEW value \in SUBSET Bits
    PROVE  LET t == WriteIF(s, lane, value) IN
           t.ie = s.ie /\ t.ime = s.ime
<1> DEFINE u == [s EXCEPT !.irf = StoreTo(@, lane, @ \ value)]
<1>1. StoreTo(s.irf, lane, s.irf \ value) \in SUBSET Bits
  BY StoreToType DEF Registers
<1>2. u \in Registers /\ u.ie = s.ie /\ u.ime = s.ime
  BY <1>1 DEF Registers
<1>3. WriteIF(s, lane, value) = InterruptUpdate(u)
  BY DEF WriteIF
<1> HIDE DEF u
<1> QED BY <1>2, <1>3, UpdateSettles

LEMMA WriteAcrossFacts ==
    ASSUME NEW s \in Registers, NEW v \in SUBSET Bits, NEW w \in SUBSET Bits
    PROVE  AcrossFacts(s, WriteAcrossIE(s, v, w))
<1> DEFINE e == StoreTo(s.ie, HighByte, v)
           f == StoreTo(s.irf, LowByte, w)
           u == [s EXCEPT !.ie = e, !.irf = f]
<1>1. e \in SUBSET Bits /\ f \in SUBSET Bits
  BY StoreToType DEF Registers
<1>2. f \subseteq s.irf \cup LowByte /\ e \cap LowByte = s.ie \cap LowByte
  BY DEF StoreTo, HighByte
<1>3. WriteAcrossIE(s, v, w) = InterruptUpdate(u)
  BY DEF WriteAcrossIE
<1> HIDE DEF e, f
<1>4. /\ u \in Registers /\ u.ie = e /\ u.irf = f
      /\ u.ime = s.ime /\ u.halt = s.halt
  BY <1>1 DEF Registers
<1> HIDE DEF u
<1> QED BY <1>2, <1>3, <1>4, UpdateSettles DEF AcrossFacts

LEMMA StoreAcrossFacts ==
    ASSUME irq \in Registers, StoreAcross
    PROVE  AcrossFacts(irq, irq')
<1>1. PICK v \in SUBSET HighByte, x \in SUBSET HighByte, w \in SUBSET LowByte :
             \/ irq' = WriteAcrossIE(irq, v, w)
             \/ irq' = WriteIF(WriteAcrossIE(irq, v, w), HighByte, x)
  BY DEF StoreAcross
<1>2. v \in SUBSET Bits /\ w \in SUBSET Bits /\ x \in SUBSET Bits
  BY LanesAssumption DEF HighByte
<1> DEFINE t == WriteAcrossIE(irq, v, w)
<1>3. AcrossFacts(irq, t) /\ t \in Registers
  BY <1>2, WriteAcrossFacts DEF AcrossFacts, Settled
<1>4. CASE irq' = t
  BY <1>3, <1>4
<1>5. CASE irq' = WriteIF(t, HighByte, x)
  <2>1. StoreFacts(t, WriteIF(t, HighByte, x))
    BY <1>2, <1>3, WriteIFFacts
  <2>2. WriteIF(t, HighByte, x).ie = t.ie /\ WriteIF(t, HighByte, x).ime = t.ime
    BY <1>2, <1>3, AcknowledgeKeeps
  <2> HIDE DEF t
  <2> QED BY <1>3, <1>5, <2>1, <2>2 DEF StoreFacts, AcrossFacts
<1> QED BY <1>1, <1>4, <1>5

(* What every store has in common.                                         *)
LEMMA StoreStepFacts ==
    ASSUME irq \in Registers, RecordedStore
    PROVE  /\ Settled(irq') /\ (irq'.halt => irq.halt)
           /\ across' \in BOOLEAN
           /\ UNCHANGED <<irqDisable, haltMatch>>
           /\ (across' = FALSE /\ StoreFacts(irq, irq'))
                 \/ (across' = TRUE /\ AcrossFacts(irq, irq'))
<1>1. CASE StoreInPlace /\ across' = FALSE
  BY <1>1, StoreInPlaceFacts DEF StoreFacts, RecordedStore
<1>2. CASE StoreAcross /\ across' = TRUE
  BY <1>2, StoreAcrossFacts DEF AcrossFacts, RecordedStore
<1> QED BY <1>1, <1>2 DEF RecordedStore

LEMMA RequestFacts ==
    ASSUME NEW s \in Registers, NEW i \in Bits
    PROVE  LET t == RequestInterrupt(s, i) IN
           /\ Settled(t)
           /\ t.ie = s.ie /\ t.ime = s.ime /\ t.irf = s.irf \cup {i}
           /\ t.halt => s.halt
<1> DEFINE u == [s EXCEPT !.irf = StoreTo(@, Half, @ \cup {i})]
<1>1. StoreTo(s.irf, Half, s.irf \cup {i}) = s.irf \cup {i}
  BY DEF StoreTo, Half, Registers
<1>2. u \in Registers /\ u.irf = s.irf \cup {i}
        /\ u.halt = s.halt /\ u.ie = s.ie /\ u.ime = s.ime
  BY <1>1 DEF Registers
<1>3. RequestInterrupt(s, i) = InterruptUpdate(u)
  BY DEF RequestInterrupt
<1> HIDE DEF u
<1> QED BY <1>2, <1>3, UpdateSettles
-----------------------------------------------------------------------------
(* The inductive invariant.                                                *)
IInv == TypeOK /\ InterruptReadyExact /\ SleepsOnlyOnOldMatch

LEMMA InitIInv == Init => IInv
<1>1. PowerOn \in Registers
  BY DEF PowerOn, Registers
<1>2. PowerOn.ime = {} /\ ~PowerOn.interruptReady /\ ~PowerOn.halt
  BY DEF PowerOn
<1> QED BY <1>1, <1>2 DEF Init, IInv, TypeOK, InterruptReadyExact,
                          SleepsOnlyOnOldMatch

LEMMA StepIInv == IInv /\ [Next]_vars => IInv'
<1> SUFFICES ASSUME IInv, [Next]_vars PROVE IInv'
  OBVIOUS
<1> USE DEF IInv, TypeOK, InterruptReadyExact, SleepsOnlyOnOldMatch
<1>1. CASE CpuStore
  BY <1>1, StoreStepFacts DEF CpuStore, Settled
<1>2. CASE OtherStore
  BY <1>2, StoreStepFacts DEF OtherStore, Settled
<1>3. CASE Halt \/ OtherHalt
  BY <1>3 DEF Halt, OtherHalt, PutToSleep, WriteHALTCNT, Registers, Match
<1>4. CASE SetIrqDisable
  BY <1>4 DEF SetIrqDisable
<1>5. CASE TakeInterrupt
  BY <1>5 DEF TakeInterrupt
<1>6. ASSUME NEW i \in Bits, Request(i) PROVE IInv'
  BY <1>6, RequestFacts DEF Request, Settled
<1>7. CASE UNCHANGED vars
  BY <1>7 DEF vars
<1> QED BY <1>1, <1>2, <1>3, <1>4, <1>5, <1>6, <1>7 DEF Next

THEOREM Invariance == Spec => []IInv
BY InitIInv, StepIInv, PTL DEF Spec

(* The registers and flags keep their types.                               *)
THEOREM TypeCorrect == Spec => []TypeOK
BY Invariance, PTL DEF IInv

(* The flag CPU::Execute reads is the value of the three registers.        *)
THEOREM ReadyNeverStale == Spec => []InterruptReadyExact
BY Invariance, PTL DEF IInv

(* Sleeping on an enabled request goes back to the write of HALTCNT.       *)
THEOREM NoRequestSleptThrough == Spec => []SleepsOnlyOnOldMatch
BY Invariance, PTL DEF IInv

(* A request that becomes enabled and outstanding wakes the processor.     *)
THEOREM RequestWakes == Spec => NewMatchWakes
<1>1. IInv /\ [Next]_vars => [Match(irq) = {} /\ Match(irq') # {} => ~irq'.halt]_vars
  <2> SUFFICES ASSUME IInv, Next, Match(irq) = {}, Match(irq') # {}
               PROVE  ~irq'.halt
    BY DEF vars
  <2> USE DEF IInv, TypeOK
  <2>1. CASE CpuStore \/ OtherStore
    BY <2>1, StoreStepFacts DEF CpuStore, OtherStore, Settled
  <2>2. CASE Halt \/ OtherHalt
    BY <2>2 DEF Halt, OtherHalt, PutToSleep, WriteHALTCNT, Registers, Match
  <2>3. CASE SetIrqDisable \/ TakeInterrupt
    BY <2>3 DEF SetIrqDisable, TakeInterrupt
  <2>4. ASSUME NEW i \in Bits, Request(i) PROVE ~irq'.halt
    BY <2>4, RequestFacts DEF Request, Settled
  <2> QED BY <2>1, <2>2, <2>3, <2>4 DEF Next
<1> QED BY <1>1, Invariance, PTL DEF Spec, NewMatchWakes
-----------------------------------------------------------------------------
(* Every behaviour of the registers and the processor is one of the        *)
(* abstract interrupt controller.                                          *)
THEOREM Refinement == Spec => ImplementsController
<1>1. Init => Controller!Init
  BY DEF Init, PowerOn, Controller!Init
<1>2. IInv /\ [Next]_vars => [Controller!Next]_Controller!vars
  <2> SUFFICES ASSUME IInv, IInv', [Next]_vars
               PROVE  [Controller!Next]_Controller!vars
    BY StepIInv
  <2> USE DEF IInv, TypeOK, Controller!Next
  <2>1. CASE CpuStore \/ OtherStore
    <3>1. /\ Settled(irq') /\ (irq'.halt => irq.halt)
          /\ UNCHANGED irqDisable
          /\ (across' = FALSE /\ StoreFacts(irq, irq'))
                \/ (across' = TRUE /\ AcrossFacts(irq, irq'))
      BY <2>1, StoreStepFacts DEF CpuStore, OtherStore
    <3>2. Controller!Reconsider
      BY <3>1 DEF Settled, Registers, Match, Controller!Reconsider
    <3>3. CASE across' = FALSE /\ StoreFacts(irq, irq')
      <4>1. Controller!Program
        BY <3>1, <3>2, <3>3 DEF StoreFacts, Settled, Registers, Controller!Program
      <4> QED BY <4>1
    <3>4. CASE across' = TRUE /\ AcrossFacts(irq, irq')
      <4>1. Controller!Overwrite
        BY <3>1, <3>2, <3>4
           DEF AcrossFacts, Settled, Registers, Controller!Overwrite
      <4> QED BY <4>1
    <3> QED BY <3>1, <3>3, <3>4
  <2>2. CASE Halt \/ OtherHalt
    BY <2>2 DEF Halt, OtherHalt, PutToSleep, WriteHALTCNT, Registers,
                Controller!Sleep, Controller!ctl
  <2>3. CASE SetIrqDisable
    BY <2>3 DEF SetIrqDisable, Runs, HandlesInterrupt, Match,
                InterruptReadyExact, Controller!SetMask, Controller!Running,
                Controller!Deliverable, Controller!Line, Controller!ctl
  <2>4. CASE TakeInterrupt
    BY <2>4 DEF TakeInterrupt, HandlesInterrupt, Match, InterruptReadyExact,
                Controller!Deliver, Controller!Deliverable, Controller!Line,
                Controller!ctl
  <2>5. ASSUME NEW i \in Bits, Request(i)
        PROVE  [Controller!Next]_Controller!vars
    <3>1. Settled(irq') /\ irq'.ie = irq.ie /\ irq'.ime = irq.ime
            /\ irq'.irf = irq.irf \cup {i} /\ (irq'.halt => irq.halt)
            /\ UNCHANGED irqDisable /\ across' = FALSE
      BY <2>5, RequestFacts DEF Request
    <3>2. Controller!Reconsider
      BY <3>1 DEF Settled, Registers, Match, Controller!Reconsider
    <3>3. Controller!Raise(i)
      BY <3>1, <3>2 DEF Controller!Raise
    <3> QED BY <3>3
  <2>6. CASE UNCHANGED vars
    BY <2>6 DEF vars, Controller!vars, Controller!ctl
  <2> QED BY <2>1, <2>2, <2>3, <2>4, <2>5, <2>6 DEF Next
<1> QED
  BY <1>1, <1>2, Invariance, PTL
     DEF Spec, ImplementsController, Controller!Spec
-----------------------------------------------------------------------------
(* Timers.                                                                 *)

(* Division with a remainder, as the counters use it.                      *)
LEMMA Divided ==
    ASSUME NEW d \in Nat, d > 0, NEW q \in Int, NEW r \in 0 .. d - 1
    PROVE  (q * d + r) \div d = q /\ (q * d + r) % d = r
<1> DEFINE n == q * d + r
           p == n \div d
<1>1. n \in Int /\ p \in Int
  OBVIOUS
<1>2. n % d \in 0 .. d - 1 /\ n = d * p + (n % d)
  OBVIOUS
<1> DEFINE s == n % d
<1>3. (q - p) * d = s - r
  BY <1>1, <1>2
<1>4. s \in 0 .. d - 1
  BY <1>2
<1> HIDE DEF n, p, s
<1>5. q - p \in Int /\ q - p = 0
  <2>1. CASE q - p >= 1
    <3>1. ((q - p) - 1) * d >= 0
      BY <1>1, <2>1
    <3> QED BY <1>1, <1>3, <1>4, <3>1
  <2>2. CASE q - p <= -1
    <3>1. (-1 - (q - p)) * d >= 0
      BY <1>1, <2>2
    <3> QED BY <1>1, <1>3, <1>4, <3>1
  <2> QED BY <1>1, <2>1, <2>2
<1>6. q = p /\ s = r
  BY <1>1, <1>3, <1>4, <1>5
<1> QED BY <1>6 DEF n, p, s

LEMMA Division ==
    ASSUME NEW d \in Nat, d > 0, NEW n \in Nat
    PROVE  /\ n \div d \in Nat
           /\ n % d \in 0 .. d - 1
           /\ n = (n \div d) * d + (n % d)
OBVIOUS

(* A number divided in two parts, the rest of the first with the second.   *)
LEMMA DividedInParts ==
    ASSUME NEW d \in Nat, d > 0, NEW m \in Nat, NEW n \in Nat
    PROVE  /\ (m + n) \div d = m \div d + ((m % d) + n) \div d
           /\ (m + n) % d = ((m % d) + n) % d
<1> DEFINE q == m \div d
           r == m % d
           k == r + n
           p == k \div d
           s == k % d
<1>1. q \in Nat /\ r \in Nat /\ m = q * d + r
  BY Division
<1>2. k \in Nat
  BY <1>1
<1> HIDE DEF q, r
<1>3. p \in Nat /\ s \in 0 .. d - 1 /\ k = p * d + s
  <2> HIDE DEF k
  <2> QED BY <1>2, Division
<1>4. m + n = (q + p) * d + s
  <2>1. (q + p) * d = q * d + p * d
    BY <1>1, <1>3
  <2> HIDE DEF p, s
  <2> QED BY <1>1, <1>3, <2>1
<1>5. ((q + p) * d + s) \div d = q + p /\ ((q + p) * d + s) % d = s
  <2>1. q + p \in Int
    BY <1>1, <1>3
  <2> HIDE DEF p, s
  <2> QED BY <1>3, <2>1, Divided
<1> QED BY <1>4, <1>5 DEF q, r

(* Counting whole parts first and then the parts left over is dividing the *)
(* numbers behind them.                                                    *)
LEMMA DividedTwice ==
    ASSUME NEW d \in Nat, d > 0, NEW n \in Nat, NEW left \in Nat,
           NEW span \in Nat, span > 0
    PROVE  /\ left <= n \div d <=> left * d <= n
           /\ left * d <= n =>
                ((n \div d) - left) \div span = (n - left * d) \div (span * d)
<1> DEFINE q == n \div d
           r == n % d
           b == left * d
<1>1. q \in Nat /\ r \in 0 .. d - 1 /\ n = q * d + r
  BY Division
<1> HIDE DEF q, r
<1>2. b \in Nat
  OBVIOUS
<1>3. ASSUME left <= q
      PROVE  b <= n
  <2>1. (q - left) * d >= 0 /\ (q - left) * d = q * d - b
    BY <1>1, <1>3
  <2> QED BY <1>1, <1>2, <2>1
<1>4. ASSUME left > q
      PROVE  n < b
  <2>1. ((left - 1) - q) * d >= 0 /\ ((left - 1) - q) * d = (b - d) - q * d
    BY <1>1, <1>4
  <2> QED BY <1>1, <1>2, <2>1
<1>5. left <= q <=> b <= n
  BY <1>1, <1>2, <1>3, <1>4
<1>6. ASSUME b <= n
      PROVE  (q - left) \div span = (n - b) \div (span * d)
  <2> DEFINE m == q - left
             p == m \div span
             s == m % span
             e == span * d
             t == s * d + r
  <2>1. m \in Nat
    BY <1>1, <1>5, <1>6
  <2>2. p \in Nat /\ s \in 0 .. span - 1 /\ m = p * span + s
    <3> HIDE DEF m
    <3> QED BY <2>1, Division
  <2>3. n - b = m * d + r
    <3>1. m * d = q * d - b
      BY <1>1
    <3> QED BY <1>1, <1>2, <3>1
  <2> HIDE DEF m, p, s
  <2>4. m * d = p * e + s * d
    <3>1. m * d = (p * span + s) * d
      BY <2>2
    <3>2. (p * span + s) * d = p * (span * d) + s * d
      BY <2>2
    <3> QED BY <3>1, <3>2
  <2>5. e \in Nat /\ e > 0
    OBVIOUS
  <2>6. t \in 0 .. e - 1
    <3>1. s * d \in Nat
      BY <2>2
    <3>2. ((span - 1) - s) * d >= 0 /\ ((span - 1) - s) * d = (e - d) - s * d
      BY <2>2
    <3> QED BY <1>1, <2>5, <3>1, <3>2
  <2>7. n - b = p * e + t
    <3>1. p * e \in Int /\ s * d \in Int
      BY <2>2, <2>5
    <3> QED BY <1>1, <2>3, <2>4, <3>1
  <2> HIDE DEF e, t
  <2>8. (p * e + t) \div e = p
    BY <2>2, <2>5, <2>6, Divided
  <2> QED BY <2>7, <2>8 DEF p, m, e
<1> QED BY <1>5, <1>6 DEF q

\* A counter's next value and overflows, from its numbers alone.
Count(c, left, reload, n) ==
    IF left <= n THEN reload + ((n - left) % (MaxCount - reload)) ELSE c + n
Overflowed(left, reload, n) ==
    IF left <= n THEN 1 + ((n - left) \div (MaxCount - reload)) ELSE 0

\* A timer with another counter, its ticks left, and with another rest.
Counting(t, c) == [t EXCEPT !.counter = c, !.ticksLeft = MaxCount - c]
Resting(t, r) == [t EXCEPT !.prescalerCount = r]

LEMMA CountingFields ==
    ASSUME NEW t \in TimerFields, NEW c \in 0 .. MaxCount - 1
    PROVE  /\ Counting(t, c) \in TimerFields
           /\ Counting(t, c).control = t.control
           /\ Counting(t, c).counter = c
           /\ Counting(t, c).reloadValue = t.reloadValue
           /\ Counting(t, c).prescalerCount = t.prescalerCount
           /\ Counting(t, c).ticksLeft = MaxCount - c
<1>1. MaxCount - c \in 1 .. MaxCount
  BY TimersAssumption
<1> DEFINE left == MaxCount - c
<1>2. Counting(t, c) = [t EXCEPT !.counter = c, !.ticksLeft = left]
  BY DEF Counting
<1> HIDE DEF left
<1>3. left \in 1 .. MaxCount
  BY <1>1 DEF left
<1>4. /\ Counting(t, c) \in TimerFields
      /\ Counting(t, c).control = t.control
      /\ Counting(t, c).counter = c
      /\ Counting(t, c).reloadValue = t.reloadValue
      /\ Counting(t, c).prescalerCount = t.prescalerCount
      /\ Counting(t, c).ticksLeft = left
  BY <1>2, <1>3 DEF TimerFields
<1> QED BY <1>4 DEF left

LEMMA RestingFields ==
    ASSUME NEW t \in TimerFields, NEW r \in Nat
    PROVE  /\ Resting(t, r) \in TimerFields
           /\ Resting(t, r).control = t.control
           /\ Resting(t, r).counter = t.counter
           /\ Resting(t, r).reloadValue = t.reloadValue
           /\ Resting(t, r).prescalerCount = r
           /\ Resting(t, r).ticksLeft = t.ticksLeft
BY DEF Resting, TimerFields

LEMMA CountingAgain ==
    ASSUME NEW t \in TimerFields, NEW c, NEW d
    PROVE  Counting(Counting(t, c), d) = Counting(t, d)
BY DEF Counting, TimerFields

LEMMA RestingCounting ==
    ASSUME NEW t \in TimerFields, NEW c, NEW r, NEW s
    PROVE  Resting(Counting(Resting(t, r), c), s) = Counting(Resting(t, s), c)
BY DEF Counting, Resting, TimerFields

LEMMA CounterParts ==
    ASSUME NEW t, NEW n
    PROVE  /\ CounterUpdate(t, n).timer
                = Counting(t, Count(t.counter, t.ticksLeft, t.reloadValue, n))
           /\ CounterUpdate(t, n).overflow
                = Overflowed(t.ticksLeft, t.reloadValue, n)
BY DEF CounterUpdate, Counting, Count, Overflowed

(* A counter stays in its range and overflows no more than once a tick.    *)
LEMMA CountRange ==
    ASSUME NEW c \in 0 .. MaxCount - 1, NEW left \in 1 .. MaxCount,
           NEW reload \in 0 .. MaxCount - 1, NEW n \in Nat,
           left = MaxCount - c \/ (c = 0 /\ n < left)
    PROVE  /\ Count(c, left, reload, n) \in 0 .. MaxCount - 1
           /\ Overflowed(left, reload, n) \in 0 .. n
<1> DEFINE span == MaxCount - reload
           past == n - left
<1>0. MaxCount \in Nat /\ span \in Nat /\ span > 0
  BY TimersAssumption
<1>1. CASE left <= n
  <2>1. past \in Nat
    BY <1>0, <1>1
  <2>2. past % span \in 0 .. span - 1 /\ past \div span \in Nat
        /\ past = (past \div span) * span + (past % span)
    <3> HIDE DEF past, span
    <3> QED BY <1>0, <2>1, Division
  <2>3. past \div span <= past
    <3> DEFINE q == past \div span
    <3>1. q * span >= q
      <4>1. q * (span - 1) >= 0
        BY <1>0, <2>2
      <4> HIDE DEF q
      <4> QED BY <1>0, <2>2, <4>1 DEF q
    <3> QED BY <1>0, <2>1, <2>2, <3>1
  <2>4. Count(c, left, reload, n) = reload + (past % span)
        /\ Overflowed(left, reload, n) = 1 + (past \div span)
    BY <1>1 DEF Count, Overflowed
  <2> DEFINE q == past \div span
             r == past % span
  <2>5. reload + r \in 0 .. MaxCount - 1 /\ 1 + q \in 0 .. n
    <3> HIDE DEF q, r
    <3> QED BY <1>0, <1>1, <2>1, <2>2, <2>3 DEF q, r
  <2> QED BY <2>4, <2>5
<1>2. CASE ~(left <= n)
  <2>1. Count(c, left, reload, n) = c + n /\ Overflowed(left, reload, n) = 0
    BY <1>2 DEF Count, Overflowed
  <2> QED BY <1>0, <1>2, <2>1
<1> QED BY <1>1, <1>2

(* A period of the counter behind its overflow: the same rest, one less.   *)
LEMMA DividedBehind ==
    ASSUME NEW d \in Nat, d > 0, NEW n \in Nat, d <= n
    PROVE  (n - d) \div d = (n \div d) - 1 /\ (n - d) % d = n % d
<1> DEFINE q == n \div d
           r == n % d
<1>1. q \in Nat /\ r \in 0 .. d - 1 /\ n = q * d + r
  BY Division
<1> HIDE DEF q, r
<1>2. n - d = (q - 1) * d + r
  BY <1>1
<1>3. ((q - 1) * d + r) \div d = q - 1 /\ ((q - 1) * d + r) % d = r
  <2>1. q - 1 \in Int
    BY <1>1
  <2> DEFINE k == q - 1
  <2>2. k \in Int
    BY <2>1
  <2> HIDE DEF k
  <2>3. (k * d + r) \div d = k /\ (k * d + r) % d = r
    BY <1>1, <2>2, Divided
  <2> QED BY <2>3 DEF k
<1> QED BY <1>2, <1>3 DEF q, r

LEMMA DividedBelow ==
    ASSUME NEW d \in Nat, d > 0, NEW n \in 0 .. d - 1
    PROVE  n \div d = 0 /\ n % d = n
<1>1. (0 * d + n) \div d = 0 /\ (0 * d + n) % d = n
  BY Divided
<1>2. 0 * d + n = n
  OBVIOUS
<1> QED BY <1>1, <1>2

(* Counting n after m leaves the counter where counting m + n does, with   *)
(* as many overflows: the numbers behind CounterUpdate.                    *)
LEMMA CountInParts ==
    ASSUME NEW c \in 0 .. MaxCount - 1, NEW left \in 1 .. MaxCount,
           NEW reload \in 0 .. MaxCount - 1, NEW m \in Nat, NEW n \in Nat,
           left = MaxCount - c \/ (c = 0 /\ m + n < left),
           NEW e, e = Count(c, left, reload, m)
    PROVE  /\ Count(e, MaxCount - e, reload, n) = Count(c, left, reload, m + n)
           /\ Overflowed(left, reload, m) + Overflowed(MaxCount - e, reload, n)
                = Overflowed(left, reload, m + n)
<1> DEFINE span == MaxCount - reload
           past == m - left
           q == past \div span
           r == past % span
<1>0. MaxCount \in Nat /\ span \in Nat /\ span > 0
  BY TimersAssumption
<1>1. CASE left <= m
  <2>1. past \in Nat
    BY <1>0, <1>1
  <2>2. q \in Nat /\ r \in 0 .. span - 1
    <3> HIDE DEF past, span
    <3> QED BY <1>0, <2>1, Division
  <2>3. e = reload + r /\ Overflowed(left, reload, m) = 1 + q
    BY <1>1 DEF Count, Overflowed
  <2>4. left <= m + n /\ (m + n) - left = past + n
    BY <1>0, <1>1
  <2> DEFINE k == r + n
  <2>5. (past + n) \div span = q + (k \div span)
        /\ (past + n) % span = k % span
    <3> HIDE DEF past, span
    <3> QED BY <1>0, <2>1, DividedInParts
  <2>6. Count(c, left, reload, m + n) = reload + (k % span)
        /\ Overflowed(left, reload, m + n) = 1 + (q + (k \div span))
    <3>1. Count(c, left, reload, m + n) = reload + ((past + n) % span)
          /\ Overflowed(left, reload, m + n) = 1 + ((past + n) \div span)
      <4> HIDE DEF past, q, r, k
      <4>1. Count(c, left, reload, m + n) = reload + (((m + n) - left) % span)
            /\ Overflowed(left, reload, m + n) = 1 + (((m + n) - left) \div span)
        BY <2>4 DEF Count, Overflowed
      <4> QED BY <2>4, <4>1
    <3> HIDE DEF past, span, q, r, k
    <3> QED BY <2>5, <3>1
  <2>7. MaxCount - e = span - r
    BY <1>0, <2>2, <2>3
  <2>8. CASE span <= k
    <3>1. MaxCount - e <= n /\ n - (MaxCount - e) = k - span
      <4> HIDE DEF r, q, past
      <4> QED BY <1>0, <2>2, <2>7, <2>8
    <3>2. Count(e, MaxCount - e, reload, n) = reload + ((k - span) % span)
          /\ Overflowed(MaxCount - e, reload, n) = 1 + ((k - span) \div span)
      <4> HIDE DEF r, q, past, k
      <4>1. Count(e, MaxCount - e, reload, n)
              = reload + ((n - (MaxCount - e)) % span)
            /\ Overflowed(MaxCount - e, reload, n)
              = 1 + ((n - (MaxCount - e)) \div span)
        BY <3>1 DEF Count, Overflowed
      <4> QED BY <3>1, <4>1
    <3>3. k \in Nat
      BY <2>2
    <3>4. (k - span) \div span = (k \div span) - 1 /\ (k - span) % span = k % span
      <4> HIDE DEF k, span
      <4> QED BY <1>0, <2>8, <3>3, DividedBehind
    <3>5. k \div span \in Nat
      <4> HIDE DEF k, span
      <4> QED BY <1>0, <3>3, Division
    <3> DEFINE f == k \div span
    <3>6. Overflowed(left, reload, m) + Overflowed(MaxCount - e, reload, n)
            = (1 + q) + (1 + (f - 1))
      BY <2>3, <3>2, <3>4
    <3>7. (1 + q) + (1 + (f - 1)) = 1 + (q + f)
      <4> HIDE DEF f, q
      <4> QED BY <2>2, <3>5 DEF f
    <3> HIDE DEF k, span, q
    <3> QED BY <2>6, <3>2, <3>4, <3>6, <3>7
  <2>9. CASE ~(span <= k)
    <3>1. ~(MaxCount - e <= n) /\ k \in 0 .. span - 1
      <4> HIDE DEF r, q, past
      <4> QED BY <1>0, <2>2, <2>7, <2>9
    <3>2. k \div span = 0 /\ k % span = k
      <4> HIDE DEF k, span
      <4> QED BY <1>0, <3>1, DividedBelow
    <3>3. Count(e, MaxCount - e, reload, n) = e + n
          /\ Overflowed(MaxCount - e, reload, n) = 0
      BY <3>1 DEF Count, Overflowed
    <3>4. e + n = reload + k
      <4> HIDE DEF r
      <4> QED BY <2>2, <2>3
    <3>5. Overflowed(left, reload, m) + Overflowed(MaxCount - e, reload, n) = 1 + q
          /\ 1 + (q + 0) = 1 + q
      <4> HIDE DEF q
      <4> QED BY <2>2, <2>3, <3>3
    <3> HIDE DEF k, span, q
    <3> QED BY <2>6, <3>2, <3>3, <3>4, <3>5
  <2> QED BY <2>8, <2>9
<1>2. CASE ~(left <= m)
  <2>1. e = c + m /\ Overflowed(left, reload, m) = 0
    BY <1>2 DEF Count, Overflowed
  <2>2. CASE left <= m + n
    <3>1. left = MaxCount - c
      BY <2>2
    <3>2. MaxCount - e <= n /\ n - (MaxCount - e) = (m + n) - left
      BY <1>0, <2>1, <2>2, <3>1
    <3>3. Count(e, MaxCount - e, reload, n) = reload + (((m + n) - left) % span)
          /\ Overflowed(MaxCount - e, reload, n) = 1 + (((m + n) - left) \div span)
      BY <3>2 DEF Count, Overflowed
    <3>4. Count(c, left, reload, m + n) = reload + (((m + n) - left) % span)
          /\ Overflowed(left, reload, m + n) = 1 + (((m + n) - left) \div span)
      BY <2>2 DEF Count, Overflowed
    <3>5. (m + n) - left \in Nat
      BY <1>0, <2>2
    <3> DEFINE k == (m + n) - left
    <3>6. k \div span \in Nat
      <4> HIDE DEF k, span
      <4> QED BY <1>0, <3>5, Division DEF k
    <3>7. 0 + (1 + (k \div span)) = 1 + (k \div span)
      <4> DEFINE f == k \div span
      <4> HIDE DEF f
      <4> QED BY <3>6 DEF f
    <3> HIDE DEF k, span
    <3> QED BY <2>1, <3>3, <3>4, <3>7 DEF k
  <2>3. CASE ~(left <= m + n)
    <3>1. ~(MaxCount - e <= n)
      BY <1>0, <2>1, <2>3
    <3>2. Count(e, MaxCount - e, reload, n) = e + n
          /\ Overflowed(MaxCount - e, reload, n) = 0
      BY <3>1 DEF Count, Overflowed
    <3>3. Count(c, left, reload, m + n) = c + (m + n)
          /\ Overflowed(left, reload, m + n) = 0
      BY <2>3 DEF Count, Overflowed
    <3> QED BY <2>1, <3>2, <3>3
  <2> QED BY <2>2, <2>3
<1> QED BY <1>1, <1>2

\* What a timer is in every state.  Until it first counts, ticksLeft is
\* what the constructor left there; no batch is that long then.
Consistent(t) == t.ticksLeft = MaxCount - t.counter
Untouched(t) == /\ InitTicksLeft < MaxCount
                /\ t.counter = 0
                /\ t.ticksLeft = InitTicksLeft
Sound(t) == /\ t \in TimerFields
            /\ Consistent(t) \/ Untouched(t)
            /\ \E p \in DOMAIN Prescaler : t.prescalerCount < Prescaler[p]

\* The batches a timer meets.
Batch(n) == n \in Nat /\ (InitTicksLeft < MaxCount => n < InitTicksLeft)

LEMMA FieldTypes ==
    ASSUME NEW t \in TimerFields
    PROVE  /\ t.counter \in 0 .. MaxCount - 1
           /\ t.reloadValue \in 0 .. MaxCount - 1
           /\ t.ticksLeft \in 1 .. MaxCount
           /\ t.prescalerCount \in Nat
           /\ t.control \in ControlFields
BY DEF TimerFields

(* CounterUpdate keeps a timer's fields in their ranges, makes ticksLeft   *)
(* consistent and overflows no more than once a tick.                      *)
Advanced(t, n, u) ==
    /\ u.timer \in TimerFields
    /\ Consistent(u.timer)
    /\ u.timer.control = t.control
    /\ u.timer.reloadValue = t.reloadValue
    /\ u.timer.prescalerCount = t.prescalerCount
    /\ u.timer.counter = Count(t.counter, t.ticksLeft, t.reloadValue, n)
    /\ u.overflow = Overflowed(t.ticksLeft, t.reloadValue, n)
    /\ u.overflow \in 0 .. n
    /\ Batch(u.overflow)

LEMMA CounterAdvances ==
    ASSUME NEW t \in TimerFields, Consistent(t) \/ Untouched(t),
           NEW n, Batch(n)
    PROVE  Advanced(t, n, CounterUpdate(t, n))
<1> DEFINE e == Count(t.counter, t.ticksLeft, t.reloadValue, n)
           o == Overflowed(t.ticksLeft, t.reloadValue, n)
           u == CounterUpdate(t, n)
<1>1. n \in Nat
  BY DEF Batch
<1>2. t.ticksLeft = MaxCount - t.counter \/ (t.counter = 0 /\ n < t.ticksLeft)
  BY DEF Consistent, Untouched, Batch
<1>3. e \in 0 .. MaxCount - 1 /\ o \in 0 .. n
  BY <1>1, <1>2, FieldTypes, CountRange
<1>4. u.timer = Counting(t, e) /\ u.overflow = o
  BY CounterParts
<1> HIDE DEF e, o
<1>5. Batch(o)
  BY <1>1, <1>3, TimersAssumption DEF Batch
<1> HIDE DEF u
<1>6. Advanced(t, n, u)
  BY <1>3, <1>4, <1>5, CountingFields DEF e, o, Consistent, Advanced
<1> QED BY <1>6 DEF u

(* Counting in two parts, with CounterUpdate itself.                       *)
LEMMA CounterInParts ==
    ASSUME NEW t \in TimerFields, Consistent(t) \/ Untouched(t),
           NEW m \in Nat, NEW n \in Nat, Batch(m + n),
           NEW u, u = CounterUpdate(t, m),
           NEW w, w = CounterUpdate(u.timer, n),
           NEW o, o = CounterUpdate(t, m + n)
    PROVE  w.timer = o.timer /\ u.overflow + w.overflow = o.overflow
<1>1. Batch(m)
  BY TimersAssumption DEF Batch
<1>2. t.ticksLeft = MaxCount - t.counter
        \/ (t.counter = 0 /\ m + n < t.ticksLeft)
  BY DEF Consistent, Untouched, Batch
<1> DEFINE e == Count(t.counter, t.ticksLeft, t.reloadValue, m)
<1>3. /\ e \in 0 .. MaxCount - 1
      /\ u.timer = Counting(t, e)
      /\ u.overflow = Overflowed(t.ticksLeft, t.reloadValue, m)
  <2>1. Advanced(t, m, u)
    BY <1>1, CounterAdvances
  <2>2. e \in 0 .. MaxCount - 1
    BY <2>1 DEF Advanced, TimerFields
  <2> QED BY <2>2, CounterParts
<1>4. /\ Count(e, MaxCount - e, t.reloadValue, n)
           = Count(t.counter, t.ticksLeft, t.reloadValue, m + n)
      /\ Overflowed(t.ticksLeft, t.reloadValue, m)
           + Overflowed(MaxCount - e, t.reloadValue, n)
           = Overflowed(t.ticksLeft, t.reloadValue, m + n)
  BY <1>2, FieldTypes, CountInParts
<1> HIDE DEF e
<1>5. /\ w.timer = Counting(Counting(t, e), Count(e, MaxCount - e, t.reloadValue, n))
      /\ w.overflow = Overflowed(MaxCount - e, t.reloadValue, n)
  BY <1>3, CountingFields, CounterParts
<1>6. w.timer = Counting(t, Count(e, MaxCount - e, t.reloadValue, n))
  BY <1>5, CountingAgain
<1> QED BY <1>3, <1>4, <1>5, <1>6, CounterParts

\* Timer::Update, from the timer and its place in the bank.
Turn(t, i, ticks, prev) ==
    IF ~t.control.timerStart THEN [timer |-> t, overflow |-> 0]
    ELSE IF t.control.countUp /\ i # 0 THEN CounterUpdate(t, prev)
    ELSE PrescalerTimingUpdate(t, ticks)

LEMMA TurnIsUpdate ==
    ASSUME NEW bank, NEW i, NEW ticks, NEW prev
    PROVE  UpdateTimer(bank, i, ticks, prev) = Turn(bank[i], i, ticks, prev)
BY DEF UpdateTimer, Turn, Cascaded

LEMMA DivisorType ==
    ASSUME NEW t \in TimerFields, NEW d, d = Prescaler[t.control.prescaler]
    PROVE  d \in Nat /\ d > 0 /\ t.control.prescaler \in DOMAIN Prescaler
<1>1. t.control.prescaler \in DOMAIN Prescaler
  BY DEF TimerFields, ControlFields
<1> QED BY <1>1, TimersAssumption

(* The divided batch is one a timer meets, also when its rest is of an     *)
(* earlier and larger divisor.                                             *)
LEMMA DividedBatch ==
    ASSUME NEW t, Sound(t), NEW ticks \in 0 .. MaxTicks,
           NEW d \in Nat, d > 0
    PROVE  /\ t.prescalerCount + ticks \in Nat
           /\ Batch((t.prescalerCount + ticks) \div d)
           /\ (t.prescalerCount + ticks) % d \in 0 .. d - 1
<1> DEFINE n == t.prescalerCount + ticks
           q == n \div d
           r == n % d
<1>1. PICK p \in DOMAIN Prescaler : t.prescalerCount < Prescaler[p]
  BY DEF Sound
<1>2. t.prescalerCount \in Nat /\ Prescaler[p] \in Nat /\ MaxTicks \in Nat
  BY FieldTypes, TimersAssumption DEF Sound
<1>3. n \in Nat
  BY <1>2
<1>4. q \in Nat /\ r \in 0 .. d - 1 /\ n = q * d + r
  <2> HIDE DEF n
  <2> QED BY <1>3, Division
<1>5. q <= n
  <2> HIDE DEF n, q, r
  <2>1. q * (d - 1) >= 0 /\ q * (d - 1) = q * d - q
    BY <1>4
  <2> QED BY <1>3, <1>4, <2>1
<1>6. InitTicksLeft < MaxCount => n < InitTicksLeft
  BY <1>1, <1>2, TimersAssumption
<1>7. InitTicksLeft \in Int
  BY TimersAssumption
<1> HIDE DEF n, q, r
<1>8. Batch(q)
  BY <1>3, <1>4, <1>5, <1>6, <1>7 DEF Batch
<1> QED BY <1>3, <1>4, <1>8 DEF n, q, r

LEMMA PrescaledParts ==
    ASSUME NEW t, NEW ticks, NEW d, d = Prescaler[t.control.prescaler]
    PROVE  PrescalerTimingUpdate(t, ticks)
             = CounterUpdate(Resting(t, (t.prescalerCount + ticks) % d),
                             (t.prescalerCount + ticks) \div d)
BY DEF PrescalerTimingUpdate, Resting

(* The rest takes no part in the counting.                                 *)
LEMMA RestKeptApart ==
    ASSUME NEW t \in TimerFields, NEW r \in Nat, NEW s \in Nat, NEW n
    PROVE  /\ Resting(CounterUpdate(Resting(t, r), n).timer, s)
                = CounterUpdate(Resting(t, s), n).timer
           /\ CounterUpdate(Resting(t, r), n).overflow
                = CounterUpdate(Resting(t, s), n).overflow
BY CounterParts, RestingFields, RestingCounting

LEMMA RestingSound ==
    ASSUME NEW t, Sound(t), NEW r \in Nat
    PROVE  /\ Resting(t, r) \in TimerFields
           /\ Consistent(Resting(t, r)) \/ Untouched(Resting(t, r))
           /\ Consistent(Resting(t, r)) <=> Consistent(t)
BY RestingFields DEF Sound, Consistent, Untouched

(* PrescalerTimingUpdate leaves a sound timer.                             *)
LEMMA PrescalerKeeps ==
    ASSUME NEW t, Sound(t), NEW ticks \in 0 .. MaxTicks,
           NEW u, u = PrescalerTimingUpdate(t, ticks)
    PROVE  /\ Sound(u.timer)
           /\ u.timer.control = t.control
           /\ u.timer.reloadValue = t.reloadValue
           /\ Batch(u.overflow)
<1> DEFINE d == Prescaler[t.control.prescaler]
           k == t.prescalerCount + ticks
           v == Resting(t, k % d)
<1>1. d \in Nat /\ d > 0 /\ t.control.prescaler \in DOMAIN Prescaler
  BY DivisorType DEF Sound
<1>2. Batch(k \div d) /\ k % d \in 0 .. d - 1
  BY <1>1, DividedBatch
<1>3. u = CounterUpdate(v, k \div d)
  BY PrescaledParts
<1>4. k % d \in Nat /\ k % d < d
  BY <1>1, <1>2
<1> HIDE DEF k
<1>5. /\ v \in TimerFields
      /\ Consistent(v) \/ Untouched(v)
  BY <1>4, RestingSound
<1>6. v.control = t.control /\ v.reloadValue = t.reloadValue
      /\ v.prescalerCount = k % d
  BY <1>4, RestingFields DEF Sound
<1> HIDE DEF v
<1>7. /\ u.timer \in TimerFields
      /\ Consistent(u.timer)
      /\ u.timer.control = v.control
      /\ u.timer.reloadValue = v.reloadValue
      /\ u.timer.prescalerCount = v.prescalerCount
      /\ Batch(u.overflow)
  <2>1. Advanced(v, k \div d, u)
    BY <1>2, <1>3, <1>5, CounterAdvances
  <2> QED BY <2>1 DEF Advanced
<1>8. u.timer.prescalerCount < Prescaler[t.control.prescaler]
  BY <1>4, <1>6, <1>7
<1> QED BY <1>1, <1>6, <1>7, <1>8 DEF Sound

LEMMA PrescalerInParts ==
    ASSUME NEW t, Sound(t), NEW a \in Nat, NEW b \in Nat, a + b <= MaxTicks,
           NEW u, u = PrescalerTimingUpdate(t, a),
           NEW w, w = PrescalerTimingUpdate(u.timer, b),
           NEW o, o = PrescalerTimingUpdate(t, a + b)
    PROVE  w.timer = o.timer /\ u.overflow + w.overflow = o.overflow
<1> DEFINE d == Prescaler[t.control.prescaler]
           k == t.prescalerCount + a
           r == k % d
           m == k \div d
           l == r + b
           s == l % d
           n == l \div d
<1>1. d \in Nat /\ d > 0
  BY DivisorType DEF Sound
<1>2. a \in 0 .. MaxTicks /\ a + b \in 0 .. MaxTicks
  BY TimersAssumption
<1>3. k \in Nat /\ m \in Nat /\ r \in 0 .. d - 1
  <2>1. k \in Nat /\ Batch(m) /\ r \in 0 .. d - 1
    BY <1>1, <1>2, DividedBatch
  <2> QED BY <2>1 DEF Batch
<1>4. r \in Nat
  BY <1>1, <1>3
<1>5. l \in Nat /\ n \in Nat /\ s \in 0 .. d - 1
  <2>1. l \in Nat
    BY <1>4
  <2> HIDE DEF l
  <2> QED BY <1>1, <2>1, Division
<1>6. s \in Nat
  BY <1>1, <1>5
<1>7. t.prescalerCount + (a + b) = k + b
  BY FieldTypes DEF Sound
<1>8. (k + b) \div d = m + n /\ (k + b) % d = s
  <2> HIDE DEF k
  <2> QED BY <1>1, <1>3, DividedInParts
<1>9. Batch(m + n)
  <2>1. Batch((t.prescalerCount + (a + b)) \div d)
    BY <1>1, <1>2, DividedBatch
  <2> QED BY <1>7, <1>8, <2>1
<1> DEFINE v == Resting(t, r)
           x == Resting(t, s)
           y == CounterUpdate(x, m)
<1>10. u = CounterUpdate(v, m)
  BY PrescaledParts
<1>11. Batch(m)
  BY <1>1, <1>2, DividedBatch
<1> HIDE DEF k, r, m, l, s, n
<1>12. v \in TimerFields /\ (Consistent(v) \/ Untouched(v))
       /\ v.control = t.control /\ v.prescalerCount = r
  BY <1>4, RestingFields, RestingSound DEF Sound
<1> HIDE DEF v
<1>13. u.timer \in TimerFields /\ u.timer.control = t.control
       /\ u.timer.prescalerCount = r
  <2>1. Advanced(v, m, u)
    BY <1>10, <1>11, <1>12, CounterAdvances
  <2> QED BY <1>12, <2>1 DEF Advanced
<1>14. w = CounterUpdate(Resting(u.timer, s), n)
  <2>1. d = Prescaler[u.timer.control.prescaler]
    BY <1>13
  <2>2. w = CounterUpdate(Resting(u.timer, (u.timer.prescalerCount + b) % d),
                          (u.timer.prescalerCount + b) \div d)
    BY <2>1, PrescaledParts
  <2> HIDE DEF d
  <2> QED BY <1>13, <2>2 DEF l, n, s
<1>15. Resting(u.timer, s) = y.timer /\ u.overflow = y.overflow
  BY <1>4, <1>6, <1>10, RestKeptApart DEF v, Sound
<1>16. o = CounterUpdate(x, m + n)
  <2>1. o = CounterUpdate(Resting(t, (t.prescalerCount + (a + b)) % d),
                          (t.prescalerCount + (a + b)) \div d)
    BY PrescaledParts
  <2> HIDE DEF d
  <2> QED BY <1>7, <1>8, <2>1
<1>17. x \in TimerFields /\ (Consistent(x) \/ Untouched(x))
  BY <1>6, RestingSound
<1> HIDE DEF x, d
<1>18. w = CounterUpdate(y.timer, n)
  BY <1>14, <1>15
<1>19. w.timer = o.timer /\ y.overflow + w.overflow = o.overflow
  BY <1>3, <1>5, <1>9, <1>16, <1>17, <1>18, CounterInParts
<1> QED BY <1>15, <1>19

(* A turn leaves a sound timer and a batch its successor may meet.         *)
LEMMA TurnKeeps ==
    ASSUME NEW t, Sound(t), NEW i, NEW ticks \in 0 .. MaxTicks,
           NEW prev, Batch(prev),
           NEW u, u = Turn(t, i, ticks, prev)
    PROVE  /\ Sound(u.timer)
           /\ u.timer.control = t.control
           /\ u.timer.reloadValue = t.reloadValue
           /\ Batch(u.overflow)
<1>1. CASE ~t.control.timerStart
  <2>1. u.timer = t /\ u.overflow = 0
    BY <1>1 DEF Turn
  <2>2. Batch(0)
    BY TimersAssumption DEF Batch
  <2> QED BY <2>1, <2>2
<1>2. CASE t.control.timerStart /\ t.control.countUp /\ i # 0
  <2>1. u = CounterUpdate(t, prev)
    BY <1>2 DEF Turn
  <2>2. t \in TimerFields /\ (Consistent(t) \/ Untouched(t))
        /\ \E p \in DOMAIN Prescaler : t.prescalerCount < Prescaler[p]
    BY DEF Sound
  <2>3. /\ u.timer \in TimerFields
        /\ Consistent(u.timer)
        /\ u.timer.control = t.control
        /\ u.timer.reloadValue = t.reloadValue
        /\ u.timer.prescalerCount = t.prescalerCount
        /\ Batch(u.overflow)
    <3>1. Advanced(t, prev, u)
      BY <2>1, <2>2, CounterAdvances
    <3> QED BY <3>1 DEF Advanced
  <2>4. \E p \in DOMAIN Prescaler : u.timer.prescalerCount < Prescaler[p]
    BY <2>2, <2>3
  <2> QED BY <2>3, <2>4 DEF Sound
<1>3. CASE t.control.timerStart /\ ~(t.control.countUp /\ i # 0)
  <2>1. u = PrescalerTimingUpdate(t, ticks)
    BY <1>3 DEF Turn
  <2> QED BY <2>1, PrescalerKeeps
<1> QED BY <1>1, <1>2, <1>3

(* Two turns are as good as one with both batches.                         *)
LEMMA TurnInParts ==
    ASSUME NEW t, Sound(t), NEW i,
           NEW a \in Nat, NEW b \in Nat, a + b <= MaxTicks,
           NEW m, NEW n, Batch(m), Batch(n), Batch(m + n),
           NEW u, u = Turn(t, i, a, m),
           NEW w, w = Turn(u.timer, i, b, n),
           NEW o, o = Turn(t, i, a + b, m + n)
    PROVE  w.timer = o.timer /\ u.overflow + w.overflow = o.overflow
<1>0. a \in 0 .. MaxTicks
  BY TimersAssumption
<1>1. u.timer.control = t.control
  BY <1>0, TurnKeeps
<1>2. CASE ~t.control.timerStart
  BY <1>1, <1>2 DEF Turn
<1>3. CASE t.control.timerStart /\ t.control.countUp /\ i # 0
  <2>1. /\ u = CounterUpdate(t, m)
        /\ w = CounterUpdate(u.timer, n)
        /\ o = CounterUpdate(t, m + n)
    BY <1>1, <1>3 DEF Turn
  <2>2. m \in Nat /\ n \in Nat
    BY DEF Batch
  <2> QED BY <2>1, <2>2, CounterInParts DEF Sound
<1>4. CASE t.control.timerStart /\ ~(t.control.countUp /\ i # 0)
  <2>1. /\ u = PrescalerTimingUpdate(t, a)
        /\ w = PrescalerTimingUpdate(u.timer, b)
        /\ o = PrescalerTimingUpdate(t, a + b)
    BY <1>1, <1>4 DEF Turn
  <2> QED BY <2>1, PrescalerInParts
<1> QED BY <1>2, <1>3, <1>4

LEMMA Places ==
    /\ 0 \in TimerIds
    /\ \A i \in TimerIds : i = 0 \/ i = 1 \/ i = 2 \/ i = 3
    /\ \A i \in TimerIds : i # 0 => i - 1 \in TimerIds
BY TimersAssumption DEF TimerIds

(* What holds of the first timer and of every successor holds of the bank. *)
LEMMA EveryTimer ==
    ASSUME NEW S, 0 \in S, \A i \in TimerIds : i # 0 /\ i - 1 \in S => i \in S
    PROVE  \A i \in TimerIds : i \in S
<1>1. TimerIds = 0 .. LastTimer /\ LastTimer \in 0 .. 3
  BY TimersAssumption DEF TimerIds
<1>2. 1 \in TimerIds => 1 \in S
  OBVIOUS
<1>3. 2 \in TimerIds => 2 \in S
  <2>1. 2 \in TimerIds => 1 \in TimerIds
    BY <1>1
  <2> QED BY <1>2, <2>1
<1>4. 3 \in TimerIds => 3 \in S
  <2>1. 3 \in TimerIds => 2 \in TimerIds
    BY <1>1
  <2> QED BY <1>3, <2>1
<1> QED BY <1>2, <1>3, <1>4, Places

(* UpdateBank is the function its equation describes.                      *)
LEMMA BankTurns ==
    ASSUME NEW bank, NEW ticks, NEW r, r = UpdateBank(bank, ticks)
    PROVE  /\ r = [i \in TimerIds |->
                     Turn(bank[i], i, ticks, IF i = 0 THEN 0 ELSE r[i - 1].overflow)]
<1> DEFINE r0 == Turn(bank[0], 0, ticks, 0)
           r1 == Turn(bank[1], 1, ticks, r0.overflow)
           r2 == Turn(bank[2], 2, ticks, r1.overflow)
           r3 == Turn(bank[3], 3, ticks, r2.overflow)
           g == [i \in TimerIds |-> IF i = 0 THEN r0 ELSE IF i = 1 THEN r1
                                    ELSE IF i = 2 THEN r2 ELSE r3]
           Step(f) == [i \in TimerIds |->
                         Turn(bank[i], i, ticks, IF i = 0 THEN 0 ELSE f[i - 1].overflow)]
<1>1. g = Step(g)
  <2>1. ASSUME NEW i \in TimerIds
        PROVE  g[i] = Turn(bank[i], i, ticks, IF i = 0 THEN 0 ELSE g[i - 1].overflow)
    <3>0. i # 0 => i - 1 \in TimerIds
      BY Places
    <3>1. CASE i = 0
      BY <3>1
    <3>2. CASE i = 1
      <4>1. g[i] = r1 /\ g[i - 1] = r0
        BY <3>0, <3>2
      <4> QED BY <3>2, <4>1
    <3>3. CASE i = 2
      <4>1. g[i] = r2 /\ g[i - 1] = r1
        BY <3>0, <3>3
      <4> HIDE DEF r1
      <4> QED BY <3>3, <4>1
    <3>4. CASE i = 3
      <4>1. g[i] = r3 /\ g[i - 1] = r2
        BY <3>0, <3>4
      <4> HIDE DEF r2
      <4> QED BY <3>4, <4>1
    <3> QED BY <3>1, <3>2, <3>3, <3>4, Places
  <2>2. g = [i \in TimerIds |-> g[i]]
    OBVIOUS
  <2> HIDE DEF g
  <2> QED BY <2>1, <2>2
<1> HIDE DEF g
<1>2. r = CHOOSE f : f = Step(f)
  BY TurnIsUpdate DEF UpdateBank
<1> HIDE DEF Step
<1>3. r = Step(r)
  BY <1>1, <1>2
<1> QED BY <1>3 DEF Step

SoundBank(bank) == \A i \in TimerIds : Sound(bank[i])

\* What an update makes of a timer and hands to the next one.
Kept(t, u) == /\ Sound(u.timer)
              /\ u.timer.control = t.control
              /\ u.timer.reloadValue = t.reloadValue
              /\ Batch(u.overflow)

LEMMA NoBatch == Batch(0)
BY TimersAssumption DEF Batch

LEMMA BankKeeps ==
    ASSUME NEW bank, SoundBank(bank), NEW ticks \in 0 .. MaxTicks,
           NEW r, r = UpdateBank(bank, ticks)
    PROVE  \A i \in TimerIds : Kept(bank[i], r[i])
<1> DEFINE prev(i) == IF i = 0 THEN 0 ELSE r[i - 1].overflow
           S == { i \in TimerIds : Kept(bank[i], r[i]) }
<1>1. ASSUME NEW i \in TimerIds, Batch(prev(i))
      PROVE  Kept(bank[i], r[i])
  <2>1. r[i] = Turn(bank[i], i, ticks, prev(i))
    BY BankTurns
  <2>2. Sound(bank[i])
    BY DEF SoundBank
  <2> HIDE DEF prev
  <2> QED BY <1>1, <2>1, <2>2, TurnKeeps DEF Kept
<1>2. 0 \in S
  <2>1. Batch(prev(0))
    BY NoBatch
  <2> HIDE DEF prev
  <2> QED BY <1>1, <2>1, Places
<1>3. ASSUME NEW i \in TimerIds, i # 0, i - 1 \in S
      PROVE  i \in S
  <2>1. Batch(prev(i))
    BY <1>3 DEF Kept
  <2> HIDE DEF prev
  <2> QED BY <1>1, <2>1
<1> HIDE DEF S
<1>4. \A i \in TimerIds : i \in S
  BY <1>2, <1>3, EveryTimer
<1> QED BY <1>4 DEF S

(* The whole bank given a batch in two parts.                              *)
LEMMA BankInParts ==
    ASSUME NEW bank, SoundBank(bank),
           NEW a \in Nat, NEW b \in Nat, a + b <= MaxTicks,
           NEW u, u = UpdateBank(bank, a),
           NEW w, w = UpdateBank([i \in TimerIds |-> u[i].timer], b),
           NEW o, o = UpdateBank(bank, a + b)
    PROVE  \A i \in TimerIds : /\ w[i].timer = o[i].timer
                               /\ u[i].overflow + w[i].overflow = o[i].overflow
<1> DEFINE mid == [i \in TimerIds |-> u[i].timer]
           S == { i \in TimerIds : /\ w[i].timer = o[i].timer
                                   /\ u[i].overflow + w[i].overflow = o[i].overflow }
           U(i) == IF i = 0 THEN 0 ELSE u[i - 1].overflow
           W(i) == IF i = 0 THEN 0 ELSE w[i - 1].overflow
           O(i) == IF i = 0 THEN 0 ELSE o[i - 1].overflow
<1>1. a \in 0 .. MaxTicks /\ b \in 0 .. MaxTicks /\ a + b \in 0 .. MaxTicks
  BY TimersAssumption
<1>2. \A i \in TimerIds : Kept(bank[i], u[i]) /\ Kept(bank[i], o[i])
  BY <1>1, BankKeeps
<1>3. SoundBank(mid)
  BY <1>2 DEF SoundBank, Kept
<1>4. \A i \in TimerIds : Kept(mid[i], w[i])
  <2> HIDE DEF mid
  <2>1. w = UpdateBank(mid, b)
    BY DEF mid
  <2> QED BY <1>1, <1>3, <2>1, BankKeeps
<1>5. ASSUME NEW i \in TimerIds, U(i) + W(i) = O(i)
      PROVE  i \in S
  <2>1. Batch(U(i)) /\ Batch(W(i)) /\ Batch(O(i))
    BY <1>2, <1>4, NoBatch, Places DEF Kept
  <2>2. /\ u[i] = Turn(bank[i], i, a, U(i))
        /\ o[i] = Turn(bank[i], i, a + b, O(i))
    BY BankTurns
  <2>3. w[i] = Turn(u[i].timer, i, b, W(i))
    <3>1. w = [j \in TimerIds |->
                  Turn(mid[j], j, b, IF j = 0 THEN 0 ELSE w[j - 1].overflow)]
      BY BankTurns
    <3>2. w[i] = Turn(mid[i], i, b, W(i))
      <4> HIDE DEF mid
      <4> QED BY <3>1
    <3> QED BY <3>2
  <2>4. Sound(bank[i])
    BY DEF SoundBank
  <2> DEFINE m == U(i)
             n == W(i)
  <2>5. Batch(m) /\ Batch(n) /\ Batch(m + n)
    BY <1>5, <2>1
  <2>6. /\ u[i] = Turn(bank[i], i, a, m)
        /\ o[i] = Turn(bank[i], i, a + b, m + n)
        /\ w[i] = Turn(u[i].timer, i, b, n)
    BY <1>5, <2>2, <2>3
  <2> HIDE DEF m, n, U, W, O
  <2>7. w[i].timer = o[i].timer /\ u[i].overflow + w[i].overflow = o[i].overflow
    BY <2>4, <2>5, <2>6, TurnInParts
  <2> QED BY <2>7
<1>6. 0 \in S
  <2>1. U(0) + W(0) = O(0)
    OBVIOUS
  <2> HIDE DEF U, W, O, S
  <2> QED BY <1>5, <2>1, Places
<1>7. ASSUME NEW i \in TimerIds, i # 0, i - 1 \in S
      PROVE  i \in S
  <2>1. U(i) + W(i) = O(i)
    BY <1>7
  <2> HIDE DEF U, W, O, S
  <2> QED BY <1>5, <2>1
<1> HIDE DEF S
<1>8. \A i \in TimerIds : i \in S
  BY <1>6, <1>7, EveryTimer
<1> QED BY <1>8 DEF S

\* The inductive invariant: every timer of the bank is sound.
TimersInv == TimersTypeOK /\ SoundBank(timers)

LEMMA PowerOnSound == Sound(PowerOnTimer)
<1>1. PowerOnTimer \in TimerFields
  BY TimersAssumption DEF PowerOnTimer, TimerFields, ControlFields
<1>2. Consistent(PowerOnTimer) \/ Untouched(PowerOnTimer)
  <2>1. /\ PowerOnTimer.counter = 0
        /\ PowerOnTimer.ticksLeft = InitTicksLeft
    BY DEF PowerOnTimer
  <2> QED BY <2>1, TimersAssumption DEF Consistent, Untouched
<1>3. PowerOnTimer.prescalerCount < Prescaler[0]
  <2>1. PowerOnTimer.prescalerCount = 0
    BY DEF PowerOnTimer
  <2> QED BY <2>1, TimersAssumption
<1> QED BY <1>1, <1>2, <1>3, TimersAssumption DEF Sound

(* A store into TMxCNT_H or TMxCNT_L leaves a sound timer.                 *)
Stored(t, u) == /\ u \in TimerFields
                /\ u.counter = t.counter
                /\ u.ticksLeft = t.ticksLeft
                /\ u.prescalerCount = t.prescalerCount \/ u.prescalerCount = 0

LEMMA StoredSound ==
    ASSUME NEW t, Sound(t), NEW u, Stored(t, u)
    PROVE  Sound(u)
<1>1. Consistent(u) \/ Untouched(u)
  BY DEF Sound, Stored, Consistent, Untouched
<1>2. PICK p \in DOMAIN Prescaler : t.prescalerCount < Prescaler[p]
  BY DEF Sound
<1>3. CASE u.prescalerCount = t.prescalerCount
  BY <1>1, <1>2, <1>3 DEF Sound, Stored
<1>4. CASE u.prescalerCount = 0
  <2>1. u.prescalerCount < Prescaler[0] /\ 0 \in DOMAIN Prescaler
    BY <1>4, TimersAssumption
  <2> QED BY <1>1, <2>1 DEF Sound, Stored
<1> QED BY <1>3, <1>4 DEF Stored

LEMMA ControlStored ==
    ASSUME NEW t \in TimerFields, NEW c \in ControlFields, NEW r,
           r = t.prescalerCount \/ r = 0,
           NEW u, u = [t EXCEPT !.control = c, !.prescalerCount = r]
    PROVE  Stored(t, u)
<1>1. r \in Nat
  BY FieldTypes
<1>2. /\ u \in TimerFields
      /\ u.counter = t.counter
      /\ u.ticksLeft = t.ticksLeft
      /\ u.prescalerCount = r
  BY <1>1 DEF TimerFields
<1> QED BY <1>2 DEF Stored

LEMMA ReloadStored ==
    ASSUME NEW t \in TimerFields, NEW v \in 0 .. MaxCount - 1,
           NEW u, u = [t EXCEPT !.reloadValue = v]
    PROVE  Stored(t, u)
BY DEF Stored, TimerFields

LEMMA WriteKeeps ==
    ASSUME TimersInv, NEW id \in TimerIds, NEW u, Stored(timers[id], u),
           timers' = [timers EXCEPT ![id] = u], NoEvents
    PROVE  TimersInv'
<1>1. timers' \in [TimerIds -> TimerFields]
  BY DEF TimersInv, TimersTypeOK, Stored
<1>2. Sound(u)
  BY StoredSound DEF TimersInv, SoundBank
<1>3. \A i \in TimerIds : Sound(timers'[i])
  BY <1>2 DEF TimersInv, TimersTypeOK, SoundBank
<1>4. /\ overflows' \in [TimerIds -> Nat]
      /\ requests' \subseteq TimerIds
      /\ samples' \subseteq {0, 1}
  BY DEF NoEvents
<1>5. TimersTypeOK'
  BY <1>1, <1>4 DEF TimersTypeOK
<1>6. SoundBank(timers)'
  BY <1>3 DEF SoundBank
<1> QED BY <1>5, <1>6 DEF TimersInv

LEMMA TimersInit == InitTimers => TimersInv
<1> SUFFICES ASSUME InitTimers PROVE TimersInv
  OBVIOUS
<1>1. PowerOnTimer \in TimerFields
  BY PowerOnSound DEF Sound
<1>2. TimersTypeOK
  BY <1>1 DEF InitTimers, TimersTypeOK
<1>3. SoundBank(timers)
  BY PowerOnSound DEF InitTimers, SoundBank
<1> QED BY <1>2, <1>3 DEF TimersInv

LEMMA TimersNext == TimersInv /\ [NextTimers]_timerVars => TimersInv'
<1> SUFFICES ASSUME TimersInv, [NextTimers]_timerVars PROVE TimersInv'
  OBVIOUS
<1>1. ASSUME NEW ticks \in 0 .. MaxTicks, Update(ticks)
      PROVE  TimersInv'
  <2> DEFINE r == UpdateBank(timers, ticks)
  <2>1. \A i \in TimerIds : Kept(timers[i], r[i])
    <3> HIDE DEF r
    <3> QED BY BankKeeps DEF TimersInv, r
  <2>2. /\ timers' = [i \in TimerIds |-> r[i].timer]
        /\ overflows' = [i \in TimerIds |-> r[i].overflow]
        /\ requests' \subseteq TimerIds
        /\ samples' \subseteq {0, 1}
    BY <1>1 DEF Update
  <2> HIDE DEF r
  <2>3. \A i \in TimerIds : Sound(timers'[i]) /\ timers'[i] \in TimerFields
    BY <2>1, <2>2 DEF Kept, Sound
  <2>4. \A i \in TimerIds : r[i].overflow \in Nat
    BY <2>1 DEF Kept, Batch
  <2>5. timers' \in [TimerIds -> TimerFields] /\ overflows' \in [TimerIds -> Nat]
    BY <2>2, <2>3, <2>4
  <2>6. TimersTypeOK'
    BY <2>2, <2>5 DEF TimersTypeOK
  <2>7. SoundBank(timers)'
    BY <2>3 DEF SoundBank
  <2> QED BY <2>6, <2>7 DEF TimersInv
<1>2. ASSUME NEW id \in TimerIds, NEW control \in Controls, WriteCntH(id, control)
      PROVE  TimersInv'
  <2> DEFINE t == timers[id]
             r == IF control.timerStart /\ ~t.control.timerStart THEN 0
                  ELSE t.prescalerCount
             u == [t EXCEPT !.control = control, !.prescalerCount = r]
  <2>1. t \in TimerFields /\ control \in ControlFields
    BY TimersAssumption DEF TimersInv, TimersTypeOK
  <2>2. Stored(t, u)
    <3>1. r = t.prescalerCount \/ r = 0
      OBVIOUS
    <3> HIDE DEF t, r
    <3> QED BY <2>1, <3>1, ControlStored
  <2>3. timers' = [timers EXCEPT ![id] = u]
    BY <1>2 DEF WriteCntH, TimerCntHUpdate, TimersInv, TimersTypeOK
  <2> HIDE DEF u
  <2>4. NoEvents
    BY <1>2 DEF WriteCntH
  <2> QED BY <2>2, <2>3, <2>4, WriteKeeps
<1>3. ASSUME NEW id \in TimerIds, NEW value \in Reloads, WriteCntL(id, value)
      PROVE  TimersInv'
  <2> DEFINE t == timers[id]
             u == [t EXCEPT !.reloadValue = value]
  <2>1. t \in TimerFields /\ value \in 0 .. MaxCount - 1
    BY TimersAssumption DEF TimersInv, TimersTypeOK
  <2>2. Stored(t, u)
    <3> HIDE DEF t
    <3> QED BY <2>1, ReloadStored
  <2>3. timers' = [timers EXCEPT ![id] = u]
    BY <1>3 DEF WriteCntL, SetReloadValue
  <2> HIDE DEF u
  <2>4. NoEvents
    BY <1>3 DEF WriteCntL
  <2> QED BY <2>2, <2>3, <2>4, WriteKeeps
<1>4. CASE UNCHANGED timerVars
  BY <1>4 DEF TimersInv, TimersTypeOK, SoundBank, timerVars
<1> QED BY <1>1, <1>2, <1>3, <1>4 DEF NextTimers

LEMMA TimersSound == TimersSpec => []TimersInv
BY TimersInit, TimersNext, PTL DEF TimersSpec

(* The counters stay in their 16 bits and ticksLeft is never 0, so no idle *)
(* timer overflows (the sums of Timer::CounterUpdate do not wrap).         *)
THEOREM TimersTyped == TimersSpec => []TimersTypeOK
<1>1. TimersInv => TimersTypeOK
  BY DEF TimersInv
<1> QED BY <1>1, TimersSound, PTL

(* Giving the bank a batch of ticks in two parts leaves what giving it at  *)
(* once does, in every reachable state, cascades and prescalers included:  *)
(* the main loop of gba.cpp may cut time where its units happen to end.    *)
THEOREM BatchesAdd == TimersSpec => []BatchIndependent
<1>1. TimersInv => BatchIndependent
  <2> SUFFICES ASSUME TimersInv, NEW a \in 0 .. MaxTicks, NEW b \in 0 .. MaxTicks,
                      a + b <= MaxTicks
               PROVE  LET first  == UpdateBank(timers, a)
                          second == UpdateBank([i \in TimerIds |-> first[i].timer], b)
                          once   == UpdateBank(timers, a + b)
                      IN  \A i \in TimerIds :
                            /\ second[i].timer = once[i].timer
                            /\ first[i].overflow + second[i].overflow = once[i].overflow
    BY DEF BatchIndependent
  <2> DEFINE first  == UpdateBank(timers, a)
             second == UpdateBank([i \in TimerIds |-> first[i].timer], b)
             once   == UpdateBank(timers, a + b)
  <2>1. a \in Nat /\ b \in Nat
    BY TimersAssumption
  <2>2. SoundBank(timers)
    BY DEF TimersInv
  <2>3. /\ first = UpdateBank(timers, a)
        /\ second = UpdateBank([i \in TimerIds |-> first[i].timer], b)
        /\ once = UpdateBank(timers, a + b)
    OBVIOUS
  <2> HIDE DEF first, second, once
  <2>4. \A i \in TimerIds :
            /\ second[i].timer = once[i].timer
            /\ first[i].overflow + second[i].overflow = once[i].overflow
    BY <2>1, <2>2, <2>3, BankInParts
  <2> QED BY <2>4 DEF first, second, once
<1> QED BY <1>1, TimersSound, PTL

\* The overflows of an ideal counter in so many ticks.
Ideal(distance, period, ticks) ==
    IF distance <= ticks THEN 1 + ((ticks - distance) \div period) ELSE 0

(* A divided timer overflows when the ideal counter does.                  *)
LEMMA DividedOnTime ==
    ASSUME NEW d \in Nat, d > 0, NEW k \in Nat, NEW ticks \in Nat,
           NEW left \in 1 .. MaxCount, NEW reload \in 0 .. MaxCount - 1
    PROVE  Overflowed(left, reload, (k + ticks) \div d)
             = Ideal(left * d - k, (MaxCount - reload) * d, ticks)
<1> DEFINE span == MaxCount - reload
           n == k + ticks
           q == n \div d
           x == left * d - k
<1>1. span \in Nat /\ span > 0 /\ left \in Nat
  BY TimersAssumption
<1>2. /\ left <= q <=> left * d <= n
      /\ left * d <= n => (q - left) \div span = (n - left * d) \div (span * d)
  <2>1. n \in Nat
    OBVIOUS
  <2> HIDE DEF n, span
  <2> QED BY <1>1, <2>1, DividedTwice
<1>3. left * d \in Int
  BY <1>1
<1>4. (left * d <= n <=> x <= ticks) /\ n - left * d = ticks - x
  <2> DEFINE b == left * d
  <2> HIDE DEF b
  <2>1. (b <= k + ticks <=> b - k <= ticks) /\ (k + ticks) - b = ticks - (b - k)
    BY <1>3 DEF b
  <2> QED BY <2>1 DEF b
<1> HIDE DEF q, n, x
<1>5. CASE x <= ticks
  <2>1. left <= q /\ (q - left) \div span = (ticks - x) \div (span * d)
    BY <1>2, <1>4, <1>5
  <2>2. Overflowed(left, reload, q) = 1 + ((q - left) \div span)
    BY <2>1 DEF Overflowed
  <2>3. Ideal(x, span * d, ticks) = 1 + ((ticks - x) \div (span * d))
    BY <1>5 DEF Ideal
  <2> HIDE DEF span
  <2>4. Overflowed(left, reload, q) = Ideal(x, span * d, ticks)
    BY <2>1, <2>2, <2>3
  <2> QED BY <2>4 DEF q, n, x, span
<1>6. CASE ~(x <= ticks)
  <2>1. ~(left <= q)
    BY <1>2, <1>4, <1>6
  <2>2. Overflowed(left, reload, q) = 0
    BY <2>1 DEF Overflowed
  <2>3. Ideal(x, span * d, ticks) = 0
    BY <1>6 DEF Ideal
  <2>4. Overflowed(left, reload, q) = Ideal(x, span * d, ticks)
    BY <2>2, <2>3
  <2> QED BY <2>4 DEF q, n, x
<1> QED BY <1>5, <1>6

(* A timer that counts an ideal counter's overflows is one itself.         *)
LEMMA CascadeOnTime ==
    ASSUME NEW x \in Int, NEW p \in Nat, p > 0, NEW ticks \in Nat,
           NEW left \in 1 .. MaxCount, NEW reload \in 0 .. MaxCount - 1
    PROVE  Overflowed(left, reload, Ideal(x, p, ticks))
             = Ideal((left - 1) * p + x, (MaxCount - reload) * p, ticks)
<1> DEFINE span == MaxCount - reload
           l == left - 1
           n == ticks - x
           q == n \div p
           y == l * p + x
<1>1. span \in Nat /\ span > 0 /\ left \in Nat /\ left > 0 /\ l \in Nat
  BY TimersAssumption
<1>2. l * p \in Nat
  <2> HIDE DEF l
  <2> QED BY <1>1
<1>3. (l * p <= n <=> y <= ticks) /\ n - l * p = ticks - y
  <2> DEFINE b == l * p
  <2> HIDE DEF b, l
  <2>1. (b <= ticks - x <=> b + x <= ticks) /\ (ticks - x) - b = ticks - (b + x)
    BY <1>2 DEF b
  <2> QED BY <2>1 DEF b
<1>4. CASE ~(x <= ticks)
  <2>1. Ideal(x, p, ticks) = 0
    BY <1>4 DEF Ideal
  <2>2. Overflowed(left, reload, 0) = 0
    <3>1. ~(left <= 0)
      BY <1>1
    <3> QED BY <3>1 DEF Overflowed
  <2>3. ~(y <= ticks)
    <3> DEFINE b == l * p
    <3>1. b \in Nat
      BY <1>2
    <3> HIDE DEF b
    <3>2. ~(b + x <= ticks)
      BY <1>4, <3>1
    <3> QED BY <3>2 DEF b
  <2> HIDE DEF y
  <2>4. Ideal(y, span * p, ticks) = 0
    BY <2>3 DEF Ideal
  <2> QED BY <2>1, <2>2, <2>4 DEF y
<1>5. CASE x <= ticks
  <2>1. n \in Nat
    BY <1>5
  <2>2. /\ l <= q <=> l * p <= n
        /\ l * p <= n => (q - l) \div span = (n - l * p) \div (span * p)
    <3> HIDE DEF n, span, l
    <3> QED BY <1>1, <2>1, DividedTwice
  <2>3. q \in Nat
    <3> HIDE DEF n
    <3> QED BY <2>1, Division
  <2>4. Ideal(x, p, ticks) = 1 + q
    BY <1>5 DEF Ideal
  <2> HIDE DEF q, n, y
  <2>5. (left <= 1 + q <=> l <= q) /\ (1 + q) - left = q - l
    BY <1>1, <2>3
  <2>6. CASE y <= ticks
    <3>1. l <= q /\ (q - l) \div span = (ticks - y) \div (span * p)
      <4> HIDE DEF l, span
      <4> QED BY <1>3, <2>2, <2>6
    <3>2. Overflowed(left, reload, 1 + q) = 1 + ((q - l) \div span)
      <4> HIDE DEF l
      <4>1. left <= 1 + q
        BY <2>5, <3>1
      <4>2. Overflowed(left, reload, 1 + q) = 1 + (((1 + q) - left) \div span)
        BY <4>1 DEF Overflowed
      <4> QED BY <2>5, <4>2
    <3>3. Ideal(y, span * p, ticks) = 1 + ((ticks - y) \div (span * p))
      BY <2>6 DEF Ideal
    <3> HIDE DEF span, l
    <3>4. Overflowed(left, reload, 1 + q) = Ideal(y, span * p, ticks)
      BY <3>1, <3>2, <3>3
    <3> QED BY <2>4, <3>4 DEF y, span, l
  <2>7. CASE ~(y <= ticks)
    <3>1. ~(left <= 1 + q)
      BY <1>3, <2>2, <2>5, <2>7
    <3>2. Overflowed(left, reload, 1 + q) = 0
      BY <3>1 DEF Overflowed
    <3>3. Ideal(y, span * p, ticks) = 0
      BY <2>7 DEF Ideal
    <3> QED BY <2>4, <3>2, <3>3 DEF y
  <2> QED BY <2>6, <2>7
<1> QED BY <1>4, <1>5

(* The ideal counters' functions are what their equations describe.        *)
CountsOn(bank, i, before) == /\ bank[i].control.timerStart
                             /\ Cascaded(bank, i) => before

LEMMA DrivenIs ==
    ASSUME NEW bank, NEW d, d = Driven(bank)
    PROVE  d = [i \in TimerIds |-> CountsOn(bank, i, d[i - 1])]
<1> DEFINE r0 == CountsOn(bank, 0, TRUE)
           r1 == CountsOn(bank, 1, r0)
           r2 == CountsOn(bank, 2, r1)
           r3 == CountsOn(bank, 3, r2)
           g == [i \in TimerIds |-> IF i = 0 THEN r0 ELSE IF i = 1 THEN r1
                                    ELSE IF i = 2 THEN r2 ELSE r3]
           Step(f) == [i \in TimerIds |-> CountsOn(bank, i, f[i - 1])]
<1>1. g = Step(g)
  <2>1. ASSUME NEW i \in TimerIds
        PROVE  g[i] = CountsOn(bank, i, g[i - 1])
    <3>0. i # 0 => i - 1 \in TimerIds
      BY Places
    <3>1. CASE i = 0
      <4>1. g[i] = r0
        BY <3>1
      <4>2. r0 = CountsOn(bank, i, g[i - 1])
        BY <3>1, Zenon DEF CountsOn, Cascaded
      <4> QED BY <4>1, <4>2
    <3>2. CASE i = 1
      <4>1. g[i] = r1 /\ g[i - 1] = r0
        BY <3>0, <3>2
      <4> HIDE DEF r0, g
      <4> QED BY <3>2, <4>1
    <3>3. CASE i = 2
      <4>1. g[i] = r2 /\ g[i - 1] = r1
        BY <3>0, <3>3
      <4> HIDE DEF r1, g
      <4> QED BY <3>3, <4>1
    <3>4. CASE i = 3
      <4>1. g[i] = r3 /\ g[i - 1] = r2
        BY <3>0, <3>4
      <4> HIDE DEF r2, g
      <4> QED BY <3>4, <4>1
    <3> QED BY <3>1, <3>2, <3>3, <3>4, Places
  <2>2. g = [i \in TimerIds |-> g[i]]
    OBVIOUS
  <2> HIDE DEF g, r0, r1, r2, r3
  <2> QED BY <2>1, <2>2
<1> HIDE DEF g
<1>2. d = CHOOSE f : f = Step(f)
  BY DEF Driven, CountsOn
<1> HIDE DEF Step
<1>3. d = Step(d)
  BY <1>1, <1>2
<1> QED BY <1>3 DEF Step

PeriodOn(bank, i, before) ==
    (MaxCount - bank[i].reloadValue)
      * (IF Cascaded(bank, i) THEN before
                              ELSE Prescaler[bank[i].control.prescaler])

LEMMA PeriodIs ==
    ASSUME NEW bank, NEW p, p = Period(bank)
    PROVE  p = [i \in TimerIds |-> PeriodOn(bank, i, p[i - 1])]
<1> DEFINE r0 == PeriodOn(bank, 0, 0)
           r1 == PeriodOn(bank, 1, r0)
           r2 == PeriodOn(bank, 2, r1)
           r3 == PeriodOn(bank, 3, r2)
           g == [i \in TimerIds |-> IF i = 0 THEN r0 ELSE IF i = 1 THEN r1
                                    ELSE IF i = 2 THEN r2 ELSE r3]
           Step(f) == [i \in TimerIds |-> PeriodOn(bank, i, f[i - 1])]
<1>1. g = Step(g)
  <2>1. ASSUME NEW i \in TimerIds
        PROVE  g[i] = PeriodOn(bank, i, g[i - 1])
    <3>0. i # 0 => i - 1 \in TimerIds
      BY Places
    <3>1. CASE i = 0
      <4>1. g[i] = r0
        BY <3>1
      <4>2. r0 = PeriodOn(bank, i, g[i - 1])
        BY <3>1 DEF PeriodOn, Cascaded
      <4> QED BY <4>1, <4>2
    <3>2. CASE i = 1
      <4>1. g[i] = r1 /\ g[i - 1] = r0
        BY <3>0, <3>2
      <4> HIDE DEF r0, g
      <4> QED BY <3>2, <4>1
    <3>3. CASE i = 2
      <4>1. g[i] = r2 /\ g[i - 1] = r1
        BY <3>0, <3>3
      <4> HIDE DEF r1, g
      <4> QED BY <3>3, <4>1
    <3>4. CASE i = 3
      <4>1. g[i] = r3 /\ g[i - 1] = r2
        BY <3>0, <3>4
      <4> HIDE DEF r2, g
      <4> QED BY <3>4, <4>1
    <3> QED BY <3>1, <3>2, <3>3, <3>4, Places
  <2>2. g = [i \in TimerIds |-> g[i]]
    OBVIOUS
  <2> HIDE DEF g
  <2> QED BY <2>1, <2>2
<1> HIDE DEF g
<1>2. p = CHOOSE f : f = Step(f)
  BY DEF Period, PeriodOn
<1> HIDE DEF Step
<1>3. p = Step(p)
  BY <1>1, <1>2
<1> QED BY <1>3 DEF Step

DistanceOn(bank, i, before) ==
    IF Cascaded(bank, i)
    THEN ((MaxCount - bank[i].counter) - 1) * Period(bank)[i - 1] + before
    ELSE (MaxCount - bank[i].counter) * Prescaler[bank[i].control.prescaler]
           - bank[i].prescalerCount

LEMMA DistanceIs ==
    ASSUME NEW bank, NEW d, d = Distance(bank)
    PROVE  d = [i \in TimerIds |-> DistanceOn(bank, i, d[i - 1])]
<1> DEFINE r0 == DistanceOn(bank, 0, 0)
           r1 == DistanceOn(bank, 1, r0)
           r2 == DistanceOn(bank, 2, r1)
           r3 == DistanceOn(bank, 3, r2)
           g == [i \in TimerIds |-> IF i = 0 THEN r0 ELSE IF i = 1 THEN r1
                                    ELSE IF i = 2 THEN r2 ELSE r3]
           Step(f) == [i \in TimerIds |-> DistanceOn(bank, i, f[i - 1])]
<1>1. g = Step(g)
  <2>1. ASSUME NEW i \in TimerIds
        PROVE  g[i] = DistanceOn(bank, i, g[i - 1])
    <3>0. i # 0 => i - 1 \in TimerIds
      BY Places
    <3>1. CASE i = 0
      <4>1. g[i] = r0
        BY <3>1
      <4>2. r0 = DistanceOn(bank, i, g[i - 1])
        BY <3>1 DEF DistanceOn, Cascaded
      <4> QED BY <4>1, <4>2
    <3>2. CASE i = 1
      <4>1. g[i] = r1 /\ g[i - 1] = r0
        BY <3>0, <3>2
      <4> HIDE DEF r0, g
      <4> QED BY <3>2, <4>1
    <3>3. CASE i = 2
      <4>1. g[i] = r2 /\ g[i - 1] = r1
        BY <3>0, <3>3
      <4> HIDE DEF r1, g
      <4> QED BY <3>3, <4>1
    <3>4. CASE i = 3
      <4>1. g[i] = r3 /\ g[i - 1] = r2
        BY <3>0, <3>4
      <4> HIDE DEF r2, g
      <4> QED BY <3>4, <4>1
    <3> QED BY <3>1, <3>2, <3>3, <3>4, Places
  <2>2. g = [i \in TimerIds |-> g[i]]
    OBVIOUS
  <2> HIDE DEF g
  <2> QED BY <2>1, <2>2
<1> HIDE DEF g
<1>2. d = CHOOSE f : f = Step(f)
  BY DEF Distance, DistanceOn
<1> HIDE DEF Step
<1>3. d = Step(d)
  BY <1>1, <1>2
<1> QED BY <1>3 DEF Step

LEMMA PeriodType ==
    ASSUME NEW bank, SoundBank(bank), NEW p, p = Period(bank)
    PROVE  \A i \in TimerIds : p[i] \in Nat /\ p[i] > 0
<1> DEFINE S == { i \in TimerIds : p[i] \in Nat /\ p[i] > 0 }
<1>1. ASSUME NEW i \in TimerIds, Cascaded(bank, i) => i - 1 \in S
      PROVE  i \in S
  <2> DEFINE span == MaxCount - bank[i].reloadValue
             before == IF Cascaded(bank, i) THEN p[i - 1]
                       ELSE Prescaler[bank[i].control.prescaler]
  <2>1. Sound(bank[i])
    BY DEF SoundBank
  <2>2. span \in Nat /\ span > 0
    BY <2>1, FieldTypes, TimersAssumption DEF Sound
  <2>3. before \in Nat /\ before > 0
    BY <1>1, <2>1, DivisorType DEF Sound
  <2>4. p[i] = span * before
    BY PeriodIs DEF PeriodOn
  <2> HIDE DEF span, before
  <2>5. span * before \in Nat /\ span * before > 0
    BY <2>2, <2>3
  <2> QED BY <2>4, <2>5
<1>2. 0 \in S
  <2>1. ~Cascaded(bank, 0)
    BY DEF Cascaded
  <2> HIDE DEF S
  <2> QED BY <1>1, <2>1, Places
<1> HIDE DEF S
<1>3. \A i \in TimerIds : i \in S
  BY <1>1, <1>2, EveryTimer
<1> QED BY <1>3 DEF S

LEMMA DistanceType ==
    ASSUME NEW bank, SoundBank(bank), NEW d, d = Distance(bank)
    PROVE  \A i \in TimerIds : d[i] \in Int
<1> DEFINE S == { i \in TimerIds : d[i] \in Int }
<1>1. ASSUME NEW i \in TimerIds, Cascaded(bank, i) => i - 1 \in S
      PROVE  i \in S
  <2> DEFINE left == MaxCount - bank[i].counter
             p == Period(bank)
             x == Prescaler[bank[i].control.prescaler]
             k == bank[i].prescalerCount
  <2>1. Sound(bank[i])
    BY DEF SoundBank
  <2>2. left \in Int /\ k \in Int
    BY <2>1, FieldTypes, TimersAssumption DEF Sound
  <2>3. d[i] = IF Cascaded(bank, i) THEN (left - 1) * p[i - 1] + d[i - 1]
               ELSE left * x - k
    BY DistanceIs DEF DistanceOn
  <2>4. CASE Cascaded(bank, i)
    <3>1. i - 1 \in TimerIds /\ d[i - 1] \in Int
      BY <1>1, <2>4
    <3>2. p[i - 1] \in Int
      BY <3>1, PeriodType
    <3> HIDE DEF left, p
    <3>3. (left - 1) * p[i - 1] \in Int
      BY <2>2, <3>2
    <3> QED BY <2>3, <2>4, <3>1, <3>3
  <2>5. CASE ~Cascaded(bank, i)
    <3>1. x \in Int
      BY <2>1, DivisorType DEF Sound
    <3> HIDE DEF left, x, k
    <3>2. left * x \in Int
      BY <2>2, <3>1
    <3> QED BY <2>2, <2>3, <2>5, <3>2
  <2> QED BY <2>4, <2>5
<1>2. 0 \in S
  <2>1. ~Cascaded(bank, 0)
    BY DEF Cascaded
  <2> HIDE DEF S
  <2> QED BY <1>1, <2>1, Places
<1> HIDE DEF S
<1>3. \A i \in TimerIds : i \in S
  BY <1>1, <1>2, EveryTimer
<1> QED BY <1>3 DEF S

(* A timer that has never counted overflows no sooner than one whose       *)
(* ticksLeft is its counter's: no batch is long enough for either.         *)
LEMMA OverflowedFromCounter ==
    ASSUME NEW t \in TimerFields, Consistent(t) \/ Untouched(t),
           NEW n, Batch(n)
    PROVE  CounterUpdate(t, n).overflow
             = Overflowed(MaxCount - t.counter, t.reloadValue, n)
<1>1. CounterUpdate(t, n).overflow = Overflowed(t.ticksLeft, t.reloadValue, n)
  BY CounterParts
<1>2. CASE Consistent(t)
  BY <1>1, <1>2 DEF Consistent
<1>3. CASE Untouched(t)
  <2>1. ~(t.ticksLeft <= n) /\ ~(MaxCount - t.counter <= n)
    BY <1>3, TimersAssumption DEF Untouched, Batch
  <2> QED BY <1>1, <2>1 DEF Overflowed
<1> QED BY <1>2, <1>3

\* What one timer's overflows should be.
Expected(bank, i, ticks) ==
    IF Driven(bank)[i] THEN Ideal(Distance(bank)[i], Period(bank)[i], ticks) ELSE 0

(* UpdateBank overflows every timer as often as its ideal counter.         *)
LEMMA BankOnTime ==
    ASSUME NEW bank, SoundBank(bank), NEW ticks \in 0 .. MaxTicks,
           NEW r, r = UpdateBank(bank, ticks)
    PROVE  \A i \in TimerIds : r[i].overflow = Expected(bank, i, ticks)
<1> DEFINE S == { i \in TimerIds : r[i].overflow = Expected(bank, i, ticks) }
           prev(i) == IF i = 0 THEN 0 ELSE r[i - 1].overflow
<1>1. ASSUME NEW i \in TimerIds, Cascaded(bank, i) => i - 1 \in S
      PROVE  i \in S
  <2> DEFINE t == bank[i]
             left == MaxCount - t.counter
             reload == t.reloadValue
             driven == Driven(bank)
             period == Period(bank)
             distance == Distance(bank)
  <2>1. r[i] = Turn(t, i, ticks, prev(i))
    BY BankTurns
  <2>2. Sound(t)
    BY DEF SoundBank
  <2>3. driven[i] = CountsOn(bank, i, driven[i - 1])
    <3> HIDE DEF driven
    <3> QED BY DrivenIs DEF driven
  <2>4. left \in 1 .. MaxCount /\ reload \in 0 .. MaxCount - 1
    BY <2>2, FieldTypes, TimersAssumption DEF Sound
  <2>5. CASE ~t.control.timerStart
    <3>1. r[i].overflow = 0
      BY <2>1, <2>5 DEF Turn
    <3>2. ~driven[i]
      BY <2>3, <2>5 DEF CountsOn
    <3> QED BY <3>1, <3>2 DEF Expected
  <2>6. CASE t.control.timerStart /\ ~Cascaded(bank, i)
    <3> DEFINE d == Prescaler[t.control.prescaler]
               k == t.prescalerCount
               n == (k + ticks) \div d
               v == Resting(t, (k + ticks) % d)
    <3>1. d \in Nat /\ d > 0 /\ k \in Nat /\ ticks \in Nat
      BY <2>2, DivisorType, FieldTypes, TimersAssumption DEF Sound
    <3>2. Batch(n) /\ (k + ticks) % d \in Nat
      BY <2>2, <3>1, DividedBatch
    <3>3. r[i] = CounterUpdate(v, n)
      <4>1. r[i] = PrescalerTimingUpdate(t, ticks)
        BY <2>1, <2>6 DEF Turn, Cascaded
      <4> QED BY <4>1, PrescaledParts
    <3>4. /\ v \in TimerFields
          /\ Consistent(v) \/ Untouched(v)
          /\ v.counter = t.counter
          /\ v.reloadValue = reload
      BY <2>2, <3>2, RestingSound, RestingFields DEF Sound
    <3>5. r[i].overflow = Overflowed(left, reload, n)
      <4> HIDE DEF v, n
      <4>1. CounterUpdate(v, n).overflow
              = Overflowed(MaxCount - v.counter, v.reloadValue, n)
        BY <3>2, <3>4, OverflowedFromCounter
      <4> QED BY <3>3, <3>4, <4>1
    <3>6. Overflowed(left, reload, n)
            = Ideal(left * d - k, (MaxCount - reload) * d, ticks)
      <4> HIDE DEF left, reload, d, k
      <4> QED BY <2>4, <3>1, DividedOnTime
    <3>7. /\ distance[i] = left * d - k
          /\ period[i] = (MaxCount - reload) * d
      BY <2>6, DistanceIs, PeriodIs DEF DistanceOn, PeriodOn
    <3>8. driven[i]
      BY <2>3, <2>6, Zenon DEF CountsOn
    <3> QED BY <3>5, <3>6, <3>7, <3>8 DEF Expected
  <2>7. CASE t.control.timerStart /\ Cascaded(bank, i)
    <3> DEFINE n == r[i - 1].overflow
               x == distance[i - 1]
               p == period[i - 1]
    <3>1. i - 1 \in TimerIds /\ i # 0 /\ n = Expected(bank, i - 1, ticks)
      BY <1>1, <2>7 DEF Cascaded
    <3>2. Batch(n)
      BY <3>1, BankKeeps DEF Kept
    <3>3. r[i] = CounterUpdate(t, n)
      BY <2>1, <2>7, <3>1 DEF Turn, Cascaded
    <3>4. r[i].overflow = Overflowed(left, reload, n)
      <4> HIDE DEF n
      <4> QED BY <2>2, <3>2, <3>3, OverflowedFromCounter DEF Sound
    <3>5. driven[i] <=> driven[i - 1]
      BY <2>3, <2>7, Zenon DEF CountsOn
    <3>6. CASE driven[i - 1]
      <4>1. n = Ideal(x, p, ticks)
        BY <3>1, <3>6 DEF Expected
      <4>2. x \in Int /\ p \in Nat /\ p > 0 /\ ticks \in Nat
        BY <3>1, DistanceType, PeriodType, TimersAssumption
      <4>3. Overflowed(left, reload, Ideal(x, p, ticks))
              = Ideal((left - 1) * p + x, (MaxCount - reload) * p, ticks)
        <5> HIDE DEF left, reload, x, p
        <5> QED BY <2>4, <4>2, CascadeOnTime
      <4>4. /\ distance[i] = (left - 1) * p + x
            /\ period[i] = (MaxCount - reload) * p
        BY <2>7, DistanceIs, PeriodIs DEF DistanceOn, PeriodOn
      <4>5. r[i].overflow = Ideal(distance[i], period[i], ticks)
        BY <3>4, <4>1, <4>3, <4>4
      <4> QED BY <3>5, <3>6, <4>5 DEF Expected
    <3>7. CASE ~driven[i - 1]
      <4>1. n = 0
        BY <3>1, <3>7 DEF Expected
      <4>2. Overflowed(left, reload, 0) = 0
        <5>1. ~(left <= 0)
          BY <2>4
        <5> QED BY <5>1 DEF Overflowed
      <4>3. r[i].overflow = 0
        BY <3>4, <4>1, <4>2
      <4> QED BY <3>5, <3>7, <4>3 DEF Expected
    <3> QED BY <3>6, <3>7
  <2> QED BY <2>5, <2>6, <2>7
<1>2. 0 \in S
  <2>1. ~Cascaded(bank, 0)
    BY DEF Cascaded
  <2> HIDE DEF S
  <2> QED BY <1>1, <2>1, Places
<1> HIDE DEF S, prev
<1>3. \A i \in TimerIds : i \in S
  BY <1>1, <1>2, EveryTimer
<1> QED BY <1>3 DEF S

(* However the guest stops, cascades, divides and reloads the timers,      *)
(* Timers::Update overflows each exactly as often as the ideal counter     *)
(* does, and requests its interrupt then and only then.                    *)
THEOREM TimersOnTime == TimersSpec => OverflowsOnTime
<1>1. TimersInv => OverflowsExactly
  <2> SUFFICES ASSUME TimersInv, NEW ticks \in 0 .. MaxTicks, Update(ticks),
                      NEW i \in TimerIds
               PROVE  LET distance == Distance(timers)[i]
                          expected == IF Driven(timers)[i] /\ distance <= ticks
                                      THEN 1 + (ticks - distance) \div Period(timers)[i]
                                      ELSE 0
                      IN  /\ overflows'[i] = expected
                          /\ i \in requests' <=> expected > 0 /\ timers[i].control.irqEnable
    BY DEF OverflowsExactly
  <2> DEFINE r == UpdateBank(timers, ticks)
             distance == Distance(timers)[i]
             expected == IF Driven(timers)[i] /\ distance <= ticks
                         THEN 1 + (ticks - distance) \div Period(timers)[i]
                         ELSE 0
  <2>1. r[i].overflow = Expected(timers, i, ticks)
    <3> HIDE DEF r
    <3> QED BY BankOnTime DEF TimersInv, r
  <2>2. Expected(timers, i, ticks) = expected
    BY DEF Expected, Ideal
  <2>3. /\ overflows'[i] = r[i].overflow
        /\ i \in requests' <=> r[i].overflow > 0 /\ timers[i].control.irqEnable
    BY DEF Update
  <2> HIDE DEF r, expected
  <2>4. /\ overflows'[i] = expected
        /\ i \in requests' <=> expected > 0 /\ timers[i].control.irqEnable
    BY <2>1, <2>2, <2>3
  <2> QED BY <2>4 DEF expected
<1>2. TimersInv /\ [NextTimers]_timerVars => [OverflowsExactly]_timerVars
  BY <1>1
<1> QED BY <1>2, TimersSound, PTL DEF TimersSpec, OverflowsOnTime
=============================================================================
