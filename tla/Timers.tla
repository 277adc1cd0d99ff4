------------------------------- MODULE Timers -------------------------------
(***************************************************************************)
(* The four timers of timers/timer.cpp and timers/timers.cpp: prescaled or *)
(* cascaded counters that advance by the whole batch of ticks one pass of  *)
(* the main loop took, and raise interrupts and APU samples on overflow.   *)
(***************************************************************************)
EXTENDS Integers

CONSTANTS
    LastTimer,       \* 3: the timers are 0 .. LastTimer
    MaxCount,        \* MAX_COUNT, one more than a counter can hold
    Prescaler,       \* PRESCALER_SELECTION, from its index to the divisor
    InitTicksLeft,   \* the value ticksLeft starts with
    MaxTicks,        \* the most ticks one pass of the main loop takes
    Controls,        \* the values stored into TMxCNT_H
    Reloads          \* the values stored into TMxCNT_L

TimerIds == 0 .. LastTimer

ControlFields == [prescaler : DOMAIN Prescaler, countUp : BOOLEAN,
                  irqEnable : BOOLEAN, timerStart : BOOLEAN]

\* ticksLeft is 0x1000 beside a counter of 0: right as long as the batches
\* are shorter with what a prescaler may have left over.
ASSUME TimersAssumption ==
    /\ LastTimer \in 0 .. 3
    /\ MaxCount \in Nat \ {0}
    /\ 0 \in DOMAIN Prescaler
    /\ \A p \in DOMAIN Prescaler : Prescaler[p] \in Nat \ {0}
    /\ InitTicksLeft \in 1 .. MaxCount
    /\ MaxTicks \in Nat
    /\ InitTicksLeft < MaxCount =>
          \A p \in DOMAIN Prescaler : Prescaler[p] + MaxTicks <= InitTicksLeft
    /\ Controls \subseteq ControlFields
    /\ Reloads \subseteq 0 .. MaxCount - 1

VARIABLES
    timers,     \* the bank: from TimerIds to the fields of Timer
    overflows,  \* history: each timer's overflows in the last step
    requests,   \* history: the timers whose interrupt that step requested
    samples     \* history: the timers it called apuCallback for

timerVars == <<timers, overflows, requests, samples>>

TimerFields == [control : ControlFields,
                counter : 0 .. MaxCount - 1, reloadValue : 0 .. MaxCount - 1,
                prescalerCount : Nat, ticksLeft : 1 .. MaxCount]

\* The fields of Timer when the emulator starts.
PowerOnTimer ==
    [control |-> [prescaler |-> 0, countUp |-> FALSE,
                  irqEnable |-> FALSE, timerStart |-> FALSE],
     counter |-> 0, reloadValue |-> 0, prescalerCount |-> 0,
     ticksLeft |-> InitTicksLeft]
-----------------------------------------------------------------------------
(* Mutants: plausible mistakes in the operators below.                     *)
CountDroppingRest(t, ticks) ==
    IF t.ticksLeft <= ticks
    THEN [timer |-> [t EXCEPT !.counter = t.reloadValue,
                              !.ticksLeft = MaxCount - t.reloadValue],
          overflow |-> 1]
    ELSE [timer |-> [t EXCEPT !.counter = @ + ticks,
                              !.ticksLeft = MaxCount - (t.counter + ticks)],
          overflow |-> 0]
CountKeepingTicksLeft(t, ticks) ==
    LET past == ticks - t.ticksLeft
    IN  IF past >= 0
        THEN [timer |-> [t EXCEPT !.counter = t.reloadValue],
              overflow |-> 1]
        ELSE [timer |-> [t EXCEPT !.counter = @ + ticks], overflow |-> 0]
-----------------------------------------------------------------------------
(* Timer::CounterUpdate: the timer after the ticks, and its overflows.     *)
CounterUpdate(t, ticks) ==
    LET tickRange == MaxCount - t.reloadValue
        over      == t.ticksLeft <= ticks
        past      == ticks - t.ticksLeft
        count     == IF over THEN t.reloadValue + (past % tickRange)
                             ELSE t.counter + ticks
    IN  [timer    |-> [t EXCEPT !.counter = count,
                                !.ticksLeft = MaxCount - count],
         overflow |-> IF over THEN 1 + past \div tickRange ELSE 0]

\* Timer::PrescalerTimingUpdate
PrescalerTimingUpdate(t, ticks) ==
    LET divisor == Prescaler[t.control.prescaler]
        total   == t.prescalerCount + ticks
    IN  CounterUpdate([t EXCEPT !.prescalerCount = total % divisor],
                      total \div divisor)

Cascaded(bank, i) == bank[i].control.countUp /\ i # 0

\* Timer::Update
UpdateTimer(bank, i, ticks, prevOverflow) ==
    LET t == bank[i]
    IN  IF ~t.control.timerStart THEN [timer |-> t, overflow |-> 0]
        ELSE IF Cascaded(bank, i) THEN CounterUpdate(t, prevOverflow)
        ELSE PrescalerTimingUpdate(t, ticks)

\* The loop of Timers::Update: every timer sees its predecessor's overflows.
UpdateBank(bank, ticks) ==
    LET result[i \in TimerIds] ==
            UpdateTimer(bank, i, ticks, IF i = 0 THEN 0 ELSE result[i - 1].overflow)
    IN  result

\* Timers::TimerCntHUpdate
TimerCntHUpdate(bank, id, control) ==
    LET starts == control.timerStart /\ ~bank[id].control.timerStart
    IN  [bank EXCEPT ![id].control = control,
                     ![id].prescalerCount = IF starts THEN 0 ELSE @]

\* Timers::SetReloadValue
SetReloadValue(bank, id, value) == [bank EXCEPT ![id].reloadValue = value]
-----------------------------------------------------------------------------
InitTimers == /\ timers = [i \in TimerIds |-> PowerOnTimer]
              /\ overflows = [i \in TimerIds |-> 0]
              /\ requests = {}
              /\ samples = {}

Update(ticks) ==
    LET result == UpdateBank(timers, ticks)
        over   == { i \in TimerIds : result[i].overflow > 0 }
    IN  /\ timers' = [i \in TimerIds |-> result[i].timer]
        /\ overflows' = [i \in TimerIds |-> result[i].overflow]
        /\ requests' = { i \in over : timers[i].control.irqEnable }
        /\ samples' = over \cap {0, 1}

NoEvents == /\ overflows' = [i \in TimerIds |-> 0]
            /\ requests' = {}
            /\ samples' = {}

WriteCntH(id, control) == /\ timers' = TimerCntHUpdate(timers, id, control)
                          /\ NoEvents

WriteCntL(id, value) == /\ timers' = SetReloadValue(timers, id, value)
                        /\ NoEvents

NextTimers == \/ \E ticks \in 0 .. MaxTicks : Update(ticks)
              \/ \E id \in TimerIds, control \in Controls : WriteCntH(id, control)
              \/ \E id \in TimerIds, value \in Reloads : WriteCntL(id, value)

TimersSpec == InitTimers /\ [][NextTimers]_timerVars
-----------------------------------------------------------------------------
(* The counters stay in their 16 bits (no sum of CounterUpdate wraps), and *)
(* ticksLeft is never 0: an idle timer cannot overflow on no ticks.        *)
TimersTypeOK == /\ timers \in [TimerIds -> TimerFields]
                /\ overflows \in [TimerIds -> Nat]
                /\ requests \subseteq TimerIds
                /\ samples \subseteq {0, 1}

(* Advancing by batches loses nothing: in every reachable state, giving    *)
(* the whole bank a batch in two parts leaves the same counters as giving  *)
(* it at once, cascades and prescalers included, and the overflows add up. *)
BatchIndependent ==
    \A a, b \in 0 .. MaxTicks : a + b <= MaxTicks =>
        LET first  == UpdateBank(timers, a)
            second == UpdateBank([i \in TimerIds |-> first[i].timer], b)
            once   == UpdateBank(timers, a + b)
        IN  \A i \in TimerIds :
                /\ second[i].timer = once[i].timer
                /\ first[i].overflow + second[i].overflow = once[i].overflow

(* The reference: ideal counters.  Period and Distance are a timer's ticks *)
(* between two overflows and to its next one, in ticks of the clock.       *)
Driven(bank) ==
    LET d[i \in TimerIds] == /\ bank[i].control.timerStart
                             /\ Cascaded(bank, i) => d[i - 1]
    IN  d

Period(bank) ==
    LET p[i \in TimerIds] ==
            (MaxCount - bank[i].reloadValue)
              * (IF Cascaded(bank, i) THEN p[i - 1]
                                      ELSE Prescaler[bank[i].control.prescaler])
    IN  p

Distance(bank) ==
    LET left(i) == MaxCount - bank[i].counter
        d[i \in TimerIds] ==
            IF Cascaded(bank, i)
            THEN (left(i) - 1) * Period(bank)[i - 1] + d[i - 1]
            ELSE left(i) * Prescaler[bank[i].control.prescaler]
                   - bank[i].prescalerCount
    IN  d

(* Every timer of a cascade overflows exactly when the ideal counter does: *)
(* as often as whole periods fit behind its next overflow, none if it or a *)
(* timer it counts is stopped; it requests an interrupt then and only then.*)
OverflowsExactly ==
    \A ticks \in 0 .. MaxTicks : Update(ticks) =>
       \A i \in TimerIds :
          LET distance == Distance(timers)[i]
              expected == IF Driven(timers)[i] /\ distance <= ticks
                          THEN 1 + (ticks - distance) \div Period(timers)[i]
                          ELSE 0
          IN  /\ overflows'[i] = expected
              /\ i \in requests' <=> expected > 0 /\ timers[i].control.irqEnable

OverflowsOnTime == [][OverflowsExactly]_timerVars
=============================================================================
