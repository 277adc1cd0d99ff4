----------------------------- MODULE DMAProofs -----------------------------
(***************************************************************************)
(* Proofs about DMA.tla, for every set of channels, every width of         *)
(* addresses and counts and everything the program may store.              *)
(***************************************************************************)
EXTENDS DMA, TLAPS

Periods == {"none", "HBLANK", "VBLANK"}

\* Zero in its lower half.
LowZero(n) == n % HalfRange = 0

(* What BlockExact says of one channel, enabled or not, with the steps that *)
(* make it so: they are those of the control word in effect.                *)
Placed(h) ==
    /\ h.srcStep = TransferStep(h.cnt.srcCtl, h.cnt.size)
    /\ h.destStep = TransferStep(h.cnt.destCtl, h.cnt.size)
    /\ h.wordCount <= h.length
    /\ LowZero(h.source - h.from
                 - (h.length - h.wordCount) * Signed(h.cnt.srcCtl, h.cnt.size))
    /\ LowZero(h.dest - h.to
                 - (h.length - h.wordCount) * Signed(h.cnt.destCtl, h.cnt.size))

AllPlaced(d) == \A c \in Channels : Placed(d.channels[c])

(* The invariant of the controller's state, taken apart from the variables *)
(* so that it can be carried through the stores within one step.           *)
Good(d, current) == /\ d \in DMAFields
                    /\ AllPlaced(d)
                    /\ Covered(d)
                    /\ Armed(d)
                    /\ Mirrored(d)
                    /\ Paused(d, current)

\* What stores may do to a good state: it stays good, immediate channels
\* stay running, and no word count reaches zero.
Follows(d, e, current) ==
    /\ Good(e, current)
    /\ Running(d) => Running(e)
    /\ \A k \in Channels : d.channels[k].wordCount > 0
                             => e.channels[k].wordCount > 0

LEMMA Widths == /\ AddressRange \in Nat /\ HalfRange \in Nat
                /\ AddressRange > 0 /\ HalfRange > 4
                /\ Channels \subseteq 0 .. 3
BY DMAAssumption

(* A field taken modulo a range no wider than an address is an address.    *)
LEMMA Masked ==
    ASSUME NEW v \in 0 .. AddressRange - 1, NEW range \in {NarrowRange, WideRange}
    PROVE  v % range \in 0 .. AddressRange - 1
<1>1. range \in 1 .. AddressRange
  BY DMAAssumption
<1>2. v % range \in 0 .. range - 1
  BY <1>1, Widths
<1> QED BY <1>1, <1>2, Widths

LEMMA StepInRange ==
    ASSUME NEW ctl \in 0 .. 3, NEW size \in {2, 4}
    PROVE  TransferStep(ctl, size) \in 0 .. HalfRange
<1>1. ctl \in {0, 3} \/ ctl = 1 \/ ctl = 2
  OBVIOUS
<1> QED BY <1>1, Widths DEF TransferStep

(* Arithmetic modulo HalfRange, for the places of a block's addresses.     *)
LEMMA Divided ==
    ASSUME NEW n \in Int, NEW d \in Nat, d > 0
    PROVE  /\ n \div d \in Int
           /\ n % d \in 0 .. d - 1
           /\ n = (n \div d) * d + (n % d)
OBVIOUS

LEMMA LowZeroIff ==
    ASSUME NEW n \in Int
    PROVE  LowZero(n) <=> \E k \in Int : n = k * HalfRange
<1>1. HalfRange \in Nat /\ HalfRange > 0
  BY Widths
<1> DEFINE q == n \div HalfRange
           r == n % HalfRange
<1>2. n = q * HalfRange + r /\ q \in Int /\ r \in 0 .. HalfRange - 1
  BY <1>1, Divided
<1> HIDE DEF q, r
<1>3. ASSUME NEW k \in Int, n = k * HalfRange PROVE r = 0
  <2>1. r = (k - q) * HalfRange
    BY <1>1, <1>2, <1>3
  <2>2. CASE k - q >= 1
    <3>1. (k - q) * HalfRange >= HalfRange
      BY <1>1, <1>2, <2>2
    <3> QED BY <1>1, <1>2, <2>1, <3>1
  <2>3. CASE k - q <= -1
    <3>1. (k - q) * HalfRange < 0
      BY <1>1, <1>2, <2>3
    <3> QED BY <1>1, <1>2, <2>1, <3>1
  <2>4. CASE k - q = 0
    BY <1>1, <1>2, <2>1, <2>4
  <2> QED BY <1>2, <2>2, <2>3, <2>4
<1>4. r = 0 => n = q * HalfRange
  BY <1>1, <1>2
<1> QED BY <1>2, <1>3, <1>4 DEF LowZero, r

LEMMA LowZeroSum ==
    ASSUME NEW m \in Int, NEW n \in Int, LowZero(m), LowZero(n)
    PROVE  LowZero(m + n)
<1>1. PICK i \in Int : m = i * HalfRange
  BY LowZeroIff
<1>2. PICK j \in Int : n = j * HalfRange
  BY LowZeroIff
<1>3. m + n = (i + j) * HalfRange /\ i + j \in Int /\ m + n \in Int
  BY <1>1, <1>2, Widths
<1> QED BY <1>3, LowZeroIff

\* An address that wraps around keeps its lower half.
LEMMA Wrapped ==
    ASSUME NEW n \in Int
    PROVE  n % AddressRange \in Int /\ LowZero((n % AddressRange) - n)
<1>1. PICK j \in Int : AddressRange = j * HalfRange
  BY LowZeroIff, DMAAssumption, Widths DEF LowZero
<1> DEFINE q == n \div AddressRange
           r == n % AddressRange
<1>2. n = q * AddressRange + r /\ q \in Int /\ r \in Int
  BY Widths, Divided
<1> HIDE DEF q, r
<1>3. r - n = (-(q * j)) * HalfRange /\ -(q * j) \in Int /\ r - n \in Int
  <2>1. q * AddressRange = (q * j) * HalfRange
    BY <1>1, <1>2, Widths
  <2>2. q * j \in Int
    BY <1>2
  <2>3. r - n = -(q * AddressRange) /\ q * AddressRange \in Int
    BY <1>2, Widths
  <2>4. (-(q * j)) * HalfRange = -((q * j) * HalfRange)
    BY <2>2, Widths
  <2> QED BY <1>2, <2>1, <2>2, <2>3, <2>4
<1> QED BY <1>2, <1>3, LowZeroIff DEF r

\* Counting down by 2^16 less the size is counting down by the size.
LEMMA StepIsSigned ==
    ASSUME NEW ctl \in 0 .. 3, NEW size \in {2, 4}
    PROVE  /\ Signed(ctl, size) \in {-4, -2, 0, 2, 4}
           /\ TransferStep(ctl, size) \in Int
           /\ LowZero(TransferStep(ctl, size) - Signed(ctl, size))
<1>1. ctl \in {0, 3} \/ ctl = 1 \/ ctl = 2
  OBVIOUS
<1>2. LowZero(0) /\ LowZero(HalfRange)
  <2>1. 0 = 0 * HalfRange /\ HalfRange = 1 * HalfRange
    BY Widths
  <2> QED BY <2>1, LowZeroIff, Widths
<1>3. \/ TransferStep(ctl, size) = size /\ Signed(ctl, size) = size
      \/ TransferStep(ctl, size) = HalfRange - size /\ Signed(ctl, size) = -size
      \/ TransferStep(ctl, size) = 0 /\ Signed(ctl, size) = 0
  BY <1>1 DEF TransferStep, Signed
<1>4. \/ TransferStep(ctl, size) - Signed(ctl, size) = 0
      \/ TransferStep(ctl, size) - Signed(ctl, size) = HalfRange
  BY <1>3, Widths
<1> QED BY <1>2, <1>3, <1>4, Widths

LEMMA OneUnitOn ==
    ASSUME NEW address \in Int, NEW base \in Int, NEW moved \in Int,
           NEW ctl \in 0 .. 3, NEW size \in {2, 4},
           LowZero(address - base - moved * Signed(ctl, size))
    PROVE  LowZero(((address + TransferStep(ctl, size)) % AddressRange) - base
                     - (moved + 1) * Signed(ctl, size))
<1> DEFINE t == TransferStep(ctl, size)
           g == Signed(ctl, size)
           next == (address + t) % AddressRange
<1>1. t \in Int /\ g \in Int /\ LowZero(t - g)
  BY StepIsSigned
<1>2. next \in Int /\ LowZero(next - (address + t))
  BY <1>1, Wrapped
<1>3. LowZero(address - base - moved * g)
  OBVIOUS
<1> HIDE DEF t, g, next
<1>4. moved * g \in Int /\ (moved + 1) * g = moved * g + g
  BY <1>1
<1>5. LowZero((t - g) + (address - base - moved * g))
  BY <1>1, <1>3, <1>4, LowZeroSum
<1>6. LowZero((next - (address + t)) + ((t - g) + (address - base - moved * g)))
  BY <1>1, <1>2, <1>4, <1>5, LowZeroSum
<1>7. (next - (address + t)) + ((t - g) + (address - base - moved * g))
        = next - base - (moved + 1) * g
  BY <1>1, <1>2, <1>4
<1>8. LowZero(next - base - (moved + 1) * g)
  BY <1>6, <1>7
<1> QED BY <1>8 DEF next, t, g

\* A channel is where it should be when its block begins.
LEMMA PlacedAtStart ==
    ASSUME NEW h \in ChannelFields,
           h.srcStep = TransferStep(h.cnt.srcCtl, h.cnt.size),
           h.destStep = TransferStep(h.cnt.destCtl, h.cnt.size),
           h.source = h.from, h.dest = h.to, h.wordCount = h.length
    PROVE  Placed(h)
<1>1. /\ h.source \in Int /\ h.dest \in Int /\ h.wordCount \in Nat
      /\ h.cnt.srcCtl \in 0 .. 3 /\ h.cnt.destCtl \in 0 .. 3
      /\ h.cnt.size \in {2, 4}
  BY Widths DEF ChannelFields, Controls
<1>2. LowZero(0)
  <2>1. 0 = 0 * HalfRange
    BY Widths
  <2> QED BY <2>1, LowZeroIff
<1>3. ASSUME NEW a \in Int, NEW n \in Nat, NEW g \in Int
      PROVE  a - a - (n - n) * g = 0
  OBVIOUS
<1>4. /\ Signed(h.cnt.srcCtl, h.cnt.size) \in Int
      /\ Signed(h.cnt.destCtl, h.cnt.size) \in Int
  BY <1>1, StepIsSigned
<1> QED BY <1>1, <1>2, <1>3, <1>4 DEF Placed

LEMMA Reloads ==
    ASSUME NEW h \in ChannelFields, NEW r \in RegisterFields, NEW c \in Channels
    PROVE  LET g == ReloadWordCount(ReloadDAD(ReloadSAD(h, r, c), r, c), r, c) IN
           /\ g \in ChannelFields
           /\ g.active = h.active /\ g.cnt = h.cnt /\ g.strayed = h.strayed
           /\ g.wordCount > 0
           /\ g.srcStep = h.srcStep /\ g.destStep = h.destStep
           /\ g.source = g.from /\ g.dest = g.to /\ g.wordCount = g.length
<1> DEFINE s == r.sad % (IF c = 0 THEN NarrowRange ELSE WideRange)
           t == r.dad % (IF c = 3 THEN WideRange ELSE NarrowRange)
           limit == IF c = 3 THEN WideCount ELSE NarrowCount
           n == IF r.count % limit = 0 THEN limit ELSE r.count % limit
<1>1. s \in 0 .. AddressRange - 1 /\ t \in 0 .. AddressRange - 1
  BY Masked DEF RegisterFields
<1>2. n \in Nat /\ n > 0
  <2>1. limit \in Nat /\ limit > 0 /\ r.count \in Nat
    BY DMAAssumption DEF RegisterFields
  <2>2. r.count % limit \in 0 .. limit - 1
    BY <2>1
  <2> QED BY <2>1, <2>2
<1>3. ReloadWordCount(ReloadDAD(ReloadSAD(h, r, c), r, c), r, c)
        = [h EXCEPT !.source = s, !.from = s, !.dest = t, !.to = t,
                    !.wordCount = n, !.length = n]
  BY DEF ReloadSAD, ReloadDAD, ReloadWordCount, ChannelFields
<1> HIDE DEF s, t, n, limit
<1> QED BY <1>1, <1>2, <1>3 DEF ChannelFields

LEMMA Rebases ==
    ASSUME NEW h \in ChannelFields
    PROVE  LET g == Rebase(h) IN
           /\ g \in ChannelFields
           /\ g.active = h.active /\ g.cnt = h.cnt /\ g.strayed = h.strayed
           /\ g.wordCount = h.wordCount
           /\ g.dest = h.dest
           /\ g.srcStep = h.srcStep /\ g.destStep = h.destStep
           /\ g.source = g.from /\ g.dest = g.to /\ g.wordCount = g.length
BY DEF Rebase, ChannelFields

LEMMA Updates ==
    ASSUME NEW h \in ChannelFields, NEW r \in RegisterFields, NEW c \in Channels,
           NEW control \in Controls
    PROVE  LET g == UpdateDetails(h, r, c, control) IN
           /\ g \in ChannelFields
           /\ g.cnt = control
           /\ g.active = (h.active /\ control.enable)
           /\ g.strayed = Strayed(h, control)
           /\ h.wordCount > 0 => g.wordCount > 0
           /\ Placed(g)
<1> DEFINE g == [h EXCEPT !.cnt = control, !.active = @ /\ control.enable,
                          !.strayed = Strayed(h, control),
                          !.srcStep = TransferStep(control.srcCtl, control.size),
                          !.destStep = TransferStep(control.destCtl, control.size)]
<1>1. /\ TransferStep(control.srcCtl, control.size) \in 0 .. HalfRange
      /\ TransferStep(control.destCtl, control.size) \in 0 .. HalfRange
  BY StepInRange DEF Controls
<1>2. /\ g \in ChannelFields
      /\ g.cnt = control
      /\ g.active = (h.active /\ control.enable)
      /\ g.strayed = Strayed(h, control)
      /\ g.wordCount = h.wordCount
      /\ g.srcStep = TransferStep(control.srcCtl, control.size)
      /\ g.destStep = TransferStep(control.destCtl, control.size)
  BY <1>1 DEF ChannelFields, Controls, Strayed
<1>3. UpdateDetails(h, r, c, control)
        = IF control.enable /\ ~h.cnt.enable
          THEN ReloadWordCount(ReloadDAD(ReloadSAD(g, r, c), r, c), r, c)
          ELSE Rebase(g)
  BY DEF UpdateDetails
<1> HIDE DEF g
<1> QED BY <1>2, <1>3, Reloads, Rebases, PlacedAtStart
-----------------------------------------------------------------------------
(* A change of one channel's fields.                                       *)
LEMMA ChannelChange ==
    ASSUME NEW d \in DMAFields, NEW c \in Channels, NEW g \in ChannelFields
    PROVE  LET e == [d EXCEPT !.channels[c] = g] IN
           /\ e \in DMAFields
           /\ e.channels[c] = g
           /\ \A k \in Channels \ {c} : e.channels[k] = d.channels[k]
           /\ e.registers = d.registers
           /\ e.controllerActive = d.controllerActive
BY DEF DMAFields

LEMMA RegisterChange ==
    ASSUME NEW d, NEW current, Good(d, current), NEW c \in Channels,
           NEW r \in RegisterFields, r.control = d.registers[c].control
    PROVE  Follows(d, [d EXCEPT !.registers[c] = r], current)
<1> DEFINE e == [d EXCEPT !.registers[c] = r]
<1>1. d \in DMAFields
  BY DEF Good
<1>2. /\ e \in DMAFields
      /\ e.channels = d.channels
      /\ e.controllerActive = d.controllerActive
      /\ \A k \in Channels : e.registers[k].control = d.registers[k].control
  BY <1>1 DEF DMAFields
<1> HIDE DEF e
<1>3. Follows(d, e, current)
  BY <1>2 DEF Good, AllPlaced, Follows, Covered, Active, Armed, Mirrored, Paused,
              Running
<1> QED BY <1>3 DEF e

LEMMA ControlStored ==
    ASSUME NEW d, NEW current, Good(d, current), NEW c \in Channels,
           NEW control \in Controls
    PROVE  Follows(d, StoreControl(d, c, control), current)
<1> DEFINE h == UpdateDetails(d.channels[c], d.registers[c], c, control)
           start == control.enable /\ control.timing = "IMMEDIATE"
           g == [h EXCEPT !.active = @ \/ start]
           e == StoreControl(d, c, control)
<1>1. /\ d \in DMAFields
      /\ d.channels[c] \in ChannelFields
      /\ d.registers[c] \in RegisterFields
  BY DEF Good, DMAFields
<1>2. /\ h \in ChannelFields
      /\ h.cnt = control
      /\ h.active = (d.channels[c].active /\ control.enable)
      /\ h.strayed = Strayed(d.channels[c], control)
      /\ d.channels[c].wordCount > 0 => h.wordCount > 0
      /\ Placed(h)
  BY <1>1, Updates
<1>3. start \in BOOLEAN /\ control.enable \in BOOLEAN
  BY DEF Controls
<1>4. e = [d EXCEPT !.channels[c] = g, !.registers[c].control = control,
                    !.controllerActive = @ \/ start]
  BY DEF StoreControl
<1> HIDE DEF h, e, start
<1>5. /\ g \in ChannelFields
      /\ g.cnt = control
      /\ g.active = (h.active \/ start)
      /\ g.strayed = h.strayed
      /\ g.wordCount = h.wordCount
      /\ Placed(g)
  BY <1>2, <1>3 DEF ChannelFields, Placed
<1> HIDE DEF g
<1>6. [d.registers[c] EXCEPT !.control = control] \in RegisterFields
  BY <1>1 DEF RegisterFields
<1>7. /\ e \in DMAFields
      /\ e.channels[c] = g
      /\ e.registers[c].control = control
      /\ e.controllerActive = (d.controllerActive \/ start)
      /\ \A k \in Channels \ {c} : /\ e.channels[k] = d.channels[k]
                                   /\ e.registers[k] = d.registers[k]
  BY <1>1, <1>3, <1>4, <1>5, <1>6 DEF DMAFields, RegisterFields
<1>8. g.active => control.enable
  BY <1>2, <1>5 DEF start
<1>9. Covered(e)
  <2> SUFFICES ASSUME NEW k \in Channels, e.channels[k].active
               PROVE  e.controllerActive
    BY DEF Covered, Active
  <2>1. d.channels[k].active \/ start
    BY <1>2, <1>5, <1>7
  <2> QED BY <2>1, <1>7 DEF Good, Covered, Active
<1>10. Armed(e)
  BY <1>5, <1>7, <1>8 DEF Good, Armed
<1>11. Mirrored(e)
  BY <1>5, <1>7 DEF Good, Mirrored
<1>12. Paused(e, current)
  <2> SUFFICES ASSUME NEW k \in Channels, e.channels[k].active, ~e.channels[k].strayed,
                      e.channels[k].cnt.timing \in {"HBLANK", "VBLANK"}
               PROVE  e.channels[k].cnt.timing = current
    BY DEF Paused
  <2>1. CASE k # c
    BY <1>7, <2>1 DEF Good, Paused
  <2>2. CASE k = c
    <3>1. control.timing \in {"HBLANK", "VBLANK"} /\ g.active /\ ~g.strayed
      BY <1>5, <1>7, <2>2
    <3>2. ~start
      BY <3>1 DEF start
    <3>3. d.channels[c].active /\ control.enable /\ ~Strayed(d.channels[c], control)
      BY <1>2, <1>5, <3>1, <3>2
    <3>4. /\ ~d.channels[c].strayed
          /\ control.timing = d.channels[c].cnt.timing
      BY <3>3 DEF Strayed
    <3> QED BY <1>5, <1>7, <2>2, <3>1, <3>3, <3>4 DEF Good, Paused
  <2> QED BY <2>1, <2>2
<1>13. Running(d) => Running(e)
  BY <1>5, <1>7 DEF Running, start
<1>14. \A k \in Channels : d.channels[k].wordCount > 0 => e.channels[k].wordCount > 0
  BY <1>2, <1>5, <1>7
<1>15. AllPlaced(e)
  BY <1>5, <1>7 DEF Good, AllPlaced
<1>16. Follows(d, e, current)
  BY <1>7, <1>9, <1>10, <1>11, <1>12, <1>13, <1>14, <1>15 DEF Follows, Good
<1> QED BY <1>16 DEF e

LEMMA FollowsTrans ==
    ASSUME NEW d, NEW e, NEW f, NEW current,
           Follows(d, e, current), Follows(e, f, current)
    PROVE  Follows(d, f, current)
BY DEF Follows

LEMMA Stored ==
    ASSUME NEW d, NEW current, Good(d, current), NEW c \in Channels
    PROVE  /\ \A e \in SADStores(d, c) : Follows(d, e, current)
           /\ \A e \in DADStores(d, c) : Follows(d, e, current)
           /\ \A e \in CountStores(d, c) : Follows(d, e, current)
           /\ \A e \in ControlStores(d, c) : Follows(d, e, current)
<1>1. d \in DMAFields /\ d.registers[c] \in RegisterFields
  BY DEF Good, DMAFields
<1>2. ASSUME NEW v \in GuestSources
      PROVE  Follows(d, StoreSAD(d, c, v), current)
  <2> DEFINE r == [d.registers[c] EXCEPT !.sad = v]
  <2>1. r \in RegisterFields /\ r.control = d.registers[c].control
    BY <1>1, DMAAssumption DEF RegisterFields
  <2>2. StoreSAD(d, c, v) = [d EXCEPT !.registers[c] = r]
    BY DEF StoreSAD
  <2> HIDE DEF r
  <2> QED BY <2>1, <2>2, RegisterChange
<1>3. ASSUME NEW v \in GuestDests
      PROVE  Follows(d, StoreDAD(d, c, v), current)
  <2> DEFINE r == [d.registers[c] EXCEPT !.dad = v]
  <2>1. r \in RegisterFields /\ r.control = d.registers[c].control
    BY <1>1, DMAAssumption DEF RegisterFields
  <2>2. StoreDAD(d, c, v) = [d EXCEPT !.registers[c] = r]
    BY DEF StoreDAD
  <2> HIDE DEF r
  <2> QED BY <2>1, <2>2, RegisterChange
<1>4. ASSUME NEW n \in GuestCounts
      PROVE  Follows(d, StoreCount(d, c, n), current)
  <2> DEFINE r == [d.registers[c] EXCEPT !.count = n]
  <2>1. r \in RegisterFields /\ r.control = d.registers[c].control
    BY <1>1, DMAAssumption DEF RegisterFields
  <2>2. StoreCount(d, c, n) = [d EXCEPT !.registers[c] = r]
    BY DEF StoreCount
  <2> HIDE DEF r
  <2> QED BY <2>1, <2>2, RegisterChange
<1>5. \A k \in GuestControls : Follows(d, StoreControl(d, c, k), current)
  BY ControlStored, DMAAssumption
<1> QED BY <1>2, <1>3, <1>4, <1>5 DEF SADStores, DADStores, CountStores, ControlStores

(* Wherever a unit lands.                                                  *)
LEMMA Written ==
    ASSUME NEW d, NEW current, Good(d, current), NEW address \in Int,
           NEW size \in {2, 4}
    PROVE  \A e \in WriteTo(d, address, size) : Follows(d, e, current)
<1>1. CASE ~OnRegisters(address)
  BY <1>1 DEF WriteTo, Follows
<1>2. CASE OnRegisters(address)
  <2> DEFINE c == CHOOSE k \in Channels : address \in Registers(k)
             o == Offset(address, c)
  <2>1. c \in Channels /\ address \in Registers(c)
    BY <1>2 DEF OnRegisters
  <2>2. o \in 0 .. 11
    <3>1. c \in 0 .. 3 /\ DMA0SAD \in Nat
      BY <2>1, DMAAssumption
    <3>2. address \in DMA0SAD + 12 * c .. DMA0SAD + 12 * c + 11
      BY <2>1 DEF Registers
    <3>3. o = address - (DMA0SAD + 12 * c)
      BY DEF Offset
    <3> HIDE DEF o, c
    <3> QED BY <3>1, <3>2, <3>3
  <2>3. WriteTo(d, address, size) =
          CASE o < 4            -> SADStores(d, c)
            [] o \in 4 .. 7     -> DADStores(d, c)
            [] o \in 8 .. 9 /\ size = 2 -> CountStores(d, c)
            [] o \in 8 .. 9 /\ size = 4 ->
                 UNION {ControlStores(e, c) : e \in CountStores(d, c)}
            [] o >= 10          -> ControlStores(d, c)
    BY <1>2 DEF WriteTo
  <2> HIDE DEF c, o
  <2>4. \A e \in UNION {ControlStores(b, c) : b \in CountStores(d, c)} :
           Follows(d, e, current)
    <3> SUFFICES ASSUME NEW b \in CountStores(d, c), NEW e \in ControlStores(b, c)
                 PROVE  Follows(d, e, current)
      OBVIOUS
    <3>1. Follows(d, b, current)
      BY <2>1, Stored
    <3>2. Follows(b, e, current)
      BY <2>1, <3>1, Stored DEF Follows
    <3> QED BY <3>1, <3>2, FollowsTrans
  <2>5. CASE o < 4
    BY <2>1, <2>2, <2>3, <2>5, Stored
  <2>6. CASE o \in 4 .. 7
    BY <2>1, <2>2, <2>3, <2>6, Stored
  <2>7. CASE o \in 8 .. 9 /\ size = 2
    BY <2>1, <2>2, <2>3, <2>7, Stored
  <2>8. CASE o \in 8 .. 9 /\ size = 4
    BY <2>2, <2>3, <2>4, <2>8
  <2>9. CASE o >= 10
    BY <2>1, <2>2, <2>3, <2>9, Stored
  <2> QED BY <2>2, <2>5, <2>6, <2>7, <2>8, <2>9
<1> QED BY <1>1, <1>2
-----------------------------------------------------------------------------
(* The transfer steps.                                                     *)
\* A change of channel c that leaves its activity and control word alone.
LEMMA FieldsChange ==
    ASSUME NEW d, NEW current, Good(d, current), NEW c \in Channels,
           NEW g \in ChannelFields, Placed(g),
           g.active = d.channels[c].active,
           g.cnt = d.channels[c].cnt,
           g.strayed = d.channels[c].strayed
    PROVE  LET e == [d EXCEPT !.channels[c] = g] IN
           Good(e, current) /\ (Running(d) => Running(e))
<1> DEFINE e == [d EXCEPT !.channels[c] = g]
<1>1. /\ e \in DMAFields
      /\ e.channels[c] = g
      /\ \A k \in Channels \ {c} : e.channels[k] = d.channels[k]
      /\ e.registers = d.registers
      /\ e.controllerActive = d.controllerActive
  BY ChannelChange DEF Good
<1>2. \A k \in Channels : /\ e.channels[k].active = d.channels[k].active
                          /\ e.channels[k].cnt = d.channels[k].cnt
                          /\ e.channels[k].strayed = d.channels[k].strayed
  BY <1>1
<1> HIDE DEF e
<1>3. Good(e, current) /\ (Running(d) => Running(e))
  BY <1>1, <1>2 DEF Good, AllPlaced, Covered, Active, Armed, Mirrored, Paused, Running
<1> QED BY <1>3 DEF e

LEMMA Advanced ==
    ASSUME NEW d, NEW current, Good(d, current), NEW c \in Channels,
           d.channels[c].wordCount > 0
    PROVE  Good(Advance(d, c), current) /\ (Running(d) => Running(Advance(d, c)))
<1> DEFINE h == d.channels[c]
           s == (h.source + h.srcStep) % AddressRange
           t == (h.dest + h.destStep) % AddressRange
           g == [h EXCEPT !.dest = t, !.source = s, !.wordCount = @ - 1]
<1>1. h \in ChannelFields
  BY DEF Good, DMAFields
<1>2. h.wordCount - 1 \in Nat
  BY <1>1 DEF ChannelFields
<1>3. s \in 0 .. AddressRange - 1 /\ t \in 0 .. AddressRange - 1
  <2>1. /\ h.source + h.srcStep \in Int
        /\ h.dest + h.destStep \in Int
    BY <1>1, Widths DEF ChannelFields
  <2> QED BY <2>1, Widths
<1>4. Advance(d, c) = [d EXCEPT !.channels[c] = g]
  BY DEF Advance
<1> HIDE DEF s, t
<1>5. /\ g \in ChannelFields /\ g.active = h.active /\ g.cnt = h.cnt
      /\ g.strayed = h.strayed
      /\ g.source = s /\ g.dest = t /\ g.wordCount = h.wordCount - 1
      /\ g.srcStep = h.srcStep /\ g.destStep = h.destStep
      /\ g.from = h.from /\ g.to = h.to /\ g.length = h.length
  BY <1>1, <1>2, <1>3 DEF ChannelFields
<1> HIDE DEF g
<1>6. Placed(g)
  <2> DEFINE moved == h.length - h.wordCount
  <2>1. Placed(h)
    BY DEF Good, AllPlaced
  <2>2. /\ h.source \in Int /\ h.dest \in Int /\ h.from \in Int /\ h.to \in Int
        /\ h.length \in Nat /\ h.wordCount \in Nat
        /\ h.cnt.srcCtl \in 0 .. 3 /\ h.cnt.destCtl \in 0 .. 3
        /\ h.cnt.size \in {2, 4}
    BY <1>1, Widths DEF ChannelFields, Controls
  <2>3. moved \in Int /\ g.length - g.wordCount = moved + 1
    BY <1>5, <2>2
  <2>4. /\ LowZero(h.source - h.from - moved * Signed(h.cnt.srcCtl, h.cnt.size))
        /\ LowZero(h.dest - h.to - moved * Signed(h.cnt.destCtl, h.cnt.size))
    BY <2>1 DEF Placed
  <2> HIDE DEF moved
  <2>5. /\ LowZero(s - h.from - (moved + 1) * Signed(h.cnt.srcCtl, h.cnt.size))
        /\ LowZero(t - h.to - (moved + 1) * Signed(h.cnt.destCtl, h.cnt.size))
    BY <2>1, <2>2, <2>3, <2>4, OneUnitOn DEF Placed, s, t
  <2>6. g.wordCount <= g.length
    BY <1>5, <2>1, <2>2 DEF Placed
  <2> QED BY <1>5, <2>1, <2>3, <2>5, <2>6 DEF Placed
<1> QED BY <1>4, <1>5, <1>6, FieldsChange

LEMMA BlockReloaded ==
    ASSUME NEW d, NEW current, Good(d, current), NEW c \in Channels
    PROVE  Good(ReloadBlock(d, c), current)
           /\ (Running(d) => Running(ReloadBlock(d, c)))
<1> DEFINE r == d.registers[c]
           b == Rebase(d.channels[c])
           h == ReloadWordCount(b, r, c)
           g == IF h.cnt.destCtl = 3 THEN ReloadDAD(h, r, c) ELSE h
<1>1. d.channels[c] \in ChannelFields /\ r \in RegisterFields
  BY DEF Good, DMAFields
<1>2. b \in ChannelFields /\ b.active = d.channels[c].active
      /\ b.cnt = d.channels[c].cnt /\ b.strayed = d.channels[c].strayed
      /\ b.srcStep = TransferStep(b.cnt.srcCtl, b.cnt.size)
      /\ b.destStep = TransferStep(b.cnt.destCtl, b.cnt.size)
      /\ b.source = b.from /\ b.dest = b.to
  BY <1>1, Rebases DEF Good, AllPlaced, Placed
<1> HIDE DEF b
<1>3. h \in ChannelFields /\ h.active = b.active /\ h.cnt = b.cnt
      /\ h.strayed = b.strayed
      /\ h.srcStep = b.srcStep /\ h.destStep = b.destStep
      /\ h.source = h.from /\ h.dest = h.to /\ h.wordCount = h.length
  <2> DEFINE limit == IF c = 3 THEN WideCount ELSE NarrowCount
             n == IF r.count % limit = 0 THEN limit ELSE r.count % limit
  <2>1. limit \in Nat /\ limit > 0 /\ r.count \in Nat
    BY <1>1, DMAAssumption DEF RegisterFields
  <2>2. n \in Nat
    <3> HIDE DEF limit
    <3>1. r.count % limit \in 0 .. limit - 1
      BY <2>1
    <3> QED BY <2>1, <3>1
  <2>3. h = [b EXCEPT !.wordCount = n, !.length = n]
    BY DEF ReloadWordCount
  <2> HIDE DEF n, h
  <2> QED BY <1>2, <2>2, <2>3 DEF ChannelFields
<1> HIDE DEF h
<1>4. LET f == ReloadDAD(h, r, c) IN
      f \in ChannelFields /\ f.active = h.active /\ f.cnt = h.cnt
      /\ f.strayed = h.strayed
      /\ f.srcStep = h.srcStep /\ f.destStep = h.destStep
      /\ f.source = f.from /\ f.dest = f.to /\ f.wordCount = f.length
  <2> DEFINE t == r.dad % (IF c = 3 THEN WideRange ELSE NarrowRange)
  <2>1. t \in 0 .. AddressRange - 1
    BY <1>1, Masked DEF RegisterFields
  <2>2. ReloadDAD(h, r, c) = [h EXCEPT !.dest = t, !.to = t]
    BY DEF ReloadDAD
  <2> HIDE DEF t
  <2> QED BY <1>3, <2>1, <2>2 DEF ChannelFields
<1>5. g \in ChannelFields /\ g.active = d.channels[c].active
      /\ g.cnt = d.channels[c].cnt /\ g.strayed = d.channels[c].strayed
      /\ Placed(g)
  BY <1>2, <1>3, <1>4, PlacedAtStart
<1>6. ReloadBlock(d, c) = [d EXCEPT !.channels[c] = g]
  BY DEF ReloadBlock, h, b
<1> HIDE DEF g
<1> QED BY <1>5, <1>6, FieldsChange

LEMMA Finished ==
    ASSUME NEW d, NEW current, Good(d, current), NEW c \in Channels
    PROVE  Follows(d, Finish(d, c), current)
<1>1. d.channels[c].cnt \in Controls
  BY DEF Good, DMAFields, ChannelFields
<1>2. [d.channels[c].cnt EXCEPT !.enable = FALSE] \in Controls
  BY <1>1 DEF Controls
<1> QED BY <1>2, ControlStored DEF Finish

LEMMA BlockStep ==
    ASSUME NEW d, NEW current, Good(d, current), NEW c \in Channels
    PROVE  \A e \in DoTransferStep(d, c) :
              Good(e, current) /\ (Running(d) => Running(e))
<1> DEFINE h == d.channels[c]
<1>1. h \in ChannelFields /\ h.dest \in Int /\ h.cnt.size \in {2, 4}
  BY Widths DEF Good, DMAFields, ChannelFields, Controls
<1>2. CASE h.wordCount > 0
  <2> SUFFICES ASSUME NEW e \in WriteTo(d, h.dest, h.cnt.size)
               PROVE  Good(Advance(e, c), current)
                      /\ (Running(d) => Running(Advance(e, c)))
    BY <1>2 DEF DoTransferStep
  <2>1. Follows(d, e, current)
    BY <1>1, Written
  <2>2. e.channels[c].wordCount > 0
    BY <1>2, <2>1 DEF Follows
  <2> QED BY <2>1, <2>2, Advanced DEF Follows
<1>3. CASE ~(h.wordCount > 0)
  BY <1>3, BlockReloaded, Finished DEF DoTransferStep, Follows
<1> QED BY <1>2, <1>3
-----------------------------------------------------------------------------
(* The sound transfer: four writes, and the channel stops.                 *)
Sounded(d, e, c, current) ==
    /\ Good(e, current)
    /\ Running(d) => Running(e)
    /\ ~OnRegisters(d.channels[c].dest)
         => /\ e.channels[c].dest = d.channels[c].dest
            /\ e.channels[c].cnt = d.channels[c].cnt

LEMMA SourceAdvanced ==
    ASSUME NEW d, NEW current, Good(d, current), NEW c \in Channels
    PROVE  Sounded(d, AdvanceSource(d, c), c, current)
<1> DEFINE h == d.channels[c]
           s == (h.source + h.srcStep) % AddressRange
           b == [h EXCEPT !.source = s]
           g == Rebase(b)
<1>1. d \in DMAFields /\ h \in ChannelFields
  BY DEF Good, DMAFields
<1>2. s \in 0 .. AddressRange - 1
  <2>1. h.source + h.srcStep \in Int
    BY <1>1, Widths DEF ChannelFields
  <2> QED BY <2>1, Widths
<1>3. AdvanceSource(d, c) = [d EXCEPT !.channels[c] = g]
  BY DEF AdvanceSource
<1> HIDE DEF s
<1>4. b \in ChannelFields /\ b.active = h.active /\ b.cnt = h.cnt
      /\ b.strayed = h.strayed /\ b.dest = h.dest
      /\ b.srcStep = h.srcStep /\ b.destStep = h.destStep
  BY <1>1, <1>2 DEF ChannelFields
<1> HIDE DEF b
<1>5. g \in ChannelFields /\ g.active = h.active /\ g.cnt = h.cnt
      /\ g.strayed = h.strayed /\ g.dest = h.dest
      /\ Placed(g)
  <2>1. Placed(h)
    BY DEF Good, AllPlaced
  <2> QED BY <1>4, <2>1, Rebases, PlacedAtStart DEF Placed
<1> HIDE DEF g
<1>6. AdvanceSource(d, c).channels[c] = g
  BY <1>1, <1>3, <1>5, ChannelChange
<1> QED BY <1>3, <1>5, <1>6, FieldsChange DEF Sounded

LEMMA WordSounded ==
    ASSUME NEW d, NEW current, NEW c \in Channels, NEW S,
           \A e \in S : Sounded(d, e, c, current)
    PROVE  \A f \in SoundWord(S, c) : Sounded(d, f, c, current)
<1> SUFFICES ASSUME NEW b \in S, NEW e \in WriteTo(b, b.channels[c].dest, 4)
             PROVE  Sounded(d, AdvanceSource(e, c), c, current)
  BY DEF SoundWord
<1>1. Sounded(d, b, c, current)
  OBVIOUS
<1>2. b.channels[c].dest \in Int
  BY <1>1, Widths DEF Sounded, Good, DMAFields, ChannelFields
<1>3. Follows(b, e, current)
  BY <1>1, <1>2, Written DEF Sounded
<1>4. Sounded(e, AdvanceSource(e, c), c, current)
  BY <1>3, SourceAdvanced DEF Follows
<1>5. ~OnRegisters(b.channels[c].dest) => e = b
  BY DEF WriteTo
<1> QED BY <1>1, <1>3, <1>4, <1>5 DEF Sounded, Follows

LEMMA Stopped ==
    ASSUME NEW d, NEW current, Good(d, current), NEW c \in Channels
    PROVE  LET e == [d EXCEPT !.channels[c].active = FALSE] IN
           /\ Good(e, current)
           /\ Running(d) /\ d.channels[c].cnt.timing = "SPECIAL" => Running(e)
<1> DEFINE g == [d.channels[c] EXCEPT !.active = FALSE]
           e == [d EXCEPT !.channels[c] = g]
<1>1. d \in DMAFields /\ d.channels[c] \in ChannelFields
  BY DEF Good, DMAFields
<1>2. g \in ChannelFields /\ ~g.active /\ g.cnt = d.channels[c].cnt /\ Placed(g)
  BY <1>1 DEF ChannelFields, Good, AllPlaced, Placed
<1>3. e = [d EXCEPT !.channels[c].active = FALSE]
  OBVIOUS
<1> HIDE DEF g
<1>4. /\ e \in DMAFields
      /\ e.channels[c] = g
      /\ \A k \in Channels \ {c} : e.channels[k] = d.channels[k]
      /\ e.registers = d.registers
      /\ e.controllerActive = d.controllerActive
  BY <1>1, <1>2, ChannelChange
<1> HIDE DEF e
<1>5. Good(e, current)
  BY <1>2, <1>4 DEF Good, AllPlaced, Covered, Active, Armed, Mirrored, Paused
<1>6. Running(d) /\ d.channels[c].cnt.timing = "SPECIAL" => Running(e)
  BY <1>2, <1>4 DEF Running
<1> QED BY <1>3, <1>5, <1>6

LEMMA SoundStep ==
    ASSUME NEW d, NEW current, Good(d, current), NEW c \in Channels,
           d.channels[c].cnt.timing = "SPECIAL"
    PROVE  \A e \in DoSoundTransfer(d, c) :
              /\ Good(e, current)
              /\ ~OnRegisters(d.channels[c].dest) /\ Running(d) => Running(e)
<1> DEFINE S1 == SoundWord({d}, c)
           S2 == SoundWord(S1, c)
           S3 == SoundWord(S2, c)
           S4 == SoundWord(S3, c)
<1>1. Sounded(d, d, c, current)
  BY DEF Sounded
<1>2. \A e \in S1 : Sounded(d, e, c, current)
  BY <1>1, WordSounded
<1> HIDE DEF S1
<1>3. \A e \in S2 : Sounded(d, e, c, current)
  BY <1>2, WordSounded
<1> HIDE DEF S2
<1>4. \A e \in S3 : Sounded(d, e, c, current)
  BY <1>3, WordSounded
<1> HIDE DEF S3
<1>5. \A e \in S4 : Sounded(d, e, c, current)
  BY <1>4, WordSounded
<1>6. DoSoundTransfer(d, c) = {[e EXCEPT !.channels[c].active = FALSE] : e \in S4}
  BY DEF DoSoundTransfer, S1, S2, S3
<1> HIDE DEF S4
<1> SUFFICES ASSUME NEW e \in S4
             PROVE  LET f == [e EXCEPT !.channels[c].active = FALSE] IN
                    /\ Good(f, current)
                    /\ ~OnRegisters(d.channels[c].dest) /\ Running(d) => Running(f)
  BY <1>6
<1>7. Sounded(d, e, c, current)
  BY <1>5
<1> QED BY <1>7, Stopped DEF Sounded
-----------------------------------------------------------------------------
(* The controller's operations.                                            *)
LEMMA FirstActive ==
    ASSUME NEW S, S \subseteq Channels, S # {}
    PROVE  First(S) \in S
<1>1. \E c \in S : \A k \in S : c <= k
  <2>1. S \subseteq 0 .. 3
    BY Widths
  <2>2. CASE 0 \in S
    BY <2>1, <2>2
  <2>3. CASE 0 \notin S /\ 1 \in S
    BY <2>1, <2>3
  <2>4. CASE 0 \notin S /\ 1 \notin S /\ 2 \in S
    BY <2>1, <2>4
  <2>5. CASE 0 \notin S /\ 1 \notin S /\ 2 \notin S
    <3>1. \A k \in S : k = 3
      BY <2>1, <2>5
    <3> QED BY <3>1
  <2> QED BY <2>2, <2>3, <2>4, <2>5
<1> QED BY <1>1 DEF First

LEMMA Executed ==
    ASSUME NEW d, NEW current, Good(d, current), IsActive(d)
    PROVE  LET h == d.channels[First(Active(d))] IN
           \A e \in Execute(d) :
              /\ Good(e, current)
              /\ Running(d) => \/ Running(e)
                               \/ h.cnt.timing = "SPECIAL" /\ OnRegisters(h.dest)
<1> DEFINE c == First(Active(d))
<1>1. c \in Channels
  BY FirstActive DEF IsActive, Active
<1>2. Execute(d) = IF d.channels[c].cnt.timing = "SPECIAL" THEN DoSoundTransfer(d, c)
                                                          ELSE DoTransferStep(d, c)
  BY DEF Execute
<1> HIDE DEF c
<1>3. CASE d.channels[c].cnt.timing = "SPECIAL"
  BY <1>1, <1>2, <1>3, SoundStep DEF c
<1>4. CASE d.channels[c].cnt.timing # "SPECIAL"
  BY <1>1, <1>2, <1>4, BlockStep DEF c
<1> QED BY <1>3, <1>4

LEMMA EventFields ==
    ASSUME NEW d \in DMAFields, NEW event, NEW start \in BOOLEAN
    PROVE  LET e == EventCallback(d, event, start)
               S == Concerned(d, event) IN
           /\ e \in DMAFields
           /\ e.registers = d.registers
           /\ e.controllerActive = (d.controllerActive \/ (start /\ S # {}))
           /\ \A c \in Channels :
                 /\ e.channels[c].cnt = d.channels[c].cnt
                 /\ e.channels[c].active = IF c \in S THEN start ELSE d.channels[c].active
                 /\ c \in S => ~e.channels[c].strayed
                 /\ c \notin S => e.channels[c].strayed = d.channels[c].strayed
                 /\ e.channels[c].dest = d.channels[c].dest
                 /\ Placed(d.channels[c]) => Placed(e.channels[c])
<1> DEFINE S == Concerned(d, event)
           f == [c \in Channels |->
                   IF c \in S THEN [d.channels[c] EXCEPT !.active = start,
                                                         !.strayed = FALSE]
                              ELSE d.channels[c]]
<1>1. EventCallback(d, event, start) =
        [d EXCEPT !.channels = f, !.controllerActive = @ \/ (start /\ S # {})]
  BY DEF EventCallback, DMAFields
<1> HIDE DEF S
<1>2. \A c \in Channels : d.channels[c] \in ChannelFields
  BY DEF DMAFields
<1>3. \A c \in Channels :
         LET g == [d.channels[c] EXCEPT !.active = start, !.strayed = FALSE] IN
         /\ g \in ChannelFields
         /\ g.cnt = d.channels[c].cnt
         /\ g.active = start /\ ~g.strayed
         /\ g.dest = d.channels[c].dest
         /\ Placed(d.channels[c]) => Placed(g)
  BY <1>2 DEF ChannelFields, Placed
<1>4. f \in [Channels -> ChannelFields]
  BY <1>2, <1>3
<1>5. \A c \in Channels :
         /\ f[c].cnt = d.channels[c].cnt
         /\ f[c].active = IF c \in S THEN start ELSE d.channels[c].active
         /\ c \in S => ~f[c].strayed
         /\ c \notin S => f[c].strayed = d.channels[c].strayed
         /\ f[c].dest = d.channels[c].dest
         /\ Placed(d.channels[c]) => Placed(f[c])
  BY <1>3
<1> HIDE DEF f
<1>6. LET e == EventCallback(d, event, start) IN
      /\ e \in DMAFields
      /\ e.registers = d.registers
      /\ e.controllerActive = (d.controllerActive \/ (start /\ S # {}))
      /\ e.channels = f
  BY <1>1, <1>4 DEF DMAFields
<1> QED BY <1>5, <1>6 DEF S

\* An event of the display leads from one period to the next; a request of
\* a FIFO leaves the period alone.
LEMMA Called ==
    ASSUME NEW d, NEW current, NEW next, NEW event, NEW start \in BOOLEAN,
           Good(d, current),
           \/ event \in {"HBLANK", "VBLANK"} /\ start /\ next = event
                /\ current \notin {"HBLANK", "VBLANK"}
           \/ event \in {"HBLANK", "VBLANK"} /\ ~start /\ current = event
           \/ event \in {"FIFOA", "FIFOB"} /\ next = current
    PROVE  LET e == EventCallback(d, event, start) IN
           Good(e, next) /\ (Running(d) => Running(e))
<1> DEFINE e == EventCallback(d, event, start)
           S == Concerned(d, event)
<1>1. d \in DMAFields
  BY DEF Good
<1>2. /\ e \in DMAFields
      /\ e.registers = d.registers
      /\ e.controllerActive = (d.controllerActive \/ (start /\ S # {}))
      /\ \A c \in Channels :
            /\ e.channels[c].cnt = d.channels[c].cnt
            /\ e.channels[c].active = IF c \in S THEN start ELSE d.channels[c].active
            /\ c \in S => ~e.channels[c].strayed
            /\ c \notin S => e.channels[c].strayed = d.channels[c].strayed
            /\ Placed(d.channels[c]) => Placed(e.channels[c])
  BY <1>1, EventFields
<1>3. DOMAIN FifoAddress = {"FIFOA", "FIFOB"}
  BY DEF FifoAddress
<1>4. \A c \in Channels :
         /\ c \in S => d.channels[c].cnt.enable
         /\ event \in {"FIFOA", "FIFOB"} /\ c \in S => d.channels[c].cnt.timing = "SPECIAL"
         /\ event \in {"HBLANK", "VBLANK"} =>
              (c \in S <=> d.channels[c].cnt.enable /\ d.channels[c].cnt.timing = event)
  BY <1>3 DEF Concerned
<1>5. S \subseteq Channels
  BY DEF Concerned
<1> HIDE DEF e, S
<1>6. Covered(e)
  BY <1>2, <1>5 DEF Good, Covered, Active
<1>7. Armed(e)
  BY <1>2, <1>4 DEF Good, Armed
<1>8. Mirrored(e)
  BY <1>2 DEF Good, Mirrored
<1>9. Paused(e, next)
  <2> SUFFICES ASSUME NEW c \in Channels, e.channels[c].active, ~e.channels[c].strayed,
                      e.channels[c].cnt.timing \in {"HBLANK", "VBLANK"}
               PROVE  e.channels[c].cnt.timing = next
    BY DEF Paused
  <2>1. c \notin S =>
           d.channels[c].cnt.enable /\ d.channels[c].cnt.timing = current
    BY <1>2 DEF Good, Armed, Paused
  <2> QED BY <1>2, <1>4, <2>1
<1>10. Running(d) => Running(e)
  BY <1>2, <1>4 DEF Running
<1>11. AllPlaced(e)
  BY <1>2 DEF Good, AllPlaced
<1> QED BY <1>2, <1>6, <1>7, <1>8, <1>9, <1>10, <1>11 DEF Good, e
-----------------------------------------------------------------------------
(* What an operation on one channel leaves as it was: the other channels,  *)
(* and of its own what decides which events concern it.                    *)
Apart(d, e, c) == \A k \in Channels \ {c} : e.channels[k] = d.channels[k]

LEMMA ControlLeaves ==
    ASSUME NEW d \in DMAFields, NEW c \in Channels, NEW control \in Controls
    PROVE  LET e == StoreControl(d, c, control) IN
           /\ Apart(d, e, c)
           /\ e.channels[c].cnt = control
           /\ e.channels[c].active
                => d.channels[c].active \/ control.timing = "IMMEDIATE"
<1> DEFINE h == UpdateDetails(d.channels[c], d.registers[c], c, control)
           start == control.enable /\ control.timing = "IMMEDIATE"
           g == [h EXCEPT !.active = @ \/ start]
           e == StoreControl(d, c, control)
<1>1. d.channels[c] \in ChannelFields /\ d.registers[c] \in RegisterFields
  BY DEF DMAFields
<1>2. /\ h \in ChannelFields
      /\ h.cnt = control
      /\ h.active = (d.channels[c].active /\ control.enable)
  BY <1>1, Updates
<1>3. e = [d EXCEPT !.channels[c] = g, !.registers[c].control = control,
                    !.controllerActive = @ \/ start]
  BY DEF StoreControl
<1>4. start \in BOOLEAN
  BY DEF Controls
<1> HIDE DEF h, e, start
<1>5. g.cnt = control /\ g.active = (h.active \/ start)
  BY <1>2, <1>4 DEF ChannelFields
<1> HIDE DEF g
<1>6. e.channels[c] = g /\ Apart(d, e, c)
  BY <1>3 DEF DMAFields, Apart
<1>7. Apart(d, e, c) /\ e.channels[c].cnt = control
      /\ (e.channels[c].active => d.channels[c].active \/ control.timing = "IMMEDIATE")
  BY <1>2, <1>5, <1>6 DEF start
<1> QED BY <1>7 DEF e

LEMMA StoreLeaves ==
    ASSUME NEW d \in DMAFields, NEW c \in Channels, NEW e \in Stores(d, c)
    PROVE  /\ Apart(d, e, c)
           /\ e.channels[c].active
                => d.channels[c].active \/ e.channels[c].cnt.timing = "IMMEDIATE"
<1>1. CASE e.channels = d.channels
  BY <1>1 DEF Apart
<1>2. CASE e \in ControlStores(d, c)
  <2>1. PICK control \in GuestControls : e = StoreControl(d, c, control)
    BY <1>2 DEF ControlStores
  <2>2. control \in Controls
    BY DMAAssumption
  <2> QED BY <2>1, <2>2, ControlLeaves
<1>3. CASE e \in SADStores(d, c) \cup DADStores(d, c) \cup CountStores(d, c)
  <2>1. e.channels = d.channels
    BY <1>3 DEF SADStores, DADStores, CountStores, StoreSAD, StoreDAD, StoreCount,
                DMAFields
  <2> QED BY <1>1, <2>1
<1> QED BY <1>2, <1>3 DEF Stores

LEMMA BlockLeaves ==
    ASSUME NEW d \in DMAFields, NEW c \in Channels,
           ~OnRegisters(d.channels[c].dest),
           NEW e \in DoTransferStep(d, c)
    PROVE  /\ Apart(d, e, c)
           /\ e.channels[c].cnt.timing = d.channels[c].cnt.timing
<1> DEFINE h == d.channels[c]
<1>1. h \in ChannelFields /\ h.cnt \in Controls
  BY DEF DMAFields, ChannelFields
<1>2. CASE h.wordCount > 0
  <2>1. e = Advance(d, c)
    BY <1>2 DEF DoTransferStep, WriteTo
  <2> DEFINE s == (h.source + h.srcStep) % AddressRange
             t == (h.dest + h.destStep) % AddressRange
             g == [h EXCEPT !.dest = t, !.source = s, !.wordCount = @ - 1]
  <2>2. e = [d EXCEPT !.channels[c] = g]
    BY <2>1 DEF Advance
  <2> HIDE DEF s, t
  <2>3. g.cnt = h.cnt
    BY <1>1 DEF ChannelFields
  <2> HIDE DEF g
  <2> QED BY <2>2, <2>3 DEF Apart, DMAFields
<1>3. CASE ~(h.wordCount > 0) /\ h.cnt.repeat
  <2>1. e = ReloadBlock(d, c)
    BY <1>3 DEF DoTransferStep
  <2> DEFINE r == d.registers[c]
             b == ReloadWordCount(Rebase(h), r, c)
             g == IF b.cnt.destCtl = 3 THEN ReloadDAD(b, r, c) ELSE b
  <2>2. e = [d EXCEPT !.channels[c] = g]
    BY <2>1 DEF ReloadBlock
  <2>3. b.cnt = h.cnt /\ DOMAIN b = DOMAIN h
    BY <1>1 DEF ReloadWordCount, Rebase, ChannelFields
  <2>4. ReloadDAD(b, r, c).cnt = h.cnt
    <3> HIDE DEF b
    <3> QED BY <1>1, <2>3 DEF ReloadDAD, ChannelFields
  <2> HIDE DEF b
  <2>5. g.cnt = h.cnt
    BY <2>3, <2>4
  <2> HIDE DEF g
  <2> QED BY <2>2, <2>5 DEF Apart, DMAFields
<1>4. CASE ~(h.wordCount > 0) /\ ~h.cnt.repeat
  <2> DEFINE control == [h.cnt EXCEPT !.enable = FALSE]
  <2>1. e = StoreControl(d, c, control)
    BY <1>4 DEF DoTransferStep, Finish
  <2>2. control \in Controls /\ control.timing = h.cnt.timing
    BY <1>1 DEF Controls
  <2> HIDE DEF control
  <2> QED BY <2>1, <2>2, ControlLeaves
<1> QED BY <1>2, <1>3, <1>4

LEMMA WordLeaves ==
    ASSUME NEW b \in DMAFields, NEW c \in Channels,
           ~OnRegisters(b.channels[c].dest),
           NEW e \in SoundWord({b}, c)
    PROVE  /\ SoundWord({b}, c) = {e}
           /\ e \in DMAFields
           /\ Apart(b, e, c)
           /\ e.channels[c].cnt = b.channels[c].cnt
           /\ e.channels[c].dest = b.channels[c].dest
<1> DEFINE h == b.channels[c]
           s == (h.source + h.srcStep) % AddressRange
           i == [h EXCEPT !.source = s]
           g == Rebase(i)
<1>1. WriteTo(b, h.dest, 4) = {b}
  BY DEF WriteTo
<1>2. SoundWord({b}, c) = {AdvanceSource(b, c)}
  BY <1>1 DEF SoundWord
<1>3. AdvanceSource(b, c) = [b EXCEPT !.channels[c] = g]
  BY DEF AdvanceSource
<1>4. h \in ChannelFields
  BY DEF DMAFields
<1>5. s \in 0 .. AddressRange - 1
  <2>1. h.source + h.srcStep \in Int
    BY <1>4, Widths DEF ChannelFields
  <2> QED BY <2>1, Widths
<1> HIDE DEF s
<1>6. i \in ChannelFields /\ i.cnt = h.cnt /\ i.dest = h.dest
  BY <1>4, <1>5 DEF ChannelFields
<1> HIDE DEF i
<1>7. g \in ChannelFields /\ g.cnt = h.cnt /\ g.dest = h.dest
  BY <1>6, Rebases
<1> HIDE DEF g
<1>8. e = [b EXCEPT !.channels[c] = g] /\ SoundWord({b}, c) = {e}
  BY <1>2, <1>3
<1>9. e \in DMAFields /\ e.channels[c] = g
      /\ \A k \in Channels \ {c} : e.channels[k] = b.channels[k]
  BY <1>7, <1>8, ChannelChange
<1> QED BY <1>7, <1>8, <1>9 DEF Apart

LEMMA SoundLeaves ==
    ASSUME NEW d \in DMAFields, NEW c \in Channels,
           ~OnRegisters(d.channels[c].dest),
           NEW e \in DoSoundTransfer(d, c)
    PROVE  /\ Apart(d, e, c)
           /\ ~e.channels[c].active
           /\ e.channels[c].cnt = d.channels[c].cnt
           /\ e.channels[c].dest = d.channels[c].dest
<1> DEFINE S1 == SoundWord({d}, c)
           S2 == SoundWord(S1, c)
           S3 == SoundWord(S2, c)
           S4 == SoundWord(S3, c)
           Quiet(f) == /\ f \in DMAFields
                       /\ Apart(d, f, c)
                       /\ f.channels[c].cnt = d.channels[c].cnt
                       /\ f.channels[c].dest = d.channels[c].dest
<1>1. ASSUME NEW S, \A f \in S : Quiet(f)
      PROVE  \A f \in SoundWord(S, c) : Quiet(f)
  <2> SUFFICES ASSUME NEW f \in SoundWord(S, c) PROVE Quiet(f)
    OBVIOUS
  <2>1. PICK b \in S : f \in SoundWord({b}, c)
    <3>1. PICK b \in S : f \in {AdvanceSource(a, c) :
                                   a \in WriteTo(b, b.channels[c].dest, 4)}
      BY DEF SoundWord
    <3>2. SoundWord({b}, c) = {AdvanceSource(a, c) :
                                   a \in WriteTo(b, b.channels[c].dest, 4)}
      BY DEF SoundWord
    <3> QED BY <3>1, <3>2
  <2>2. Quiet(b)
    BY <1>1, <2>1
  <2> QED BY <2>1, <2>2, WordLeaves DEF Apart
<1>2. \A f \in {d} : Quiet(f)
  BY DEF Apart
<1>3. e \in {[f EXCEPT !.channels[c].active = FALSE] : f \in S4}
  BY DEF DoSoundTransfer
<1> HIDE DEF Quiet
<1>4. \A f \in S1 : Quiet(f)
  BY <1>1, <1>2
<1> HIDE DEF S1
<1>5. \A f \in S2 : Quiet(f)
  BY <1>1, <1>4
<1> HIDE DEF S2
<1>6. \A f \in S3 : Quiet(f)
  BY <1>1, <1>5
<1> HIDE DEF S3
<1>7. \A f \in S4 : Quiet(f)
  BY <1>1, <1>6
<1> HIDE DEF S4
<1>8. PICK f \in S4 : e = [f EXCEPT !.channels[c].active = FALSE]
  BY <1>3
<1> DEFINE g == [f.channels[c] EXCEPT !.active = FALSE]
<1>9. Quiet(f) /\ e = [f EXCEPT !.channels[c] = g]
  BY <1>7, <1>8
<1>10. g.cnt = f.channels[c].cnt /\ g.dest = f.channels[c].dest /\ ~g.active
  BY <1>9 DEF Quiet, DMAFields, ChannelFields
<1> HIDE DEF g
<1>11. e.channels[c] = g /\ Apart(f, e, c)
  BY <1>9 DEF Quiet, DMAFields, Apart
<1> QED BY <1>9, <1>10, <1>11 DEF Quiet, Apart
-----------------------------------------------------------------------------
(* The inductive invariant: the good state of the controller, in the       *)
(* period the display is in, with the exception of ImmediateRuns.          *)
IInv == TypeOK /\ Good(dma, period) /\ ImmediateRuns

LEMMA GoodAtPowerOn ==
    /\ Good(PowerOn, "none")
    /\ Running(PowerOn)
<1>1. Off \in Controls
  BY DEF Off, Controls, Timings
<1>2. 0 \in 0 .. AddressRange - 1 /\ 2 \in 0 .. HalfRange
  BY Widths
<1>3. Idle \in ChannelFields /\ NoRegisters \in RegisterFields
  BY <1>1, <1>2 DEF Idle, NoRegisters, ChannelFields, RegisterFields
<1>4. /\ PowerOn \in DMAFields
      /\ \A c \in Channels : PowerOn.channels[c] = Idle /\ PowerOn.registers[c] = NoRegisters
  BY <1>3 DEF PowerOn, DMAFields
<1>5. ~Idle.active /\ Idle.cnt = Off /\ NoRegisters.control = Off /\ ~Off.enable
  BY DEF Idle, NoRegisters, Off
<1>6. Placed(Idle)
  BY <1>3, PlacedAtStart DEF Idle, Off, TransferStep
<1> QED BY <1>4, <1>5, <1>6
        DEF Good, AllPlaced, Covered, Active, Armed, Mirrored, Paused, Running

LEMMA IInvInit == Init => IInv
BY GoodAtPowerOn DEF Init, IInv, TypeOK, Good, ImmediateRuns

LEMMA IInvNext == IInv /\ [Next]_vars => IInv'
<1> SUFFICES ASSUME IInv, [Next]_vars PROVE IInv'
  OBVIOUS
<1>1. Good(dma, period) /\ (soundHit \/ Running(dma))
  BY DEF IInv, ImmediateRuns
<1>2. CASE BeginInstruction
  <2> DEFINE e == [dma EXCEPT !.controllerActive = FALSE]
  <2>1. e \in DMAFields /\ e.channels = dma.channels /\ e.registers = dma.registers
    BY <1>1 DEF Good, DMAFields
  <2>2. dma' = e
    BY <1>2 DEF BeginInstruction
  <2> HIDE DEF e
  <2>3. Active(dma) = {}
    BY <1>1, <1>2 DEF BeginInstruction, IsActive, Good, Covered
  <2>4. Good(e, period) /\ (soundHit \/ Running(e))
    BY <1>1, <2>1, <2>3 DEF Good, AllPlaced, Covered, Active, Armed, Mirrored, Paused,
                            Running
  <2> QED BY <1>2, <2>2, <2>4 DEF BeginInstruction, IInv, TypeOK, ImmediateRuns, Good
<1>3. CASE \E c \in Channels : CpuStore(c)
  <2>1. PICK c \in Channels : CpuStore(c)
    BY <1>3
  <2>2. Follows(dma, dma', period)
    BY <1>1, <2>1, Stored DEF CpuStore, Stores
  <2> QED BY <1>1, <2>1, <2>2 DEF CpuStore, IInv, TypeOK, ImmediateRuns, Good, Follows
<1>4. CASE EndInstruction
  BY <1>1, <1>4 DEF EndInstruction, IInv, TypeOK, ImmediateRuns, Good
<1>5. CASE Transfer
  <2> DEFINE h == dma.channels[First(Active(dma))]
  <2>1. /\ Good(dma', period)
        /\ Running(dma) => \/ Running(dma')
                           \/ h.cnt.timing = "SPECIAL" /\ OnRegisters(h.dest)
    BY <1>1, <1>5, Executed DEF Transfer
  <2>2. soundHit' = (soundHit \/ (h.cnt.timing = "SPECIAL" /\ OnRegisters(h.dest)))
    BY <1>5 DEF Transfer
  <2> HIDE DEF h
  <2>3. soundHit' \in BOOLEAN /\ (soundHit' \/ Running(dma'))
    BY <1>1, <2>1, <2>2 DEF IInv, TypeOK
  <2> QED BY <1>5, <2>1, <2>3 DEF Transfer, IInv, TypeOK, ImmediateRuns, Good
<1>6. CASE HBlankStarts
  <2>1. Good(dma', "HBLANK") /\ (Running(dma) => Running(dma'))
    BY <1>1, <1>6, Called DEF HBlankStarts, Display
  <2> QED BY <1>1, <1>6, <2>1
          DEF HBlankStarts, Display, IInv, TypeOK, ImmediateRuns, Good
<1>7. CASE HBlankEnds
  <2>1. Good(dma', "none") /\ (Running(dma) => Running(dma'))
    BY <1>1, <1>7, Called DEF HBlankEnds, Display
  <2> QED BY <1>1, <1>7, <2>1
          DEF HBlankEnds, Display, IInv, TypeOK, ImmediateRuns, Good
<1>8. CASE LastHBlankEnds
  <2> DEFINE e == EventCallback(dma, "HBLANK", FALSE)
  <2>1. Good(e, "none") /\ (Running(dma) => Running(e))
    BY <1>1, <1>8, Called DEF LastHBlankEnds, Display
  <2>2. dma' = EventCallback(e, "VBLANK", TRUE)
    BY <1>8 DEF LastHBlankEnds
  <2> HIDE DEF e
  <2>3. Good(dma', "VBLANK") /\ (Running(e) => Running(dma'))
    BY <2>1, <2>2, Called
  <2> QED BY <1>1, <1>8, <2>1, <2>3
          DEF LastHBlankEnds, Display, IInv, TypeOK, ImmediateRuns, Good
<1>9. CASE VBlankEnds
  <2>1. Good(dma', "none") /\ (Running(dma) => Running(dma'))
    BY <1>1, <1>9, Called DEF VBlankEnds, Display
  <2> QED BY <1>1, <1>9, <2>1
          DEF VBlankEnds, Display, IInv, TypeOK, ImmediateRuns, Good
<1>10. CASE \E event \in DOMAIN FifoAddress : FifoRequests(event)
  <2>1. PICK event \in {"FIFOA", "FIFOB"} : FifoRequests(event)
    BY <1>10 DEF FifoAddress
  <2>2. Good(dma', period) /\ (Running(dma) => Running(dma'))
    BY <1>1, <2>1, Called DEF FifoRequests
  <2> QED BY <1>1, <2>1, <2>2 DEF FifoRequests, IInv, TypeOK, ImmediateRuns, Good
<1>11. CASE DisplayStays
  BY <1>1, <1>11 DEF DisplayStays, IInv, TypeOK, ImmediateRuns, Good
<1>12. CASE UNCHANGED vars
  BY <1>1, <1>12 DEF vars, IInv, TypeOK, ImmediateRuns, Good
<1> QED BY <1>2, <1>3, <1>4, <1>5, <1>6, <1>7, <1>8, <1>9, <1>10, <1>11, <1>12
        DEF Next

LEMMA IInvAlways == Spec => []IInv
BY IInvInit, IInvNext, PTL DEF Spec
-----------------------------------------------------------------------------
(* Every address, step and count of dma/channel.cpp stays in its width and *)
(* the word count never passes below zero, however control words, counts   *)
(* and units that land on the registers follow each other.                 *)
THEOREM TypeCorrect == Spec => []TypeOK
<1>1. IInv => TypeOK
  BY DEF IInv
<1> QED BY <1>1, IInvAlways, PTL

(* No active channel waits behind a lowered controllerActive.              *)
THEOREM NoChannelForgotten == Spec => []FlagCoversActive
<1>1. IInv => FlagCoversActive
  BY DEF IInv, Good, FlagCoversActive
<1> QED BY <1>1, IInvAlways, PTL

(* Only enabled channels are active.                                       *)
THEOREM OnlyEnabledRun == Spec => []ActiveOnlyIfEnabled
<1>1. IInv => ActiveOnlyIfEnabled
  BY DEF IInv, Good, ActiveOnlyIfEnabled
<1> QED BY <1>1, IInvAlways, PTL

(* CNT_H reads back as the control word in effect.                         *)
THEOREM ControlReadsBack == Spec => []ControlMirrored
<1>1. IInv => ControlMirrored
  BY DEF IInv, Good, ControlMirrored
<1> QED BY <1>1, IInvAlways, PTL

(* Through every pause, new control word, reload and unit on the registers, *)
(* source and destination are, in their lower halves, where the units moved *)
(* since the block began put them, in the direction CNT_H shows: the count  *)
(* and both addresses of dma/channel.cpp move together.                     *)
THEOREM BlockStaysExact == Spec => []BlockExact
<1>1. IInv => BlockExact
  <2> SUFFICES ASSUME IInv, NEW c \in Channels
               PROVE  LET h     == dma.channels[c]
                          k     == dma.registers[c].control
                          moved == h.length - h.wordCount IN
                      /\ moved >= 0
                      /\ LowZero(h.source - h.from - moved * Signed(k.srcCtl, k.size))
                      /\ LowZero(h.dest - h.to - moved * Signed(k.destCtl, k.size))
    BY DEF BlockExact, LowZero
  <2>1. /\ dma.channels[c].length \in Nat /\ dma.channels[c].wordCount \in Nat
        /\ Placed(dma.channels[c])
        /\ dma.registers[c].control = dma.channels[c].cnt
    BY DEF IInv, Good, AllPlaced, Mirrored, DMAFields, ChannelFields
  <2> QED BY <2>1 DEF Placed
<1> QED BY <1>1, IInvAlways, PTL

(* A channel that an event of the display started runs in its period only. *)
THEOREM OnlyInItsPeriod == Spec => []PausedOutsidePeriod
<1>1. IInv => PausedOutsidePeriod
  BY DEF IInv, Good, PausedOutsidePeriod
<1> QED BY <1>1, IInvAlways, PTL

(* An enabled immediate channel is running, until some sound transfer has  *)
(* been pointed at the registers.                                          *)
THEOREM ImmediateNeverWaits == Spec => []ImmediateRuns
<1>1. IInv => ImmediateRuns
  BY DEF IInv
<1> QED BY <1>1, IInvAlways, PTL
=============================================================================
