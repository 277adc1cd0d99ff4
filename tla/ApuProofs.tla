----------------------------- MODULE ApuProofs -----------------------------
(***************************************************************************)
(* Proofs about the two ends of the APU.  First AudioQueue.tla, for every  *)
(* capacity of whole pairs, every numbering of the samples and every       *)
(* interleaving of the two threads; then Sound.tla, for every program and  *)
(* every set of channels that fill the FIFOs.                              *)
(***************************************************************************)
EXTENDS AudioQueue, Sound, TLAPS

LEMMA Capacity ==
    /\ BUFFER_SIZE \in Nat /\ BUFFER_SIZE > 1
    /\ Numbers \in Nat /\ Numbers > 1
BY AudioQueueAssumption

Counts == 0 .. BUFFER_SIZE

EmulatorFields == [at : {"idle", "put", "count"}, seen : Counts,
                   next : 0 .. Numbers - 1, kept : BOOLEAN]
PlayerFields   == [at : {"idle", "loop", "take", "count"}, seen : Counts,
                   chunk : Seq(0 .. Numbers - 1)]

(* A thread that has seen room, or a sample, is still right when it writes *)
(* the count: only the other thread writes in between, and it can only     *)
(* make more room, or add samples.                                         *)
PushHasRoom == Pushing => samples.elems_count < BUFFER_SIZE /\ emulator.seen < BUFFER_SIZE
PopHasOne   == Popping => samples.elems_count > 0 /\ player.seen > 0

CountInv == /\ CountInBounds
            /\ emulator \in EmulatorFields
            /\ player \in PlayerFields
            /\ PushHasRoom
            /\ PopHasOne

(* The invariant holds of the empty queue.                                 *)
LEMMA InitCount == Init => CountInv
  BY Capacity
  DEF Init, CountInv, CountInBounds, Samples!Queues, Samples!Empty, EmulatorFields,
      PlayerFields, Counts, PushHasRoom, PopHasOne, Pushing, Popping

(* The parts of Push and Pop keep the indices in the buffer.               *)
LEMMA PutInQueues ==
  ASSUME NEW q \in Samples!Queues, NEW v \in 0 .. Numbers - 1
  PROVE  /\ Samples!Put(q, v) \in Samples!Queues
         /\ Samples!Put(q, v).elems_count = q.elems_count
<1> DEFINE e == [q.elems EXCEPT ![q.endIndex] = v]
           i == Samples!Next(q.endIndex)
<1>1. /\ q.elems \in [0 .. BUFFER_SIZE - 1 -> 0 .. Numbers - 1]
      /\ q.endIndex \in 0 .. BUFFER_SIZE - 1
  BY DEF Samples!Queues
<1>2. e \in [0 .. BUFFER_SIZE - 1 -> 0 .. Numbers - 1]
  BY <1>1
<1>3. i \in 0 .. BUFFER_SIZE - 1
  BY <1>1, Capacity DEF Samples!Next
<1>4. Samples!Put(q, v) = [q EXCEPT !.elems = e, !.endIndex = i]
  BY DEF Samples!Put, Samples!Queues
<1> HIDE DEF e, i
<1> QED
  BY <1>2, <1>3, <1>4 DEF Samples!Queues

LEMMA TakeInQueues ==
  ASSUME NEW q \in Samples!Queues
  PROVE  /\ Samples!Take(q) \in Samples!Queues
         /\ Samples!Take(q).elems_count = q.elems_count
         /\ Samples!Front(q) \in 0 .. Numbers - 1
  BY Capacity DEF Samples!Take, Samples!Front, Samples!Queues, Samples!Next

LEMMA RecountInQueues ==
  ASSUME NEW q \in Samples!Queues, NEW n \in Counts
  PROVE  /\ Samples!Recount(q, n) \in Samples!Queues
         /\ Samples!Recount(q, n).elems_count = n
  BY DEF Samples!Recount, Samples!Queues, Counts

(* Every step of either thread keeps it.                                   *)
LEMMA StepCount == CountInv /\ [Next]_vars => CountInv'
<1> SUFFICES ASSUME CountInv, [Next]_vars PROVE CountInv'
  OBVIOUS
<1> USE Capacity
    DEF CountInv, CountInBounds, EmulatorFields, PlayerFields, PushHasRoom, PopHasOne
<1>0. samples.elems_count \in Counts
  BY DEF Samples!Queues, Counts
<1>e. << >> \in Seq(0 .. Numbers - 1)
  OBVIOUS
<1>1. ASSUME NEW b \in BOOLEAN
      PROVE  /\ Following(b) \in EmulatorFields
             /\ Following(b).at = "idle"
  <2>1. emulator.next \in Nat
    BY SMT
  <2>2. /\ (emulator.next + 1) % Numbers \in 0 .. Numbers - 1
        /\ 0 \in 0 .. Numbers - 1
    BY <2>1
  <2> DEFINE n == IF overlapped THEN 0 ELSE (emulator.next + 1) % Numbers
  <2>3. n \in 0 .. Numbers - 1
    BY <2>2
  <2>4. Following(b) = [emulator EXCEPT !.at = "idle", !.kept = b, !.next = n]
    BY DEF Following
  <2> HIDE DEF n
  <2> QED
    BY <2>3, <2>4
<1>2. CASE PushDropped
  BY <1>1, <1>2 DEF PushDropped, Pushing, Popping
<1>3. CASE PushBegins
  <2>1. samples.elems_count < BUFFER_SIZE
    BY <1>0, <1>3 DEF PushBegins, Samples!IsFull, Counts
  <2>2. emulator' = [emulator EXCEPT !.at = "put", !.seen = samples.elems_count]
    BY <1>3 DEF PushBegins
  <2>3. emulator' \in EmulatorFields /\ emulator'.seen = samples.elems_count
    BY <1>0, <2>2
  <2> QED
    BY <1>3, <2>1, <2>3 DEF PushBegins, Pushing, Popping
<1>4. CASE PushPuts
  BY <1>4, PutInQueues DEF PushPuts, Pushing, Popping
<1>5. CASE PushLooksAgain
  BY <1>0, <1>5 DEF PushLooksAgain, Pushing, Popping, Counts
<1>6. CASE PushCounts
  <2>1. emulator.seen + 1 \in Counts /\ emulator.seen + 1 > 0
    BY <1>6 DEF PushCounts, Pushing, Counts
  <2> QED
    BY <1>1, <1>6, <2>1, RecountInQueues DEF PushCounts, Pushing, Popping
<1>7. CASE PlaySilence
  BY <1>7, <1>e DEF PlaySilence, Pushing, Popping
<1>8. CASE ChunkBegins
  BY <1>8, <1>e DEF ChunkBegins, Pushing, Popping
<1>9. CASE PopBegins
  <2>1. samples.elems_count > 0
    BY <1>0, <1>9 DEF PopBegins, Samples!IsEmpty, Counts
  <2>2. player' = [player EXCEPT !.at = "take", !.seen = samples.elems_count]
    BY <1>9 DEF PopBegins
  <2>3. player' \in PlayerFields /\ player'.seen = samples.elems_count
    BY <1>0, <2>2
  <2> QED
    BY <1>9, <2>1, <2>3 DEF PopBegins, Pushing, Popping
<1>10. CASE PopTakes
  <2>0. player.chunk \in Seq(0 .. Numbers - 1)
    OBVIOUS
  <2>1. Append(player.chunk, Samples!Front(samples)) \in Seq(0 .. Numbers - 1)
    <3>1. Samples!Front(samples) \in 0 .. Numbers - 1
      BY TakeInQueues
    <3> QED
      BY <2>0, <3>1
  <2> DEFINE longer == Append(player.chunk, Samples!Front(samples))
  <2>2. player' = [player EXCEPT !.at = "count", !.chunk = longer]
    BY <1>10 DEF PopTakes
  <2>3. samples' \in Samples!Queues /\ samples'.elems_count = samples.elems_count
    BY <1>10, TakeInQueues DEF PopTakes
  <2> HIDE DEF longer
  <2>4. /\ player' \in PlayerFields
        /\ player'.seen = player.seen
    BY <2>1, <2>2 DEF longer
  <2>5. samples.elems_count > 0 /\ player.seen > 0
    BY <1>10 DEF PopTakes, Popping
  <2> QED
    BY <1>10, <2>3, <2>4, <2>5 DEF PopTakes, Pushing
<1>11. CASE PopLooksAgain
  BY <1>0, <1>11 DEF PopLooksAgain, Pushing, Popping, Counts
<1>12. CASE PopCounts
  <2>1. player.seen - 1 \in Counts /\ player.seen - 1 < BUFFER_SIZE
    BY <1>12 DEF PopCounts, Popping, Counts
  <2> QED
    BY <1>12, <2>1, RecountInQueues DEF PopCounts, Pushing, Popping
<1>13. CASE ChunkEnds
  BY <1>13 DEF ChunkEnds, Pushing, Popping
<1>14. CASE UNCHANGED vars
  BY <1>14 DEF vars, Pushing, Popping
<1> QED
  BY <1>2, <1>3, <1>4, <1>5, <1>6, <1>7, <1>8, <1>9, <1>10, <1>11, <1>12, <1>13,
     <1>14 DEF Next, Emulator, Player

(* Lost updates of elems_count, by CircularQueue::Push and Pop in two      *)
(* threads, never take it below 0 or above the capacity.                   *)
THEOREM CountSafe == Spec => []CountInBounds
<1>1. CountInv => CountInBounds
  BY DEF CountInv
<1> QED
  BY InitCount, StepCount, <1>1, PTL DEF Spec
-----------------------------------------------------------------------------
(* The buffer as a ring: where the element k places behind the first is.   *)
Slot(start, k) == (start + k) % BUFFER_SIZE

LEMMA Remainder ==
    ASSUME NEW a \in Nat, NEW n \in Nat, n > 0, a < n
    PROVE  a % n = a /\ (a + n) % n = a
OBVIOUS

LEMMA SlotValue ==
    ASSUME NEW start \in 0 .. BUFFER_SIZE - 1, NEW k \in 0 .. BUFFER_SIZE
    PROVE  /\ Slot(start, k) \in 0 .. BUFFER_SIZE - 1
           /\ Slot(start, k) = IF start + k < BUFFER_SIZE THEN start + k
                               ELSE start + k - BUFFER_SIZE
<1>1. CASE start + k < BUFFER_SIZE
  BY <1>1, Remainder, Capacity DEF Slot
<1>2. CASE ~(start + k < BUFFER_SIZE)
  <2> DEFINE a == start + k - BUFFER_SIZE
  <2>1. a \in Nat /\ a < BUFFER_SIZE /\ start + k = a + BUFFER_SIZE
    BY <1>2, Capacity
  <2> HIDE DEF a
  <2>2. (a + BUFFER_SIZE) % BUFFER_SIZE = a
    BY <2>1, Remainder, Capacity
  <2> QED BY <1>2, <2>1, <2>2, Capacity DEF Slot, a
<1> QED BY <1>1, <1>2

\* Elements fewer than BUFFER_SIZE places apart share no slot.
LEMMA SlotsDistinct ==
    ASSUME NEW start \in 0 .. BUFFER_SIZE - 1, NEW j \in 0 .. BUFFER_SIZE - 1,
           NEW k \in 0 .. BUFFER_SIZE - 1, j < k
    PROVE  Slot(start, j) # Slot(start, k)
<1>1. j \in 0 .. BUFFER_SIZE /\ k \in 0 .. BUFFER_SIZE
  BY Capacity
<1> DEFINE a == Slot(start, j)
           b == Slot(start, k)
<1>2. /\ a = IF start + j < BUFFER_SIZE THEN start + j ELSE start + j - BUFFER_SIZE
      /\ b = IF start + k < BUFFER_SIZE THEN start + k ELSE start + k - BUFFER_SIZE
  BY <1>1, SlotValue
<1> HIDE DEF a, b
<1>3. a # b
  BY <1>2, Capacity
<1> QED BY <1>3 DEF a, b

LEMMA SlotMovesOn ==
    ASSUME NEW start \in 0 .. BUFFER_SIZE - 1, NEW k \in 0 .. BUFFER_SIZE - 1
    PROVE  /\ Samples!Next(start) \in 0 .. BUFFER_SIZE - 1
           /\ Samples!Next(Slot(start, k)) = Slot(start, k + 1)
           /\ Slot(Samples!Next(start), k) = Slot(start, k + 1)
<1>1. k + 1 \in 0 .. BUFFER_SIZE /\ k \in 0 .. BUFFER_SIZE
  BY Capacity
<1>2. Samples!Next(start) \in 0 .. BUFFER_SIZE - 1
  BY Capacity DEF Samples!Next
<1> DEFINE next == Samples!Next(start)
           a == Slot(start, k)
           b == Slot(start, k + 1)
           c == Slot(next, k)
<1>3. /\ a = IF start + k < BUFFER_SIZE THEN start + k ELSE start + k - BUFFER_SIZE
      /\ b = IF start + (k + 1) < BUFFER_SIZE THEN start + (k + 1)
            ELSE start + (k + 1) - BUFFER_SIZE
  BY <1>1, SlotValue
<1>4. c = IF next + k < BUFFER_SIZE THEN next + k ELSE next + k - BUFFER_SIZE
  BY <1>1, <1>2, SlotValue
<1>5. next = IF start + 1 = BUFFER_SIZE THEN 0 ELSE start + 1
  BY DEF Samples!Next
<1>6. Samples!Next(a) = IF a + 1 = BUFFER_SIZE THEN 0 ELSE a + 1
  BY DEF Samples!Next
<1> HIDE DEF a, b, c, next
<1>7. Samples!Next(a) = b
  BY <1>3, <1>6, Capacity
<1>8. c = b
  BY <1>3, <1>4, <1>5, Capacity
<1> QED BY <1>2, <1>7, <1>8 DEF a, b, c, next

\* The queue q holds the sequence w, whatever its count says.
Holds(q, w) ==
    /\ w \in Seq(0 .. Numbers - 1)
    /\ Len(w) <= BUFFER_SIZE
    /\ q.endIndex = Slot(q.startIndex, Len(w))
    /\ \A k \in 1 .. Len(w) : q.elems[Slot(q.startIndex, k - 1)] = w[k]

LEMMA PutHolds ==
    ASSUME NEW q \in Samples!Queues, NEW w, Holds(q, w), Len(w) < BUFFER_SIZE,
           NEW v \in 0 .. Numbers - 1
    PROVE  Holds(Samples!Put(q, v), Append(w, v))
<1> DEFINE p == Samples!Put(q, v)
           u == Append(w, v)
           n == Len(w)
<1>1. /\ q.startIndex \in 0 .. BUFFER_SIZE - 1 /\ q.endIndex \in 0 .. BUFFER_SIZE - 1
      /\ q.elems \in [0 .. BUFFER_SIZE - 1 -> 0 .. Numbers - 1]
      /\ w \in Seq(0 .. Numbers - 1) /\ n \in 0 .. BUFFER_SIZE - 1
      /\ q.endIndex = Slot(q.startIndex, n)
  BY Capacity DEF Samples!Queues, Holds
<1>2. /\ p.startIndex = q.startIndex
      /\ p.endIndex = Samples!Next(q.endIndex)
      /\ p.elems = [q.elems EXCEPT ![q.endIndex] = v]
  BY DEF Samples!Put, Samples!Queues
<1>3. /\ u \in Seq(0 .. Numbers - 1) /\ Len(u) = n + 1
      /\ \A k \in 1 .. n : u[k] = w[k]
      /\ u[n + 1] = v
  BY <1>1
<1> HIDE DEF p, u
<1>4. p.endIndex = Slot(p.startIndex, Len(u))
  BY <1>1, <1>2, <1>3, SlotMovesOn
<1>5. ASSUME NEW k \in 1 .. n + 1
      PROVE  p.elems[Slot(p.startIndex, k - 1)] = u[k]
  <2>1. k - 1 \in 0 .. BUFFER_SIZE - 1 /\ k - 1 \in 0 .. BUFFER_SIZE
    BY <1>1, Capacity
  <2>2. Slot(q.startIndex, k - 1) \in 0 .. BUFFER_SIZE - 1
    BY <1>1, <2>1, SlotValue
  <2>3. CASE k = n + 1
    <3>1. k - 1 = n
      BY <1>1, <2>3
    <3>2. Slot(p.startIndex, k - 1) = q.endIndex
      BY <1>1, <1>2, <3>1
    <3>3. p.elems[q.endIndex] = v
      BY <1>1, <1>2
    <3> QED BY <1>3, <2>3, <3>2, <3>3
  <2>4. CASE k # n + 1
    <3>1. k \in 1 .. n /\ k - 1 < n
      BY <1>1, <2>4
    <3>2. Slot(q.startIndex, k - 1) # q.endIndex
      BY <1>1, <2>1, <3>1, SlotsDistinct
    <3>3. p.elems[Slot(p.startIndex, k - 1)] = q.elems[Slot(q.startIndex, k - 1)]
      BY <1>1, <1>2, <2>2, <3>2
    <3> QED BY <1>3, <3>1, <3>3 DEF Holds
  <2> QED BY <2>3, <2>4
<1> QED BY <1>1, <1>3, <1>4, <1>5, Capacity DEF Holds, p, u

LEMMA TakeHolds ==
    ASSUME NEW q \in Samples!Queues, NEW w, Holds(q, w), Len(w) > 0
    PROVE  Holds(Samples!Take(q), Tail(w)) /\ Samples!Front(q) = w[1]
<1> DEFINE p == Samples!Take(q)
           u == Tail(w)
           n == Len(w)
<1>1. /\ q.startIndex \in 0 .. BUFFER_SIZE - 1
      /\ w \in Seq(0 .. Numbers - 1) /\ n \in 1 .. BUFFER_SIZE
      /\ q.endIndex = Slot(q.startIndex, n)
      /\ \A k \in 1 .. n : q.elems[Slot(q.startIndex, k - 1)] = w[k]
  BY Capacity DEF Samples!Queues, Holds
<1>2. /\ p.startIndex = Samples!Next(q.startIndex)
      /\ p.endIndex = q.endIndex
      /\ p.elems = q.elems
  BY DEF Samples!Take, Samples!Queues
<1>3. /\ u \in Seq(0 .. Numbers - 1) /\ Len(u) = n - 1
      /\ \A k \in 1 .. n - 1 : u[k] = w[k + 1]
  BY <1>1
<1>4. Slot(q.startIndex, 0) = q.startIndex
  <2>1. q.startIndex \in Nat /\ q.startIndex < BUFFER_SIZE
    BY <1>1, Capacity
  <2> HIDE DEF p, u, n
  <2> QED BY <2>1, Capacity DEF Slot
<1>5. Samples!Front(q) = w[1]
  BY <1>1, <1>4 DEF Samples!Front
<1> HIDE DEF p, u
<1>6. ASSUME NEW k \in 0 .. n - 1
      PROVE  Slot(p.startIndex, k) = Slot(q.startIndex, k + 1)
  <2>1. k \in 0 .. BUFFER_SIZE - 1
    BY <1>1, Capacity
  <2> QED BY <1>1, <1>2, <2>1, SlotMovesOn
<1>7. p.endIndex = Slot(p.startIndex, Len(u))
  BY <1>1, <1>2, <1>3, <1>6
<1>8. ASSUME NEW k \in 1 .. n - 1
      PROVE  p.elems[Slot(p.startIndex, k - 1)] = u[k]
  <2>1. Slot(p.startIndex, k - 1) = Slot(q.startIndex, k)
    BY <1>1, <1>6
  <2>2. k + 1 \in 1 .. n /\ (k + 1) - 1 = k
    BY <1>1
  <2> QED BY <1>1, <1>2, <1>3, <2>1, <2>2
<1> QED BY <1>1, <1>3, <1>5, <1>7, <1>8, Capacity DEF Holds, p, u
-----------------------------------------------------------------------------
(* Until a push and a pop overlap the threads take turns, each knows the   *)
(* count, and the queue holds what is waiting.                             *)
InHand == (IF emulator.at = "count" THEN 1 ELSE 0) - (IF player.at = "count" THEN 1 ELSE 0)

Orderly == /\ ~(Pushing /\ Popping)
           /\ Pushing => emulator.seen = samples.elems_count
           /\ Popping => player.seen = samples.elems_count
           /\ Holds(samples, waiting)
           /\ Len(waiting) = samples.elems_count + InHand

OrderInv == CountInv /\ (~overlapped => Orderly)

LEMMA InitOrder == Init => OrderInv
<1> SUFFICES ASSUME Init PROVE Orderly
  BY InitCount DEF OrderInv
<1>1. /\ emulator.at = "idle" /\ player.at = "idle" /\ waiting = << >>
      /\ samples.elems_count = 0 /\ samples.startIndex = 0 /\ samples.endIndex = 0
  BY DEF Init, Samples!Empty
<1>2. InHand = 0
  BY <1>1 DEF InHand
<1>3. Slot(0, 0) = 0
  BY SlotValue, Capacity
<1>4. Len(waiting) = 0 /\ waiting \in Seq(0 .. Numbers - 1)
  BY <1>1
<1>5. Holds(samples, waiting)
  BY <1>1, <1>3, <1>4, Capacity DEF Holds
<1> QED BY <1>1, <1>2, <1>4, <1>5 DEF Orderly, Pushing, Popping

\* The count is no part of what Holds looks at.
LEMMA RecountHolds ==
    ASSUME NEW q \in Samples!Queues, NEW w, Holds(q, w), NEW n \in Counts
    PROVE  Holds(Samples!Recount(q, n), w)
BY DEF Samples!Recount, Samples!Queues, Holds

LEMMA StepOrder == OrderInv /\ [Next]_vars => OrderInv'
<1> SUFFICES ASSUME OrderInv, [Next]_vars, ~overlapped' PROVE Orderly'
  BY StepCount DEF OrderInv
<1>0. CountInv /\ CountInv'
  BY StepCount DEF OrderInv
<1>1. ~overlapped
  BY DEF Next, Emulator, Player, PushDropped, PushBegins, PushPuts, PushLooksAgain,
         PushCounts, PlaySilence, ChunkBegins, ChunkEnds, PopBegins, PopTakes,
         PopLooksAgain, PopCounts, vars
<1>2. /\ ~(Pushing /\ Popping)
      /\ Pushing => emulator.seen = samples.elems_count
      /\ Popping => player.seen = samples.elems_count
      /\ Holds(samples, waiting)
      /\ Len(waiting) = samples.elems_count + InHand
  BY <1>1 DEF OrderInv, Orderly
<1>3. /\ samples \in Samples!Queues /\ samples.elems_count \in Counts
      /\ waiting \in Seq(0 .. Numbers - 1) /\ Len(waiting) \in Nat
      /\ emulator \in EmulatorFields /\ player \in PlayerFields
  BY <1>0, <1>2 DEF CountInv, CountInBounds, Samples!Queues, Counts, Holds
<1>4. \A kept \in BOOLEAN : Following(kept).at = "idle"
  BY <1>3 DEF Following, EmulatorFields
<1>5. CASE PushDropped
  <2>1. emulator.at = "idle" /\ emulator'.at = "idle"
    BY <1>4, <1>5 DEF PushDropped, Pushing
  <2>2. UNCHANGED <<samples, player, waiting>>
    BY <1>5 DEF PushDropped
  <2> QED BY <1>2, <2>1, <2>2 DEF Orderly, Pushing, Popping, InHand, Holds
<1>6. CASE PushBegins
  <2>1. /\ emulator.at = "idle" /\ emulator'.at = "put"
        /\ emulator'.seen = samples.elems_count
        /\ ~Popping /\ UNCHANGED <<samples, player, waiting>>
    BY <1>3, <1>6 DEF PushBegins, Pushing, EmulatorFields
  <2> QED BY <1>2, <2>1 DEF Orderly, Pushing, Popping, InHand, Holds
<1>7. CASE PushPuts
  <2>1. /\ emulator.at = "put" /\ emulator'.at = "count"
        /\ emulator'.seen = emulator.seen /\ emulator.next \in 0 .. Numbers - 1
        /\ samples' = Samples!Put(samples, emulator.next)
        /\ waiting' = Append(waiting, emulator.next)
        /\ UNCHANGED player
    BY <1>1, <1>3, <1>7 DEF PushPuts, EmulatorFields
  <2>2. ~Popping /\ player.at # "count"
    BY <1>2, <2>1 DEF Pushing, Popping
  <2>3. Len(waiting) = samples.elems_count /\ Len(waiting) < BUFFER_SIZE
    BY <1>0, <1>2, <1>3, <2>1, <2>2
       DEF InHand, CountInv, PushHasRoom, Pushing, Counts
  <2>4. /\ Holds(samples', waiting') /\ samples'.elems_count = samples.elems_count
        /\ Len(waiting') = Len(waiting) + 1
    BY <1>2, <1>3, <2>1, <2>3, PutHolds, PutInQueues
  <2>5. InHand' = 1
    BY <2>1, <2>2 DEF InHand
  <2> QED BY <1>2, <1>3, <2>1, <2>2, <2>3, <2>4, <2>5
          DEF Orderly, Pushing, Popping, Counts
<1>8. CASE PushLooksAgain
  BY <1>2, <1>8 DEF PushLooksAgain, Pushing
<1>9. CASE PushCounts
  <2>1. /\ emulator.at = "count" /\ emulator'.at = "idle"
        /\ samples' = Samples!Recount(samples, emulator.seen + 1)
        /\ player' = player /\ waiting' = waiting
    BY <1>4, <1>9 DEF PushCounts
  <2>2. ~Popping /\ player.at # "count"
    BY <1>2, <2>1 DEF Pushing, Popping
  <2>3. emulator.seen + 1 \in Counts /\ emulator.seen = samples.elems_count
    <3>1. emulator.seen = samples.elems_count /\ emulator.seen < BUFFER_SIZE
      BY <1>0, <1>2, <2>1 DEF CountInv, PushHasRoom, Pushing
    <3> QED BY <1>3, <3>1, Capacity DEF Counts
  <2>4. /\ Holds(samples', waiting') /\ samples'.elems_count = samples.elems_count + 1
    BY <1>2, <1>3, <2>1, <2>3, RecountHolds, RecountInQueues
  <2>5. InHand = 1
    BY <2>1, <2>2 DEF InHand
  <2>6. InHand' = 0
    <3>1. emulator'.at # "count" /\ player'.at # "count"
      BY <2>1, <2>2
    <3> QED BY <3>1 DEF InHand
  <2> QED BY <1>2, <1>3, <2>1, <2>2, <2>4, <2>5, <2>6 DEF Orderly, Pushing, Popping, Counts
<1>10. CASE PlaySilence \/ ChunkBegins \/ ChunkEnds
  <2>1. /\ player.at \in {"idle", "loop"} /\ player'.at \in {"idle", "loop"}
        /\ UNCHANGED <<samples, emulator, waiting>>
    BY <1>3, <1>10 DEF PlaySilence, ChunkBegins, ChunkEnds, PlayerFields
  <2> QED BY <1>2, <2>1 DEF Orderly, Pushing, Popping, InHand, Holds
<1>11. CASE PopBegins
  <2>1. /\ player.at = "loop" /\ player'.at = "take"
        /\ player'.seen = samples.elems_count
        /\ ~Pushing /\ UNCHANGED <<samples, emulator, waiting>>
    BY <1>3, <1>11 DEF PopBegins, PlayerFields
  <2> QED BY <1>2, <2>1 DEF Orderly, Pushing, Popping, InHand, Holds
<1>12. CASE PopTakes
  <2>1. /\ player.at = "take" /\ player'.at = "count"
        /\ player'.seen = player.seen
        /\ samples' = Samples!Take(samples)
        /\ waiting' = Tail(waiting)
        /\ UNCHANGED emulator
    BY <1>1, <1>3, <1>12 DEF PopTakes, PlayerFields
  <2>2. ~Pushing /\ emulator.at # "count"
    BY <1>2, <2>1 DEF Pushing, Popping
  <2>3. Len(waiting) = samples.elems_count /\ Len(waiting) > 0
    <3>1. InHand = 0 /\ samples.elems_count > 0
      BY <1>0, <2>1, <2>2 DEF InHand, CountInv, PopHasOne, Popping
    <3> HIDE DEF InHand
    <3> QED BY <1>2, <1>3, <3>1 DEF Counts
  <2>4. /\ Holds(samples', waiting') /\ samples'.elems_count = samples.elems_count
        /\ Len(waiting') = Len(waiting) - 1
    BY <1>2, <1>3, <2>1, <2>3, TakeHolds, TakeInQueues
  <2>5. InHand' = -1
    BY <2>1, <2>2 DEF InHand
  <2> QED BY <1>2, <1>3, <2>1, <2>2, <2>3, <2>4, <2>5
          DEF Orderly, Pushing, Popping, Counts
<1>13. CASE PopLooksAgain
  BY <1>2, <1>13 DEF PopLooksAgain, Popping
<1>14. CASE PopCounts
  <2>1. /\ player.at = "count" /\ player'.at = "loop"
        /\ samples' = Samples!Recount(samples, player.seen - 1)
        /\ UNCHANGED <<emulator, waiting>>
    BY <1>3, <1>14 DEF PopCounts, PlayerFields
  <2>2. ~Pushing /\ emulator.at # "count"
    BY <1>2, <2>1 DEF Pushing, Popping
  <2>3. player.seen - 1 \in Counts /\ player.seen = samples.elems_count
    <3>1. player.seen = samples.elems_count /\ player.seen > 0
      BY <1>0, <1>2, <2>1 DEF CountInv, PopHasOne, Popping
    <3> QED BY <1>3, <3>1, Capacity DEF Counts
  <2>4. Holds(samples', waiting') /\ samples'.elems_count = samples.elems_count - 1
    BY <1>2, <1>3, <2>1, <2>3, RecountHolds, RecountInQueues
  <2>5. InHand = -1 /\ InHand' = 0
    BY <2>1, <2>2 DEF InHand
  <2> QED BY <1>2, <1>3, <2>1, <2>2, <2>4, <2>5 DEF Orderly, Pushing, Popping, Counts
<1>15. CASE UNCHANGED vars
  BY <1>2, <1>15 DEF vars, Orderly, Pushing, Popping, InHand, Holds
<1> QED
  BY <1>5, <1>6, <1>7, <1>8, <1>9, <1>10, <1>11, <1>12, <1>13, <1>14, <1>15
     DEF Next, Emulator, Player

(* Until a push and a pop overlap, the queue holds the samples pushed and  *)
(* not yet popped, in order, whatever else the two threads do.             *)
THEOREM KeptInOrder == Spec => []InOrder
<1>1. OrderInv => InOrder
  <2> SUFFICES ASSUME OrderInv, ~overlapped, emulator.at # "count", player.at # "count"
               PROVE  Samples!Contents(samples) = waiting
    BY DEF InOrder
  <2>1. /\ waiting \in Seq(0 .. Numbers - 1)
        /\ Len(waiting) = samples.elems_count
        /\ \A k \in 1 .. Len(waiting) :
              samples.elems[Slot(samples.startIndex, k - 1)] = waiting[k]
    BY DEF OrderInv, Orderly, Holds, InHand, CountInv, CountInBounds, Samples!Queues
  <2>2. \A k \in 1 .. Len(waiting) :
           (samples.startIndex + k - 1) % BUFFER_SIZE = Slot(samples.startIndex, k - 1)
    <3>1. samples.startIndex \in Nat
      BY Capacity DEF OrderInv, CountInv, CountInBounds, Samples!Queues
    <3>2. ASSUME NEW k \in 1 .. Len(waiting)
          PROVE  samples.startIndex + k - 1 = samples.startIndex + (k - 1)
      BY <2>1, <3>1
    <3> QED BY <3>2 DEF Slot
  <2>3. waiting = [k \in 1 .. Len(waiting) |-> waiting[k]]
    BY <2>1
  <2> QED BY <2>1, <2>2, <2>3 DEF Samples!Contents
<1> QED BY InitOrder, StepOrder, <1>1, PTL DEF Spec
-----------------------------------------------------------------------------
(* A chunk under way can be completed: what it has and what is waiting are *)
(* a chunk at least.                                                       *)
LEMMA Halves == ChunkSize \in Nat /\ ChunkSize > 0 /\ ChunkSize % 2 = 0
BY AudioQueueAssumption DEF ChunkSize

Whole == player.at # "idle" =>
           /\ Len(player.chunk) <= ChunkSize
           /\ player.at = "take" => Len(player.chunk) < ChunkSize
           /\ Len(player.chunk) + samples.elems_count
                - (IF player.at = "count" THEN 1 ELSE 0) >= ChunkSize

WholeInv == OrderInv /\ (~overlapped => Whole)

LEMMA InitWhole == Init => WholeInv
BY InitOrder DEF Init, WholeInv, Whole

LEMMA StepWhole == WholeInv /\ [Next]_vars => WholeInv'
<1> SUFFICES ASSUME WholeInv, [Next]_vars, ~overlapped' PROVE Whole'
  BY StepOrder DEF WholeInv
<1>1. ~overlapped
  BY DEF Next, Emulator, Player, PushDropped, PushBegins, PushPuts, PushLooksAgain,
         PushCounts, PlaySilence, ChunkBegins, ChunkEnds, PopBegins, PopTakes,
         PopLooksAgain, PopCounts, vars
<1>2. OrderInv /\ Orderly /\ Whole /\ CountInv
  BY <1>1 DEF WholeInv, OrderInv
<1>3. /\ samples \in Samples!Queues /\ samples.elems_count \in Nat
      /\ emulator \in EmulatorFields /\ player \in PlayerFields
      /\ player.chunk \in Seq(0 .. Numbers - 1) /\ Len(player.chunk) \in Nat
  BY <1>2 DEF CountInv, CountInBounds, Samples!Queues, PlayerFields
<1>4. CASE PushDropped \/ PushBegins \/ PushLooksAgain
  <2>1. samples' = samples /\ player' = player
    BY <1>4 DEF PushDropped, PushBegins, PushLooksAgain
  <2> QED BY <1>2, <2>1 DEF Whole
<1>5. CASE PushPuts
  <2>1. samples'.elems_count = samples.elems_count /\ player' = player
    BY <1>3, <1>5, PutInQueues DEF PushPuts, EmulatorFields
  <2> QED BY <1>2, <2>1 DEF Whole
<1>6. CASE PushCounts
  <2>1. /\ samples' = Samples!Recount(samples, emulator.seen + 1)
        /\ emulator.seen = samples.elems_count /\ player' = player
    BY <1>2, <1>6 DEF PushCounts, Orderly, Pushing
  <2>2. samples'.elems_count = samples.elems_count + 1
    BY <1>3, <2>1 DEF Samples!Recount, Samples!Queues
  <2> QED BY <1>2, <1>3, <2>1, <2>2, Halves DEF Whole
<1>7. CASE PlaySilence \/ ChunkEnds
  <2>1. player'.at = "idle"
    BY <1>3, <1>7 DEF PlaySilence, ChunkEnds, PlayerFields
  <2> QED BY <2>1 DEF Whole
<1>8. CASE ChunkBegins
  <2>1. /\ player'.at = "loop" /\ player'.chunk = << >>
        /\ samples' = samples /\ samples.elems_count >= ChunkSize
    BY <1>3, <1>8 DEF ChunkBegins, PlayerFields
  <2>2. Len(player'.chunk) = 0
    BY <2>1
  <2> QED BY <1>3, <2>1, <2>2, Halves DEF Whole
<1>9. CASE PopBegins
  <2>1. /\ player.at = "loop" /\ player'.at = "take" /\ player'.chunk = player.chunk
        /\ samples' = samples /\ Len(player.chunk) < ChunkSize
    BY <1>3, <1>9 DEF PopBegins, PlayerFields
  <2> QED BY <1>2, <1>3, <2>1, Halves DEF Whole
<1>10. CASE PopTakes
  <2>1. /\ player.at = "take" /\ player'.at = "count"
        /\ player'.chunk = Append(player.chunk, Samples!Front(samples))
        /\ samples' = Samples!Take(samples)
    BY <1>3, <1>10 DEF PopTakes, PlayerFields
  <2>2. /\ samples'.elems_count = samples.elems_count
        /\ Len(player'.chunk) = Len(player.chunk) + 1
    BY <1>3, <2>1, TakeInQueues
  <2> QED BY <1>2, <1>3, <2>1, <2>2, Halves DEF Whole
<1>11. CASE PopLooksAgain
  BY <1>2, <1>11 DEF PopLooksAgain, Orderly, Popping
<1>12. CASE PopCounts
  <2>1. /\ player.at = "count" /\ player'.at = "loop" /\ player'.chunk = player.chunk
        /\ samples' = Samples!Recount(samples, player.seen - 1)
        /\ player.seen = samples.elems_count
    BY <1>2, <1>3, <1>12 DEF PopCounts, PlayerFields, Orderly, Popping
  <2>2. samples'.elems_count = samples.elems_count - 1
    BY <1>3, <2>1 DEF Samples!Recount, Samples!Queues
  <2> QED BY <1>2, <1>3, <2>1, <2>2, Halves DEF Whole
<1>13. CASE UNCHANGED vars
  BY <1>2, <1>13 DEF vars, Whole
<1> QED
  BY <1>4, <1>5, <1>6, <1>7, <1>8, <1>9, <1>10, <1>11, <1>12, <1>13
     DEF Next, Emulator, Player

THEOREM WholeHolds == Spec => []WholeInv
BY InitWhole, StepWhole, PTL DEF Spec

LEMMA EndsWhole == WholeInv /\ ChunkEnds => overlapped \/ Len(player.chunk) = ChunkSize
<1> SUFFICES ASSUME WholeInv, ChunkEnds, ~overlapped
             PROVE  Len(player.chunk) = ChunkSize
  OBVIOUS
<1>1. /\ player.at = "loop" /\ Len(player.chunk) \in Nat
      /\ samples.elems_count \in Nat
      /\ samples.elems_count = 0 \/ Len(player.chunk) >= ChunkSize
  BY DEF ChunkEnds, WholeInv, OrderInv, CountInv, CountInBounds, PlayerFields,
         Samples!Queues, Samples!IsEmpty
<1>2. /\ Len(player.chunk) <= ChunkSize
      /\ Len(player.chunk) + samples.elems_count >= ChunkSize
  BY <1>1 DEF WholeInv, Whole
<1> QED BY <1>1, <1>2, Halves

(* Until a push and a pop overlap, no chunk is played before it is whole:  *)
(* the samples left in buffer from an earlier one are not heard again.     *)
THEOREM ChunksPlayedWhole == Spec => ChunksWhole
<1>1. WholeInv /\ [Next]_vars =>
        [ChunkEnds => overlapped \/ Len(player.chunk) = ChunkSize]_vars
  BY EndsWhole
<1> QED BY <1>1, WholeHolds, PTL DEF Spec, ChunksWhole
-----------------------------------------------------------------------------
(* Left and right: what has been popped into the chunk and what is waiting *)
(* alternate, but for a right sample that has just been put without its    *)
(* left one, and the next sample to be put is the one whose turn it is.    *)
Unpaired == emulator.at = "count" /\ emulator.next % 2 = 1 /\ ~emulator.kept

Put == Len(player.chunk) + Len(waiting) - (IF emulator.at = "count" THEN 1 ELSE 0)

Alternate == \A k \in 1 .. Len(waiting) :
                \/ waiting[k] % 2 = (Len(player.chunk) + k - 1) % 2
                \/ Unpaired /\ k = Len(waiting)

InTurn == Put % 2 = IF emulator.next % 2 = 1 /\ emulator.kept THEN 1 ELSE 0

Sided == /\ \A k \in 1 .. Len(player.chunk) : player.chunk[k] % 2 = (k - 1) % 2
         /\ player.at = "idle" => Len(player.chunk) % 2 = 0
         /\ Alternate
         /\ InTurn

SidesInv == WholeInv /\ (~overlapped /\ ~split => Sided)

LEMMA Parity ==
    ASSUME NEW n \in Nat
    PROVE  /\ n % 2 \in {0, 1}
           /\ (n + 1) % 2 = 1 - (n % 2)
OBVIOUS

LEMMA Element ==
    ASSUME NEW S, NEW s \in Seq(S), NEW k \in 1 .. Len(s)
    PROVE  s[k] \in S
OBVIOUS

LEMMA EvenSum ==
    ASSUME NEW m \in Nat, NEW n \in Nat, m % 2 = 0
    PROVE  (m + n) % 2 = n % 2
OBVIOUS

\* The numbers of the samples alternate, also where they start again.
LEMMA NextSide ==
    ASSUME NEW n \in 0 .. Numbers - 1
    PROVE  /\ (n + 1) % Numbers \in Nat
           /\ ((n + 1) % Numbers) % 2 = 1 - (n % 2)
<1>1. CASE n + 1 < Numbers
  <2>1. (n + 1) % Numbers = n + 1
    BY <1>1, Remainder, Capacity
  <2> QED BY <2>1, Parity, Capacity
<1>2. CASE n + 1 = Numbers
  <2>1. (0 + Numbers) % Numbers = 0
    BY Remainder, Capacity
  <2>2. (n + 1) % Numbers = 0
    BY <1>2, <2>1, Capacity
  <2>3. n % 2 = 1
    BY <1>2, AudioQueueAssumption
  <2> QED BY <2>2, <2>3
<1> QED BY <1>1, <1>2, Capacity

LEMMA InitSides == Init => SidesInv
<1> SUFFICES ASSUME Init PROVE Sided
  BY InitWhole DEF SidesInv
<1>1. /\ emulator.at = "idle" /\ emulator.next = 0
      /\ player.chunk = << >> /\ waiting = << >>
  BY DEF Init
<1>2. Len(player.chunk) = 0 /\ Len(waiting) = 0
  BY <1>1
<1>3. Put = 0
  BY <1>1, <1>2 DEF Put
<1> QED BY <1>1, <1>2, <1>3 DEF Sided, Alternate, InTurn

LEMMA StepSides == SidesInv /\ [Next]_vars => SidesInv'
<1> SUFFICES ASSUME SidesInv, [Next]_vars, ~overlapped', ~split' PROVE Sided'
  BY StepWhole DEF SidesInv
<1>1. ~overlapped /\ ~split
  <2>1. ~overlapped
    BY DEF Next, Emulator, Player, PushDropped, PushBegins, PushPuts, PushLooksAgain,
           PushCounts, PlaySilence, ChunkBegins, ChunkEnds, PopBegins, PopTakes,
           PopLooksAgain, PopCounts, vars
  <2>2. ~split
    <3>1. CASE PushDropped \/ PushCounts
      BY <3>1 DEF PushDropped, PushCounts, Splits
    <3>2. CASE ~(PushDropped \/ PushCounts)
      <4>1. split' = split
        BY <3>2 DEF Next, Emulator, Player, PushBegins, PushPuts, PushLooksAgain,
               PlaySilence, ChunkBegins, ChunkEnds, PopBegins, PopTakes,
               PopLooksAgain, PopCounts, vars
      <4> QED BY <4>1
    <3> QED BY <3>1, <3>2
  <2> QED BY <2>1, <2>2
<1>2. /\ OrderInv /\ Orderly /\ CountInv /\ WholeInv
      /\ \A k \in 1 .. Len(player.chunk) : player.chunk[k] % 2 = (k - 1) % 2
      /\ player.at = "idle" => Len(player.chunk) % 2 = 0
      /\ Alternate /\ InTurn
  BY <1>1 DEF SidesInv, Sided, WholeInv, OrderInv
<1>3. /\ samples \in Samples!Queues
      /\ emulator \in EmulatorFields /\ player \in PlayerFields
      /\ player.chunk \in Seq(0 .. Numbers - 1) /\ Len(player.chunk) \in Nat
      /\ waiting \in Seq(0 .. Numbers - 1) /\ Len(waiting) \in Nat
      /\ emulator.next \in 0 .. Numbers - 1 /\ emulator.kept \in BOOLEAN
      /\ emulator.next \in Nat
  BY <1>2, Capacity
     DEF CountInv, CountInBounds, PlayerFields, EmulatorFields, Orderly, Holds
\* Where a sample is done with, kept or dropped.
<1>4. ASSUME NEW kept \in BOOLEAN, emulator' = Following(kept)
      PROVE  /\ emulator'.at = "idle" /\ emulator'.kept = kept
             /\ emulator'.next % 2 = 1 - (emulator.next % 2)
  <2>1. Following(kept) = [emulator EXCEPT !.at = "idle", !.kept = kept,
                                           !.next = (emulator.next + 1) % Numbers]
    BY <1>1, <1>3 DEF Following, EmulatorFields
  <2>2. emulator'.next = (emulator.next + 1) % Numbers
    BY <1>3, <1>4, <2>1 DEF EmulatorFields
  <2>3. emulator'.at = "idle" /\ emulator'.kept = kept
    BY <1>3, <1>4, <2>1 DEF EmulatorFields
  <2> QED BY <1>3, <2>2, <2>3, NextSide
<1>5. CASE PushDropped
  <2>1. /\ emulator.at = "idle" /\ player' = player /\ waiting' = waiting
        /\ emulator' = Following(FALSE)
        /\ emulator.next % 2 = 1 => ~emulator.kept
    BY <1>1, <1>3, <1>5 DEF PushDropped, Pushing, Splits
  <2>2. /\ emulator'.at = "idle" /\ emulator'.kept = FALSE
    BY <1>4, <2>1
  <2>3. Put' = Put /\ ~Unpaired
    BY <2>1, <2>2 DEF Put, Unpaired
  <2>4. InTurn' /\ Alternate'
    BY <1>2, <2>1, <2>2, <2>3 DEF InTurn, Alternate
  <2> QED BY <1>2, <2>1, <2>4 DEF Sided
<1>6. CASE PushBegins \/ PushLooksAgain
  <2>1. /\ player' = player /\ waiting' = waiting
        /\ emulator'.next = emulator.next /\ emulator'.kept = emulator.kept
        /\ \/ emulator'.at = emulator.at
           \/ emulator.at = "idle" /\ emulator'.at = "put"
    BY <1>1, <1>3, <1>6 DEF PushBegins, PushLooksAgain, Pushing, EmulatorFields
  <2>2. Put' = Put /\ (Unpaired <=> Unpaired')
    BY <2>1 DEF Put, Unpaired
  <2>3. InTurn' /\ Alternate'
    BY <1>2, <2>1, <2>2 DEF InTurn, Alternate
  <2> QED BY <1>2, <2>1, <2>3 DEF Sided
<1>7. CASE PushPuts
  <2>1. /\ emulator.at = "put" /\ emulator'.at = "count" /\ player' = player
        /\ emulator'.next = emulator.next /\ emulator'.kept = emulator.kept
        /\ waiting' = Append(waiting, emulator.next)
    BY <1>1, <1>3, <1>7 DEF PushPuts, EmulatorFields
  <2> DEFINE n == Len(waiting)
  <2>0. n \in Nat
    BY <1>3
  <2>2. /\ Len(waiting') = n + 1 /\ waiting'[n + 1] = emulator.next
        /\ \A k \in 1 .. n : waiting'[k] = waiting[k]
    BY <1>3, <2>1
  <2>3. Put = Len(player.chunk) + n /\ Put' = Put
    BY <1>3, <2>1, <2>2 DEF Put
  <2>4. InTurn'
    BY <1>2, <2>1, <2>3 DEF InTurn
  <2>5. ~Unpaired
    BY <2>1 DEF Unpaired
  <2>6. ASSUME NEW k \in 1 .. n
        PROVE  waiting'[k] % 2 = (Len(player.chunk) + k - 1) % 2
    BY <1>2, <2>2, <2>5 DEF Alternate
  <2>7. \/ waiting'[n + 1] % 2 = (Len(player.chunk) + (n + 1) - 1) % 2
        \/ Unpaired'
    <3>1. Len(player.chunk) + (n + 1) - 1 = Put
      BY <1>3, <2>3
    <3>2. emulator.next % 2 \in {0, 1}
      BY <1>3, Parity
    <3> QED BY <1>2, <1>3, <2>1, <2>2, <3>1, <3>2 DEF InTurn, Unpaired
  <2>8. Alternate'
    <3> HIDE DEF n
    <3>1. SUFFICES ASSUME NEW k \in 1 .. n + 1
                   PROVE  \/ waiting'[k] % 2 = (Len(player'.chunk) + k - 1) % 2
                          \/ Unpaired' /\ k = n + 1
      BY <2>2 DEF Alternate
    <3>2. k \in 1 .. n \/ k = n + 1
      BY <2>0
    <3> QED BY <2>1, <2>6, <2>7, <3>2
  <2> QED BY <1>2, <2>1, <2>4, <2>8 DEF Sided
<1>8. CASE PushCounts
  <2>1. /\ emulator.at = "count" /\ player' = player /\ waiting' = waiting
        /\ emulator' = Following(TRUE)
        /\ emulator.next % 2 = 1 => emulator.kept
    BY <1>1, <1>3, <1>8 DEF PushCounts, Splits
  <2>2. /\ emulator'.at = "idle" /\ emulator'.kept = TRUE
        /\ emulator'.next % 2 = 1 - (emulator.next % 2)
    BY <1>4, <2>1
  <2>3. emulator.next % 2 \in {0, 1}
    BY <1>3, Parity
  <2>4. Put' = Put + 1 /\ Put \in Nat
    <3>1. InHand = 1
      <4>1. player.at # "count"
        BY <1>2, <2>1 DEF Orderly, Pushing, Popping
      <4> QED BY <2>1, <4>1 DEF InHand
    <3>2. Len(waiting) > 0
      BY <1>2, <1>3, <3>1 DEF Orderly, Samples!Queues
    <3>3. Put = Len(player.chunk) + Len(waiting) - 1
      BY <2>1 DEF Put
    <3>4. Put' = Len(player.chunk) + Len(waiting) - 0
      <4>1. emulator'.at # "count"
        BY <2>2
      <4> QED BY <2>1, <4>1 DEF Put
    <3> HIDE DEF Put
    <3> QED BY <1>3, <3>2, <3>3, <3>4
  <2>5. (Put + 1) % 2 = 1 - (Put % 2)
    BY <2>4, Parity
  <2>6. InTurn'
    <3>1. Put % 2 = IF emulator.next % 2 = 1 THEN 1 ELSE 0
      BY <1>2, <2>1 DEF InTurn
    <3> DEFINE a == emulator.next % 2
               b == emulator'.next % 2
               p == Put % 2
               r == Put' % 2
    <3>0. b = 1 - a
      BY <2>2
    <3>3. a \in {0, 1}
      BY <2>3
    <3>4. r = 1 - p
      <4>1. r = (Put + 1) % 2
        BY <2>4
      <4> QED BY <2>5, <4>1
    <3>5. p = IF a = 1 THEN 1 ELSE 0
      BY <3>1
    <3>2. Put' % 2 = IF b = 1 THEN 1 ELSE 0
      <4> HIDE DEF a, b, p, r
      <4>1. r = IF b = 1 THEN 1 ELSE 0
        BY <3>0, <3>3, <3>4, <3>5
      <4> QED BY <4>1 DEF b, r
    <3> QED BY <2>2, <3>2 DEF InTurn
  <2>7. ~Unpaired
    BY <2>1 DEF Unpaired
  <2>8. Alternate'
    BY <1>2, <2>1, <2>7 DEF Alternate
  <2> QED BY <1>2, <2>1, <2>6, <2>8 DEF Sided
\* A chunk begins where one of whole pairs has ended.
<1>9. CASE PlaySilence \/ ChunkBegins
  <2>1. /\ player.at = "idle" /\ player'.chunk = << >>
        /\ emulator' = emulator /\ waiting' = waiting
    BY <1>3, <1>9 DEF PlaySilence, ChunkBegins, PlayerFields
  <2>2. Len(player'.chunk) = 0 /\ Len(player.chunk) % 2 = 0
    BY <1>2, <2>1
  <2>3. ASSUME NEW n \in Nat PROVE (Len(player.chunk) + n) % 2 = n % 2
    BY <1>3, <2>2, EvenSum
  <2>4. emulator.at = "count" => Len(waiting) > 0
    BY <1>2, <1>3, <2>1 DEF Orderly, InHand, Samples!Queues
  <2>5. Put' \in Nat /\ Put = Len(player.chunk) + Put'
    BY <1>3, <2>1, <2>2, <2>4 DEF Put
  <2>6. InTurn'
    BY <1>2, <2>1, <2>3, <2>5 DEF InTurn
  <2>7. Alternate'
    <3>1. Unpaired' <=> Unpaired
      BY <2>1 DEF Unpaired
    <3>2. ASSUME NEW k \in 1 .. Len(waiting)
          PROVE  (Len(player.chunk) + k - 1) % 2 = (Len(player'.chunk) + k - 1) % 2
      <4>1. /\ k - 1 \in Nat /\ Len(player.chunk) + k - 1 = Len(player.chunk) + (k - 1)
            /\ Len(player'.chunk) + k - 1 = k - 1
        BY <1>3, <2>2
      <4> QED BY <2>3, <4>1
    <3> QED BY <1>2, <2>1, <3>1, <3>2 DEF Alternate
  <2> QED BY <2>2, <2>6, <2>7 DEF Sided
<1>10. CASE ChunkEnds
  <2>1. Len(player.chunk) % 2 = 0
    BY <1>1, <1>2, <1>10, EndsWhole, Halves
  <2>2. player'.chunk = player.chunk /\ emulator' = emulator /\ waiting' = waiting
    BY <1>3, <1>10 DEF ChunkEnds, PlayerFields
  <2> QED BY <1>2, <2>1, <2>2 DEF Sided, Alternate, InTurn, Put, Unpaired
<1>11. CASE PopBegins \/ PopLooksAgain \/ PopCounts
  <2>1. /\ player'.chunk = player.chunk /\ emulator' = emulator /\ waiting' = waiting
        /\ player'.at # "idle"
    BY <1>1, <1>3, <1>11 DEF PopBegins, PopLooksAgain, PopCounts, PlayerFields
  <2> QED BY <1>2, <2>1 DEF Sided, Alternate, InTurn, Put, Unpaired
<1>12. CASE PopTakes
  <2>1. /\ player.at = "take" /\ player'.at = "count"
        /\ player'.chunk = Append(player.chunk, Samples!Front(samples))
        /\ waiting' = Tail(waiting) /\ emulator' = emulator
    BY <1>1, <1>3, <1>12 DEF PopTakes, PlayerFields
  <2>2. emulator.at = "idle"
    BY <1>2, <2>1 DEF Orderly, Pushing, Popping
  <2> DEFINE n == Len(waiting)
             c == Len(player.chunk)
  <2>0. n \in Nat /\ c \in Nat
    BY <1>3
  <2>3. n > 0
    <3>1. InHand = 0
      BY <2>1, <2>2 DEF InHand
    <3> QED BY <1>2, <1>3, <2>1, <3>1 DEF Orderly, CountInv, PopHasOne, Popping,
                                          Samples!Queues
  <2>4. Samples!Front(samples) = waiting[1]
    BY <1>2, <1>3, <2>3, TakeHolds DEF Orderly
  <2>5. /\ Len(waiting') = n - 1
        /\ \A k \in 1 .. n - 1 : waiting'[k] = waiting[k + 1]
        /\ Len(player'.chunk) = c + 1 /\ player'.chunk[c + 1] = waiting[1]
        /\ \A k \in 1 .. c : player'.chunk[k] = player.chunk[k]
    <3>1. 1 \in 1 .. Len(waiting)
      BY <1>3, <2>3
    <3>2. waiting[1] \in 0 .. Numbers - 1
      BY <1>3, <3>1, Element
    <3>3. Len(waiting') = n - 1 /\ \A k \in 1 .. n - 1 : waiting'[k] = waiting[k + 1]
      BY <1>3, <2>1, <2>3
    <3>4. /\ Len(player'.chunk) = c + 1 /\ player'.chunk[c + 1] = waiting[1]
          /\ \A k \in 1 .. c : player'.chunk[k] = player.chunk[k]
      BY <1>3, <2>1, <2>4, <3>2
    <3> QED BY <3>3, <3>4
  <2>6. ~Unpaired /\ ~Unpaired'
    BY <2>1, <2>2 DEF Unpaired
  <2>7. \A k \in 1 .. n : waiting[k] % 2 = (c + k - 1) % 2
    BY <1>2, <2>6 DEF Alternate
  <2>11. Put' = Put
    <3>1. Put = c + n - 0
      BY <2>2 DEF Put
    <3>2. Put' = (c + 1) + (n - 1) - 0
      BY <2>1, <2>2, <2>5 DEF Put
    <3> HIDE DEF Put, c, n
    <3> QED BY <2>0, <3>1, <3>2
  <2> HIDE DEF n, c
  <2>8. \A k \in 1 .. c + 1 : player'.chunk[k] % 2 = (k - 1) % 2
    <3>1. waiting[1] % 2 = ((c + 1) - 1) % 2
      <4>1. 1 \in 1 .. n
        BY <2>0, <2>3
      <4> QED BY <2>0, <2>7, <4>1
    <3>2. ASSUME NEW k \in 1 .. c + 1 PROVE player'.chunk[k] % 2 = (k - 1) % 2
      <4>1. CASE k = c + 1
        BY <2>5, <3>1, <4>1
      <4>2. CASE k # c + 1
        <5>1. k \in 1 .. c
          BY <2>0, <4>2
        <5> QED BY <1>2, <2>5, <5>1 DEF c
      <4> QED BY <4>1, <4>2
    <3> QED BY <3>2
  <2>9. ASSUME NEW k \in 1 .. n - 1
        PROVE  waiting'[k] % 2 = ((c + 1) + (k - 1)) % 2
    <3>1. k + 1 \in 1 .. n /\ c + ((k + 1) - 1) = (c + 1) + (k - 1)
      BY <2>0
    <3> DEFINE place == c + ((k + 1) - 1)
               moved == (c + 1) + (k - 1)
    <3>2. waiting[k + 1] % 2 = place % 2
      BY <2>7, <3>1
    <3>3. place = moved
      BY <3>1
    <3>4. waiting'[k] = waiting[k + 1]
      BY <2>5
    <3> HIDE DEF place, moved
    <3>5. waiting'[k] % 2 = moved % 2
      BY <3>2, <3>3, <3>4
    <3> QED BY <3>5 DEF moved
  <2>10. Alternate'
    BY <2>5, <2>9 DEF Alternate
  <2>12. InTurn'
    BY <1>2, <2>1, <2>11 DEF InTurn
  <2> QED BY <2>1, <2>5, <2>8, <2>10, <2>12 DEF Sided
<1>13. CASE UNCHANGED vars
  BY <1>2, <1>13 DEF vars, Sided, Alternate, InTurn, Put, Unpaired
<1> QED
  BY <1>5, <1>6, <1>7, <1>8, <1>9, <1>10, <1>11, <1>12, <1>13
     DEF Next, Emulator, Player

(* Until a push and a pop overlap or one sample of a pair alone is         *)
(* dropped, the left samples of a chunk are at its left places.            *)
THEOREM SidesStayApart == Spec => []SidesKept
<1>1. SidesInv => SidesKept
  <2> SUFFICES ASSUME SidesInv, ~overlapped, ~split
               PROVE  \A k \in DOMAIN player.chunk : player.chunk[k] % 2 = (k - 1) % 2
    BY DEF SidesKept
  <2>1. DOMAIN player.chunk = 1 .. Len(player.chunk)
    BY DEF SidesInv, WholeInv, OrderInv, CountInv, PlayerFields
  <2> QED BY <2>1 DEF SidesInv, Sided
<1> QED BY InitSides, StepSides, <1>1, PTL DEF Spec
-----------------------------------------------------------------------------
(* The other end of the APU: the FIFOs and the channels that fill them,    *)
(* Sound.tla, for every set of channels, every program, and every value of *)
(* the constants but the capacity of a FIFO, which is twice what a sound   *)
(* transfer brings.                                                        *)

\* What is proved about the channels on their own.
DP == INSTANCE DMAProofs WITH storing <- FALSE, ppuDue <- (pass = "timers"),
                              period <- "none", soundHit <- FALSE

(* The channels of Sound.tla are the channels of those proofs.             *)
LEMMA SameAssumption == DP!DMAAssumption
BY ChannelsAssumption DEF Dma!DMAAssumption, DP!DMAAssumption, Dma!Controls, DP!Controls,
       Dma!Timings, DP!Timings

LEMMA SamePowerOn == Dma!PowerOn = DP!PowerOn
BY DEF Dma!PowerOn, DP!PowerOn, Dma!Idle, DP!Idle, Dma!NoRegisters,
       DP!NoRegisters, Dma!Off, DP!Off

LEMMA SameConcerned ==
    \A d, event : Dma!Concerned(d, event) = DP!Concerned(d, event)
BY DEF Dma!Concerned, DP!Concerned, Dma!FifoAddress, DP!FifoAddress

LEMMA SameEvents ==
    \A d, event, start :
        Dma!EventCallback(d, event, start) = DP!EventCallback(d, event, start)
BY SameConcerned DEF Dma!EventCallback, DP!EventCallback

LEMMA SameReloads ==
    \A h, r, c : /\ Dma!ReloadSAD(h, r, c) = DP!ReloadSAD(h, r, c)
                 /\ Dma!ReloadDAD(h, r, c) = DP!ReloadDAD(h, r, c)
                 /\ Dma!ReloadWordCount(h, r, c) = DP!ReloadWordCount(h, r, c)
BY DEF Dma!ReloadSAD, DP!ReloadSAD, Dma!ReloadDAD, DP!ReloadDAD,
       Dma!ReloadWordCount, DP!ReloadWordCount

LEMMA SameRebase == \A h : Dma!Rebase(h) = DP!Rebase(h)
BY DEF Dma!Rebase, DP!Rebase

LEMMA SameStep == \A ctl, size : Dma!TransferStep(ctl, size) = DP!TransferStep(ctl, size)
BY DEF Dma!TransferStep, DP!TransferStep

LEMMA SameStrayed == \A h, control : Dma!Strayed(h, control) = DP!Strayed(h, control)
BY DEF Dma!Strayed, DP!Strayed

LEMMA SameUpdate ==
    \A h, r, c, control :
        Dma!UpdateDetails(h, r, c, control) = DP!UpdateDetails(h, r, c, control)
<1> TAKE h, r, c, control
<1> DEFINE Updated(y, s, t) == [h EXCEPT !.cnt = control,
                                         !.active = @ /\ control.enable, !.strayed = y,
                                         !.srcStep = s, !.destStep = t]
           f == Updated(Dma!Strayed(h, control),
                        Dma!TransferStep(control.srcCtl, control.size),
                        Dma!TransferStep(control.destCtl, control.size))
           g == Updated(DP!Strayed(h, control),
                        DP!TransferStep(control.srcCtl, control.size),
                        DP!TransferStep(control.destCtl, control.size))
           fresh == control.enable /\ ~h.cnt.enable
<1>1. Dma!UpdateDetails(h, r, c, control) =
        IF fresh THEN Dma!ReloadWordCount(Dma!ReloadDAD(Dma!ReloadSAD(f, r, c),
                                                            r, c), r, c)
        ELSE Dma!Rebase(f)
  BY DEF Dma!UpdateDetails
<1>2. DP!UpdateDetails(h, r, c, control) =
        IF fresh THEN DP!ReloadWordCount(DP!ReloadDAD(DP!ReloadSAD(g, r, c), r, c), r, c)
        ELSE DP!Rebase(g)
  BY DEF DP!UpdateDetails
<1> HIDE DEF Updated, fresh
<1>3. f = g
  BY SameStep, SameStrayed
<1> HIDE DEF f, g
<1> QED BY <1>1, <1>2, <1>3, SameReloads, SameRebase

LEMMA SameControl ==
    \A d, c, control :
        Dma!StoreControl(d, c, control) = DP!StoreControl(d, c, control)
<1> TAKE d, c, control
<1> DEFINE start == control.enable /\ control.timing = "IMMEDIATE"
           Kept(h) == [d EXCEPT !.channels[c] = [h EXCEPT !.active = @ \/ start],
                                !.registers[c].control = control,
                                !.controllerActive = @ \/ start]
           f == Dma!UpdateDetails(d.channels[c], d.registers[c], c, control)
           g == DP!UpdateDetails(d.channels[c], d.registers[c], c, control)
<1>1. Dma!StoreControl(d, c, control) = Kept(f)
  BY DEF Dma!StoreControl
<1>2. DP!StoreControl(d, c, control) = Kept(g)
  BY DEF DP!StoreControl
<1>3. f = g
  BY SameUpdate
<1> HIDE DEF Kept, f, g
<1> QED BY <1>1, <1>2, <1>3

LEMMA SameStores ==
    \A d, c : /\ Dma!SADStores(d, c) = DP!SADStores(d, c)
              /\ Dma!DADStores(d, c) = DP!DADStores(d, c)
              /\ Dma!CountStores(d, c) = DP!CountStores(d, c)
              /\ Dma!ControlStores(d, c) = DP!ControlStores(d, c)
              /\ Dma!Stores(d, c) = DP!Stores(d, c)
BY SameControl
   DEF Dma!SADStores, DP!SADStores, Dma!DADStores, DP!DADStores,
       Dma!CountStores, DP!CountStores, Dma!ControlStores, DP!ControlStores,
       Dma!Stores, DP!Stores, Dma!StoreSAD, DP!StoreSAD, Dma!StoreDAD,
       DP!StoreDAD, Dma!StoreCount, DP!StoreCount

LEMMA SameRegisters == \A address : Dma!OnRegisters(address) = DP!OnRegisters(address)
BY DEF Dma!OnRegisters, DP!OnRegisters, Dma!Registers, DP!Registers

LEMMA SameWrites ==
    \A d, address, size :
        Dma!WriteTo(d, address, size) = DP!WriteTo(d, address, size)
<1> TAKE d, address, size
<1> DEFINE On(k) == address \in DMA0SAD + 12 * k .. DMA0SAD + 12 * k + 11
           c == CHOOSE k \in Channels : On(k)
           o == address - (DMA0SAD + 12 * c)
<1>1. Dma!WriteTo(d, address, size) =
        IF ~Dma!OnRegisters(address) THEN {d}
        ELSE CASE o < 4            -> Dma!SADStores(d, c)
               [] o \in 4 .. 7     -> Dma!DADStores(d, c)
               [] o \in 8 .. 9 /\ size = 2 -> Dma!CountStores(d, c)
               [] o \in 8 .. 9 /\ size = 4 ->
                    UNION {Dma!ControlStores(e, c) : e \in Dma!CountStores(d, c)}
               [] o >= 10          -> Dma!ControlStores(d, c)
  BY DEF Dma!WriteTo, Dma!Registers, Dma!Offset
<1>2. DP!WriteTo(d, address, size) =
        IF ~DP!OnRegisters(address) THEN {d}
        ELSE CASE o < 4            -> DP!SADStores(d, c)
               [] o \in 4 .. 7     -> DP!DADStores(d, c)
               [] o \in 8 .. 9 /\ size = 2 -> DP!CountStores(d, c)
               [] o \in 8 .. 9 /\ size = 4 ->
                    UNION {DP!ControlStores(e, c) : e \in DP!CountStores(d, c)}
               [] o >= 10          -> DP!ControlStores(d, c)
  BY DEF DP!WriteTo, DP!Registers, DP!Offset
<1> HIDE DEF On, c, o
<1>3. UNION {Dma!ControlStores(e, c) : e \in Dma!CountStores(d, c)} =
        UNION {DP!ControlStores(e, c) : e \in DP!CountStores(d, c)}
  BY SameStores
<1> QED BY <1>1, <1>2, <1>3, SameStores, SameRegisters

LEMMA SameTransfers ==
    \A d, c : Dma!DoTransferStep(d, c) = DP!DoTransferStep(d, c)
<1>1. \A d, c : /\ Dma!Advance(d, c) = DP!Advance(d, c)
                /\ Dma!ReloadBlock(d, c) = DP!ReloadBlock(d, c)
                /\ Dma!Finish(d, c) = DP!Finish(d, c)
  BY SameReloads, SameRebase, SameControl
     DEF Dma!Advance, DP!Advance, Dma!ReloadBlock, DP!ReloadBlock,
         Dma!Finish, DP!Finish
<1> QED BY <1>1, SameWrites DEF Dma!DoTransferStep, DP!DoTransferStep

LEMMA SameSoundTransfers ==
    \A d, c : Dma!DoSoundTransfer(d, c) = DP!DoSoundTransfer(d, c)
<1>1. \A d, c : Dma!AdvanceSource(d, c) = DP!AdvanceSource(d, c)
  BY SameRebase DEF Dma!AdvanceSource, DP!AdvanceSource
<1>2. \A T, c : Dma!SoundWord(T, c) = DP!SoundWord(T, c)
  BY <1>1, SameWrites DEF Dma!SoundWord, DP!SoundWord
<1> QED BY <1>2 DEF Dma!DoSoundTransfer, DP!DoSoundTransfer

LEMMA SameActive ==
    /\ \A d : Dma!Active(d) = DP!Active(d) /\ Dma!IsActive(d) = DP!IsActive(d)
    /\ \A T : Dma!First(T) = DP!First(T)
BY DEF Dma!Active, DP!Active, Dma!IsActive, DP!IsActive, Dma!First, DP!First

LEMMA SameExecute == \A d : Dma!Execute(d) = DP!Execute(d)
BY SameActive, SameTransfers, SameSoundTransfers DEF Dma!Execute, DP!Execute
-----------------------------------------------------------------------------
LEMMA Numerals ==
    /\ FIFO_SIZE = 32 /\ FIFO_SIZE \div 2 = 16
    /\ Fifos \subseteq {0, 1}
    /\ FifoAddress(0) = FIFO_A /\ FifoAddress(1) = FIFO_A + 4
    /\ FIFO_A \in Nat
    /\ MaxLate \in Nat /\ MaxLate >= 16
BY SoundAssumption DEF FifoAddress

LEMMA FeedersAre ==
    ASSUME NEW d, NEW i \in {0, 1}, NEW c
    PROVE  c \in Feeders(d, i) <=> /\ c \in Channels /\ c \in {1, 2}
                                    /\ d.channels[c].cnt.enable
                                    /\ d.channels[c].cnt.timing = "SPECIAL"
                                    /\ d.channels[c].dest = FifoAddress(i)
<1>1. Event(i) \in DOMAIN Dma!FifoAddress
  BY DEF Event, Dma!FifoAddress
<1>2. Dma!FifoAddress[Event(i)] = FifoAddress(i)
  BY DEF Event, Dma!FifoAddress, FifoAddress
<1> QED BY <1>1, <1>2 DEF Feeders, Dma!Concerned

\* A channel feeds at most one of the FIFOs.
LEMMA OneFifo ==
    ASSUME NEW d, NEW i \in {0, 1}, NEW j \in {0, 1}, NEW c,
           c \in Feeders(d, i), c \in Feeders(d, j)
    PROVE  i = j
BY FeedersAre, Numerals

LEMMA SameFeeders ==
    ASSUME NEW d, NEW e, NEW i \in {0, 1},
           \A c \in Channels :
               \/ /\ e.channels[c].cnt = d.channels[c].cnt
                  /\ e.channels[c].dest = d.channels[c].dest
               \/ /\ e.channels[c].cnt.timing # "SPECIAL"
                  /\ d.channels[c].cnt.timing # "SPECIAL"
    PROVE  Feeders(e, i) = Feeders(d, i)
<1>1. ASSUME NEW c PROVE c \in Feeders(e, i) <=> c \in Feeders(d, i)
  BY FeedersAre
<1> QED BY <1>1
-----------------------------------------------------------------------------
(* The inductive invariant.  An active sound channel feeds a FIFO in use;  *)
(* a FIFO that has had samples only from the one channel that serves it is *)
(* at most half full while that channel is active; and it is at least half *)
(* full while the channel that filled it is not.                           *)
Serving(d, i) == \E c \in Feeders(d, i) : d.channels[c].active

Aimed == \A c \in Channels :
            dma.channels[c].active /\ dma.channels[c].cnt.timing = "SPECIAL"
              => \E i \in Fifos : c \in Feeders(dma, i)

Alone == \A i \in Fifos \ mixed : \A c, k \in Feeders(dma, i) : c = k

Room == \A i \in Fifos \ mixed : Serving(dma, i) => fifo[i] <= 16

Stocked == \A i \in primed : Feeders(dma, i) # {} =>
              /\ fifo[i] + late[i] >= 16
              /\ ~Serving(dma, i) => fifo[i] >= 16

FifoInv == /\ DP!Good(dma, "none")
           /\ fifo \in [Fifos -> 0 .. 32]
           /\ late \in [Fifos -> Nat]
           /\ primed \subseteq Fifos
           /\ dropped \subseteq mixed
           /\ Aimed /\ Alone /\ Room /\ Stocked

LEMMA InitFifos == InitSound => FifoInv
<1> SUFFICES ASSUME InitSound PROVE FifoInv
  OBVIOUS
<1>1. DP!Good(dma, "none")
  <2>1. dma = DP!PowerOn
    BY SamePowerOn DEF InitSound
  <2> QED BY <2>1, DP!GoodAtPowerOn, SameAssumption
<1>2. \A c \in Channels : ~dma.channels[c].active /\ ~dma.channels[c].cnt.enable
  BY DEF InitSound, Dma!PowerOn, Dma!Idle, Dma!Off
<1>3. \A i \in Fifos : Feeders(dma, i) = {}
  BY <1>2, FeedersAre, Numerals
<1> QED BY <1>1, <1>2, <1>3
        DEF FifoInv, InitSound, Aimed, Alone, Room, Stocked, Serving

(* The steps of the channels.                                              *)
LEMMA Moves ==
    ASSUME FifoInv, Moving
    PROVE  /\ DP!Good(dma', "none")
           /\ Mover \in Channels
           /\ dma.channels[Mover].active
           /\ DP!Apart(dma, dma', Mover)
           /\ IF IsSoundTransfer
              THEN /\ ~dma'.channels[Mover].active
                   /\ dma'.channels[Mover].cnt = dma.channels[Mover].cnt
                   /\ dma'.channels[Mover].dest = dma.channels[Mover].dest
              ELSE dma'.channels[Mover].cnt.timing = dma.channels[Mover].cnt.timing
<1> DEFINE c == Mover
<1>1. DP!DMAAssumption
  BY SameAssumption DEF FifoInv
<1>2. DP!Good(dma, "none") /\ dma \in DP!DMAFields
  BY DEF FifoInv, DP!Good
<1>3. DP!IsActive(dma) /\ dma' \in DP!Execute(dma) /\ c = DP!First(DP!Active(dma))
  BY SameActive, SameExecute DEF Moving, Mover
<1>4. DP!Active(dma) \subseteq Channels /\ DP!Active(dma) # {}
  BY <1>3 DEF DP!Active, DP!IsActive
<1>5. c \in DP!Active(dma)
  BY <1>1, <1>3, <1>4, DP!FirstActive
<1>6. c \in Channels /\ dma.channels[c].active
  BY <1>5 DEF DP!Active
<1>7. DP!Good(dma', "none")
  BY <1>1, <1>2, <1>3, DP!Executed
<1>8. ~DP!OnRegisters(dma.channels[c].dest)
  BY SameRegisters DEF Moving
<1>9. dma' \in IF dma.channels[c].cnt.timing = "SPECIAL" THEN DP!DoSoundTransfer(dma, c)
                                                         ELSE DP!DoTransferStep(dma, c)
  BY <1>3 DEF DP!Execute
<1>10. IsSoundTransfer <=> dma.channels[c].cnt.timing = "SPECIAL"
  BY DEF IsSoundTransfer
<1> HIDE DEF c
<1>11. CASE dma.channels[c].cnt.timing = "SPECIAL"
  <2>1. dma' \in DP!DoSoundTransfer(dma, c)
    BY <1>9, <1>11
  <2>2. /\ DP!Apart(dma, dma', c)
        /\ ~dma'.channels[c].active
        /\ dma'.channels[c].cnt = dma.channels[c].cnt
        /\ dma'.channels[c].dest = dma.channels[c].dest
    BY <1>1, <1>2, <1>6, <1>8, <2>1, DP!SoundLeaves
  <2> QED BY <1>6, <1>7, <1>10, <1>11, <2>2 DEF c
<1>12. CASE dma.channels[c].cnt.timing # "SPECIAL"
  <2>1. dma' \in DP!DoTransferStep(dma, c)
    BY <1>9, <1>12
  <2>2. /\ DP!Apart(dma, dma', c)
        /\ dma'.channels[c].cnt.timing = dma.channels[c].cnt.timing
    BY <1>1, <1>2, <1>6, <1>8, <2>1, DP!BlockLeaves
  <2> QED BY <1>6, <1>7, <1>10, <1>12, <2>2 DEF c
<1> QED BY <1>11, <1>12

LEMMA StepSoundTransfer ==
    ASSUME FifoInv, NEW i \in Fifos, SoundTransfer(i)
    PROVE  FifoInv'
<1> DEFINE c == Mover
<1>1. Moving /\ IsSoundTransfer /\ Reaches(dma.channels[c].dest, i)
  BY DEF SoundTransfer
<1>2. /\ DP!Good(dma', "none") /\ c \in Channels /\ dma.channels[c].active
      /\ \A k \in Channels \ {c} : dma'.channels[k] = dma.channels[k]
      /\ ~dma'.channels[c].active
      /\ dma'.channels[c].cnt = dma.channels[c].cnt
      /\ dma'.channels[c].dest = dma.channels[c].dest
      /\ dma.channels[c].cnt.timing = "SPECIAL"
  BY <1>1, Moves DEF DP!Apart, IsSoundTransfer
<1> HIDE DEF c
<1>3. Fifos \subseteq {0, 1}
  BY Numerals DEF FifoInv
<1>4. \A j \in {0, 1} : Feeders(dma', j) = Feeders(dma, j)
  BY <1>2, SameFeeders
<1>5. c \in Feeders(dma, i)
  <2>1. PICK j \in Fifos : c \in Feeders(dma, j)
    BY <1>2 DEF FifoInv, Aimed
  <2>2. dma.channels[c].dest = FifoAddress(j)
    BY <1>3, <2>1, FeedersAre
  <2>3. i = j
    BY <1>1, <1>3, <2>2, Numerals DEF Reaches
  <2> QED BY <2>1, <2>3
<1>6. \A j \in Fifos \ {i} : c \notin Feeders(dma, j)
  BY <1>3, <1>5, OneFifo
<1>7. \A j \in Fifos \ {i} : Serving(dma', j) <=> Serving(dma, j)
  BY <1>2, <1>3, <1>4, <1>6, FeedersAre DEF Serving
<1>8. i \notin mixed => fifo[i] <= 16 /\ ~Serving(dma', i)
  BY <1>2, <1>3, <1>4, <1>5 DEF FifoInv, Alone, Room, Serving
<1>9. /\ fifo' = [fifo EXCEPT ![i] = Push(fifo[i], 16)]
      /\ dropped' = IF fifo[i] + 16 > FIFO_SIZE THEN dropped \cup {i} ELSE dropped
      /\ primed' = primed \cup {i} /\ late' = [late EXCEPT ![i] = 0] /\ mixed' = mixed
  <2>1. 4 * Brought(4) = 16
    BY DEF Brought
  <2> QED BY <2>1 DEF SoundTransfer, Arrive
<1>10. fifo[i] \in 0 .. 32 /\ FIFO_SIZE = 32
  BY Numerals DEF FifoInv
<1>11. Push(fifo[i], 16) \in 16 .. 32
  BY <1>10 DEF Push
<1>12. /\ fifo' \in [Fifos -> 0 .. 32] /\ late' \in [Fifos -> Nat]
       /\ fifo'[i] \in 16 .. 32 /\ late'[i] = 0
       /\ \A j \in Fifos \ {i} : fifo'[j] = fifo[j] /\ late'[j] = late[j]
  BY <1>9, <1>11 DEF FifoInv
<1>13. dropped' \subseteq mixed'
  BY <1>8, <1>9, <1>10 DEF FifoInv
<1>14. Aimed'
  BY <1>2, <1>3, <1>4 DEF FifoInv, Aimed
<1>15. Alone'
  BY <1>3, <1>4, <1>9 DEF FifoInv, Alone
<1>16. Room'
  BY <1>7, <1>8, <1>9, <1>12 DEF FifoInv, Room
<1>17. Stocked'
  <2> SUFFICES ASSUME NEW j \in primed', Feeders(dma', j) # {}
               PROVE  /\ fifo'[j] + late'[j] >= 16
                      /\ ~Serving(dma', j) => fifo'[j] >= 16
    BY DEF Stocked
  <2>1. CASE j = i
    BY <1>12, <2>1
  <2>2. CASE j # i
    <3>1. j \in primed /\ j \in Fifos \ {i}
      BY <1>9, <2>2 DEF FifoInv
    <3> QED BY <1>3, <1>4, <1>7, <1>12, <3>1 DEF FifoInv, Stocked
  <2> QED BY <2>1, <2>2
<1> QED BY <1>2, <1>3, <1>9, <1>12, <1>13, <1>14, <1>15, <1>16, <1>17 DEF FifoInv

\* What a transfer that is not a sound transfer leaves of the channels.
LEMMA OrdinaryMoves ==
    ASSUME FifoInv, Moving, ~IsSoundTransfer
    PROVE  /\ DP!Good(dma', "none") /\ Aimed'
           /\ \A i \in Fifos : /\ Feeders(dma', i) = Feeders(dma, i)
                               /\ Serving(dma', i) <=> Serving(dma, i)
<1> DEFINE c == Mover
<1>1. /\ DP!Good(dma', "none") /\ c \in Channels
      /\ \A k \in Channels \ {c} : dma'.channels[k] = dma.channels[k]
      /\ dma.channels[c].cnt.timing # "SPECIAL"
      /\ dma'.channels[c].cnt.timing # "SPECIAL"
  BY Moves DEF DP!Apart, IsSoundTransfer
<1> HIDE DEF c
<1>2. Fifos \subseteq {0, 1}
  BY Numerals DEF FifoInv
<1>3. \A i \in {0, 1} : Feeders(dma', i) = Feeders(dma, i)
  BY <1>1, SameFeeders
<1>4. \A i \in {0, 1} : Serving(dma', i) <=> Serving(dma, i)
  <2>1. \A i \in {0, 1} : \A k \in Feeders(dma, i) : k \in Channels \ {c}
    BY <1>1, FeedersAre
  <2> QED BY <1>1, <1>3, <2>1 DEF Serving
<1>5. Aimed'
  BY <1>1, <1>2, <1>3 DEF FifoInv, Aimed
<1> QED BY <1>1, <1>2, <1>3, <1>4, <1>5

\* Samples that come from elsewhere only fill a FIFO further.
LEMMA StepFilled ==
    ASSUME FifoInv, NEW i \in Fifos, NEW n \in {2, 4}, Arrive(i, n),
           mixed' = mixed \cup {i}, UNCHANGED <<primed, late>>,
           DP!Good(dma', "none"), Aimed',
           \A j \in Fifos : /\ Feeders(dma', j) = Feeders(dma, j)
                            /\ Serving(dma', j) <=> Serving(dma, j)
    PROVE  FifoInv'
<1>1. FIFO_SIZE = 32
  BY Numerals DEF FifoInv
<1>2. fifo[i] \in 0 .. 32 /\ fifo' = [fifo EXCEPT ![i] = Push(fifo[i], n)]
  BY DEF FifoInv, Arrive
<1>3. Push(fifo[i], n) \in 0 .. 32 /\ Push(fifo[i], n) >= fifo[i]
  BY <1>1, <1>2 DEF Push
<1>4. /\ fifo' \in [Fifos -> 0 .. 32] /\ fifo'[i] >= fifo[i]
      /\ \A j \in Fifos \ {i} : fifo'[j] = fifo[j]
  BY <1>2, <1>3 DEF FifoInv
<1>5. dropped' \subseteq mixed'
  BY DEF FifoInv, Arrive
<1>6. Alone' /\ Room'
  BY <1>4 DEF FifoInv, Alone, Room
<1>7. Stocked'
  <2> SUFFICES ASSUME NEW j \in primed, Feeders(dma, j) # {}
               PROVE  /\ fifo'[j] + late[j] >= 16
                      /\ ~Serving(dma, j) => fifo'[j] >= 16
    BY DEF Stocked, FifoInv
  <2>1. /\ fifo[j] + late[j] >= 16
        /\ ~Serving(dma, j) => fifo[j] >= 16
        /\ j \in Fifos /\ fifo[j] \in 0 .. 32 /\ late[j] \in Nat
        /\ fifo'[j] \in 0 .. 32 /\ fifo'[j] >= fifo[j]
    BY <1>4 DEF FifoInv, Stocked
  <2> QED BY <2>1
<1> QED BY <1>1, <1>4, <1>5, <1>6, <1>7 DEF FifoInv

LEMMA StepOrdinary ==
    ASSUME FifoInv, NEW i \in Fifos, OrdinaryTransfer(i)
    PROVE  FifoInv'
<1> DEFINE n == Brought(dma.channels[Mover].cnt.size)
<1>1. /\ Moving /\ ~IsSoundTransfer /\ Arrive(i, n)
      /\ mixed' = mixed \cup {i} /\ UNCHANGED <<primed, late>>
  BY DEF OrdinaryTransfer
<1>2. n \in {2, 4}
  BY DEF Brought
<1> HIDE DEF n
<1> QED BY <1>1, <1>2, OrdinaryMoves, StepFilled

\* A sound transfer always reaches the FIFO that asked for it.
LEMMA StepElsewhere == FifoInv /\ TransferElsewhere => FifoInv'
<1> SUFFICES ASSUME FifoInv, TransferElsewhere PROVE FifoInv'
  OBVIOUS
<1> DEFINE c == Mover
<1>1. Moving /\ UNCHANGED <<fifo, dropped, mixed, primed, late>>
  BY DEF TransferElsewhere
<1>2. ~IsSoundTransfer
  <2> SUFFICES ASSUME IsSoundTransfer PROVE FALSE
    OBVIOUS
  <2>1. \A i \in Fifos : ~Reaches(dma.channels[c].dest, i)
    BY DEF TransferElsewhere
  <2>2. c \in Channels /\ dma.channels[c].active /\ dma.channels[c].cnt.timing = "SPECIAL"
    BY <1>1, Moves DEF IsSoundTransfer
  <2> HIDE DEF c
  <2>3. PICK i \in Fifos : c \in Feeders(dma, i)
    BY <2>2 DEF FifoInv, Aimed
  <2>4. i \in {0, 1}
    BY Numerals DEF FifoInv
  <2>5. dma.channels[c].dest = FifoAddress(i)
    BY <2>3, <2>4, FeedersAre
  <2> QED BY <2>1, <2>5 DEF Reaches
<1>3. /\ DP!Good(dma', "none") /\ Aimed'
      /\ \A i \in Fifos : /\ Feeders(dma', i) = Feeders(dma, i)
                          /\ Serving(dma', i) <=> Serving(dma, i)
  BY <1>1, <1>2, OrdinaryMoves
<1> QED BY <1>1, <1>3 DEF FifoInv, Alone, Room, Stocked

(* The steps of the CPU: no channel is active then.                        *)
LEMMA Lowered ==
    ASSUME FifoInv, ~Dma!IsActive(dma)
    PROVE  LET d == [dma EXCEPT !.controllerActive = FALSE] IN
           /\ DP!Good(d, "none")
           /\ d.channels = dma.channels
           /\ \A c \in Channels : ~dma.channels[c].active
           /\ \A i \in Fifos : /\ Feeders(d, i) = Feeders(dma, i)
                               /\ ~Serving(dma, i) /\ ~Serving(d, i)
<1> DEFINE d == [dma EXCEPT !.controllerActive = FALSE]
<1>1. DP!Good(dma, "none") /\ ~DP!IsActive(dma) /\ Fifos \subseteq {0, 1}
  BY SameActive, Numerals DEF FifoInv
<1>2. d \in DP!DMAFields /\ d.channels = dma.channels /\ d.registers = dma.registers
  BY <1>1 DEF DP!Good, DP!DMAFields
<1> HIDE DEF d
<1>3. DP!Active(dma) = {}
  BY <1>1 DEF DP!IsActive, DP!Good, DP!Covered
<1>4. \A c \in Channels : ~dma.channels[c].active
  BY <1>3 DEF DP!Active
<1>5. DP!Good(d, "none")
  BY <1>1, <1>2, <1>3 DEF DP!Good, DP!AllPlaced, DP!Covered, DP!Active, DP!Armed,
                          DP!Mirrored, DP!Paused
<1>6. \A i \in Fifos : Feeders(d, i) = Feeders(dma, i)
  BY <1>1, <1>2, SameFeeders
<1>7. \A i \in Fifos : ~Serving(dma, i) /\ ~Serving(d, i)
  BY <1>1, <1>2, <1>4, FeedersAre DEF Serving
<1> QED BY <1>2, <1>4, <1>5, <1>6, <1>7 DEF d

LEMMA StepStoreNothing ==
    ASSUME FifoInv, Instruction, dma' = [dma EXCEPT !.controllerActive = FALSE]
    PROVE  /\ DP!Good(dma', "none") /\ Aimed'
           /\ \A i \in Fifos : /\ Feeders(dma', i) = Feeders(dma, i)
                               /\ Serving(dma', i) <=> Serving(dma, i)
<1>1. ~Dma!IsActive(dma)
  BY DEF Instruction
<1>2. /\ DP!Good(dma', "none")
      /\ dma'.channels = dma.channels
      /\ \A c \in Channels : ~dma.channels[c].active
      /\ \A i \in Fifos : /\ Feeders(dma', i) = Feeders(dma, i)
                          /\ ~Serving(dma, i) /\ ~Serving(dma', i)
  BY <1>1, Lowered
<1> QED BY <1>2 DEF Aimed

LEMMA StepStoreDMA ==
    ASSUME FifoInv, NEW c \in Channels, StoreDMA(c)
    PROVE  FifoInv'
<1> DEFINE d == [dma EXCEPT !.controllerActive = FALSE]
<1>1. /\ ~Dma!IsActive(dma) /\ dma' \in Dma!Stores(d, c)
      /\ mixed' = mixed \cup Shared(dma')
      /\ primed' = {i \in primed : Feeders(dma', i) = Feeders(dma, i)}
      /\ UNCHANGED <<fifo, dropped, late>>
  BY DEF StoreDMA, Instruction
<1>2. /\ DP!Good(d, "none")
      /\ d.channels = dma.channels
      /\ \A k \in Channels : ~dma.channels[k].active
      /\ \A i \in Fifos : ~Serving(dma, i)
  BY <1>1, Lowered
<1> HIDE DEF d
<1>3. DP!DMAAssumption /\ Fifos \subseteq {0, 1}
  BY SameAssumption, Numerals DEF FifoInv
<1>4. dma' \in DP!Stores(d, c)
  BY <1>1, SameStores
<1>5. DP!Good(dma', "none")
  BY <1>2, <1>3, <1>4, DP!Stored DEF DP!Stores, DP!Follows
<1>6. /\ DP!Apart(d, dma', c)
      /\ dma'.channels[c].active
           => d.channels[c].active \/ dma'.channels[c].cnt.timing = "IMMEDIATE"
  <2>1. d \in DP!DMAFields
    BY <1>2 DEF DP!Good
  <2> QED BY <1>3, <1>4, <2>1, DP!StoreLeaves
<1>7. \A k \in Channels : dma'.channels[k].active
                            => dma'.channels[k].cnt.timing # "SPECIAL"
  BY <1>2, <1>6 DEF DP!Apart
<1>8. \A i \in Fifos : ~Serving(dma', i)
  <2> SUFFICES ASSUME NEW i \in Fifos, NEW k \in Feeders(dma', i),
                      dma'.channels[k].active
               PROVE  FALSE
    BY DEF Serving
  <2>1. i \in {0, 1}
    BY <1>3
  <2>2. k \in Channels /\ dma'.channels[k].cnt.timing = "SPECIAL"
    BY <1>3, <2>1, FeedersAre
  <2> QED BY <1>7, <2>2
<1>9. Aimed' /\ Room'
  BY <1>7, <1>8 DEF Aimed, Room
<1>10. Alone'
  BY <1>1 DEF Alone, Shared
<1>11. Stocked'
  BY <1>1, <1>2 DEF FifoInv, Stocked
<1> QED BY <1>1, <1>3, <1>5, <1>9, <1>10, <1>11 DEF FifoInv
-----------------------------------------------------------------------------
(* The overflows of the timers.                                            *)
LEMMA Updates ==
    ASSUME NEW d, DP!Good(d, "none"), NEW i \in {0, 1}, NEW popping
    PROVE  LET e == FIFOUpdate(d, i, popping)
               asks == i \in popping /\ Asks(Pop(fifo[i])) IN
           /\ DP!Good(e, "none")
           /\ \A c \in Channels :
                 /\ e.channels[c].cnt = d.channels[c].cnt
                 /\ e.channels[c].dest = d.channels[c].dest
                 /\ e.channels[c].active <=>
                      d.channels[c].active \/ (asks /\ c \in Feeders(d, i))
           /\ \A j \in {0, 1} : Feeders(e, j) = Feeders(d, j)
<1> DEFINE e == FIFOUpdate(d, i, popping)
           asks == i \in popping /\ Asks(Pop(fifo[i]))
<1>1. DP!DMAAssumption /\ d \in DP!DMAFields
  BY SameAssumption DEF DP!Good
<1>2. e = IF asks THEN DP!EventCallback(d, Event(i), TRUE) ELSE d
  BY SameEvents DEF FIFOUpdate
<1>3. Event(i) \in {"FIFOA", "FIFOB"} /\ Feeders(d, i) = DP!Concerned(d, Event(i))
  BY SameConcerned DEF Event, Feeders
<1> HIDE DEF e, asks
<1>4. /\ DP!Good(e, "none")
      /\ \A c \in Channels :
            /\ e.channels[c].cnt = d.channels[c].cnt
            /\ e.channels[c].dest = d.channels[c].dest
            /\ e.channels[c].active <=>
                 d.channels[c].active \/ (asks /\ c \in Feeders(d, i))
  <2>1. CASE ~asks
    BY <1>2, <2>1
  <2>2. CASE asks
    <3>1. \A start \in BOOLEAN : DP!Good(DP!EventCallback(d, Event(i), start), "none")
      BY <1>1, <1>3, DP!Called
    <3>2. \A start \in BOOLEAN : LET f == DP!EventCallback(d, Event(i), start) IN
             \A c \in Channels :
                 /\ f.channels[c].cnt = d.channels[c].cnt
                 /\ f.channels[c].dest = d.channels[c].dest
                 /\ f.channels[c].active = IF c \in DP!Concerned(d, Event(i))
                                           THEN start ELSE d.channels[c].active
      BY <1>1, DP!EventFields
    <3>3. TRUE \in BOOLEAN
      OBVIOUS
    <3> QED BY <1>2, <1>3, <2>2, <3>1, <3>2, <3>3
  <2> QED BY <2>1, <2>2
<1>5. \A j \in {0, 1} : Feeders(e, j) = Feeders(d, j)
  BY <1>4, SameFeeders
<1> QED BY <1>4, <1>5 DEF e, asks

LEMMA StepTimers == FifoInv /\ TimersUpdate => FifoInv'
<1> SUFFICES ASSUME FifoInv, TimersUpdate PROVE FifoInv'
  OBVIOUS
<1> PICK overflowed \in SUBSET {0, 1} :
        LET popping == {i \in Fifos : timerSelect[i] \in overflowed}
            waits(i) == \E c \in Feeders(dma, i) : dma.channels[c].active
        IN  /\ fifo' = [i \in Fifos |-> IF i \in popping THEN Pop(fifo[i]) ELSE fifo[i]]
            /\ dma' = Request(dma, popping)
            /\ late' = [i \in Fifos |->
                          IF i \notin popping \/ late[i] = MaxLate THEN late[i]
                          ELSE IF waits(i) THEN late[i] + 1
                          ELSE IF Asks(fifo'[i]) THEN 1 ELSE 0]
            /\ UNCHANGED <<timerSelect, dropped, mixed, primed>>
  BY DEF TimersUpdate
<1> DEFINE popping == {i \in Fifos : timerSelect[i] \in overflowed}
           asks(i) == i \in popping /\ Asks(Pop(fifo[i]))
           d == FIFOUpdate(dma, 0, popping)
<1>1. /\ \A i \in Fifos : fifo'[i] = IF i \in popping THEN Pop(fifo[i]) ELSE fifo[i]
      /\ \A i \in Fifos : late'[i] =
            IF i \notin popping \/ late[i] = MaxLate THEN late[i]
            ELSE IF Serving(dma, i) THEN late[i] + 1
            ELSE IF Asks(fifo'[i]) THEN 1 ELSE 0
      /\ DOMAIN fifo' = Fifos /\ DOMAIN late' = Fifos
      /\ fifo' = [i \in Fifos |-> fifo'[i]] /\ late' = [i \in Fifos |-> late'[i]]
      /\ dma' = FIFOUpdate(d, 1, popping)
      /\ UNCHANGED <<dropped, mixed, primed>>
  BY DEF Request, Serving
<1>2. popping \subseteq Fifos
  OBVIOUS
<1> HIDE DEF popping, asks, d
<1>3. Fifos \subseteq {0, 1} /\ MaxLate >= 16 /\ MaxLate \in Nat
  BY Numerals DEF FifoInv
<1>4. \A i \in Fifos : Asks(Pop(fifo[i])) <=> Pop(fifo[i]) <= 16
  BY Numerals DEF FifoInv, Asks
<1>5. \A i \in Fifos : /\ fifo[i] \in 0 .. 32 /\ late[i] \in Nat
                       /\ Pop(fifo[i]) \in 0 .. 32 /\ Pop(fifo[i]) <= fifo[i]
                       /\ Pop(fifo[i]) + 1 >= fifo[i]
  BY DEF FifoInv, Pop
<1>6. fifo' \in [Fifos -> 0 .. 32] /\ late' \in [Fifos -> Nat]
  BY <1>1, <1>5
<1>7. /\ DP!Good(d, "none")
      /\ \A c \in Channels : d.channels[c].active <=>
                 dma.channels[c].active \/ (asks(0) /\ c \in Feeders(dma, 0))
      /\ \A c \in Channels : d.channels[c].cnt = dma.channels[c].cnt
      /\ \A j \in {0, 1} : Feeders(d, j) = Feeders(dma, j)
  BY <1>3, Updates DEF FifoInv, d, asks
<1>8. /\ DP!Good(dma', "none")
      /\ \A c \in Channels : dma'.channels[c].active <=>
                 d.channels[c].active \/ (asks(1) /\ c \in Feeders(d, 1))
      /\ \A c \in Channels : dma'.channels[c].cnt = d.channels[c].cnt
      /\ \A j \in {0, 1} : Feeders(dma', j) = Feeders(d, j)
  <2> DEFINE e == FIFOUpdate(d, 1, popping)
  <2>1. DP!Good(d, "none")
    BY <1>3, <1>7
  <2>2. /\ DP!Good(e, "none")
        /\ \A c \in Channels : e.channels[c].active <=>
                   d.channels[c].active \/ (asks(1) /\ c \in Feeders(d, 1))
        /\ \A c \in Channels : e.channels[c].cnt = d.channels[c].cnt
        /\ \A j \in {0, 1} : Feeders(e, j) = Feeders(d, j)
    BY <2>1, Updates DEF asks
  <2>3. dma' = e
    BY <1>1
  <2> HIDE DEF e
  <2> QED BY <2>2, <2>3
<1>9. /\ \A c \in Channels : dma'.channels[c].cnt = dma.channels[c].cnt
      /\ \A j \in {0, 1} : Feeders(dma', j) = Feeders(dma, j)
      /\ \A c \in Channels : dma'.channels[c].active <=>
             \/ dma.channels[c].active
             \/ \E j \in {0, 1} : asks(j) /\ c \in Feeders(dma, j)
  BY <1>7, <1>8
<1>10. \A j \in {0, 1} : asks(j) => j \in Fifos
  BY <1>2 DEF asks
<1>11. Aimed'
  <2> SUFFICES ASSUME NEW c \in Channels, dma'.channels[c].active,
                      dma'.channels[c].cnt.timing = "SPECIAL"
               PROVE  \E i \in Fifos : c \in Feeders(dma', i)
    BY DEF Aimed
  <2>1. CASE dma.channels[c].active
    BY <1>3, <1>9, <2>1 DEF FifoInv, Aimed
  <2>2. CASE ~dma.channels[c].active
    BY <1>9, <1>10, <2>2
  <2> QED BY <2>1, <2>2
<1>12. \A i \in Fifos : Serving(dma', i) <=>
             Serving(dma, i) \/ (asks(i) /\ Feeders(dma, i) # {})
  <2> TAKE i \in Fifos
  <2>1. \A c \in Feeders(dma, i) :
           /\ c \in Channels
           /\ \A j \in {0, 1} : c \in Feeders(dma, j) => j = i
    BY <1>3, FeedersAre, OneFifo
  <2>2. \A c \in Feeders(dma, i) : dma'.channels[c].active <=>
             dma.channels[c].active \/ asks(i)
    BY <1>3, <1>9, <2>1
  <2> QED BY <1>3, <1>9, <2>2 DEF Serving
<1>13. Alone'
  BY <1>1, <1>3, <1>9 DEF FifoInv, Alone
<1>14. \A i \in Fifos : asks(i) => fifo'[i] <= 16
  BY <1>1, <1>4 DEF asks
<1>15. \A i \in Fifos : fifo'[i] <= fifo[i]
  BY <1>1, <1>5
<1>16. Room'
  <2> SUFFICES ASSUME NEW i \in Fifos \ mixed, Serving(dma', i) PROVE fifo'[i] <= 16
    BY <1>1 DEF Room
  <2>1. CASE Serving(dma, i)
    <3>1. fifo[i] <= 16
      BY <2>1 DEF FifoInv, Room
    <3> QED BY <1>5, <1>6, <1>15, <3>1
  <2>2. CASE ~Serving(dma, i)
    BY <1>12, <1>14, <2>2
  <2> QED BY <2>1, <2>2
<1>17. Stocked'
  <2> SUFFICES ASSUME NEW i \in primed, Feeders(dma, i) # {}
               PROVE  /\ fifo'[i] + late'[i] >= 16
                      /\ ~Serving(dma', i) => fifo'[i] >= 16
    BY <1>1, <1>3, <1>9 DEF Stocked, FifoInv
  <2>1. /\ i \in Fifos
        /\ fifo[i] + late[i] >= 16
        /\ ~Serving(dma, i) => fifo[i] >= 16
    BY DEF FifoInv, Stocked
  <2>2. /\ fifo[i] \in 0 .. 32 /\ late[i] \in Nat
        /\ fifo'[i] \in 0 .. 32 /\ late'[i] \in Nat
    BY <1>5, <1>6, <2>1
  <2>3. CASE i \notin popping
    BY <1>1, <1>12, <2>1, <2>2, <2>3
  <2>4. CASE i \in popping
    <3>1. fifo'[i] = Pop(fifo[i]) /\ fifo'[i] + 1 >= fifo[i]
      BY <1>1, <1>5, <2>1, <2>4
    <3>2. Asks(fifo'[i]) <=> fifo'[i] <= 16
      BY <1>4, <2>1, <3>1
    <3>3. asks(i) <=> fifo'[i] <= 16
      BY <2>4, <3>1, <3>2 DEF asks
    <3>4. ~Serving(dma', i) => fifo'[i] >= 16
      BY <1>12, <2>1, <2>2, <3>3
    <3>5. CASE late[i] = MaxLate
      BY <1>1, <1>3, <2>1, <2>2, <3>4, <3>5
    <3>6. CASE late[i] # MaxLate /\ Serving(dma, i)
      <4>1. late'[i] = late[i] + 1
        BY <1>1, <2>1, <2>4, <3>6
      <4> QED BY <2>1, <2>2, <3>1, <3>4, <4>1
    <3>7. CASE late[i] # MaxLate /\ ~Serving(dma, i)
      <4>1. late'[i] = IF fifo'[i] <= 16 THEN 1 ELSE 0
        BY <1>1, <2>1, <2>4, <3>2, <3>7
      <4> QED BY <2>1, <2>2, <3>1, <3>4, <3>7, <4>1
    <3> QED BY <3>5, <3>6, <3>7
  <2> QED BY <2>3, <2>4
<1>18. primed' \subseteq Fifos /\ dropped' \subseteq mixed'
  BY <1>1 DEF FifoInv
<1> QED BY <1>3, <1>6, <1>8, <1>11, <1>13, <1>16, <1>17, <1>18 DEF FifoInv

LEMMA StepFifos == FifoInv /\ [NextSound]_soundVars => FifoInv'
<1> SUFFICES ASSUME FifoInv, [NextSound]_soundVars PROVE FifoInv'
  OBVIOUS
<1>1. ASSUME NEW i \in Fifos, StoreFifo(i) PROVE FifoInv'
  <2>1. PICK size \in {1, 2, 4} : Arrive(i, Brought(size))
    BY <1>1 DEF StoreFifo
  <2>2. Brought(size) \in {2, 4}
    BY DEF Brought
  <2> QED BY <1>1, <2>1, <2>2, StepStoreNothing, StepFilled DEF StoreFifo
<1>2. ASSUME StoreNothing \/ \E i \in Fifos : StoreTimerSelect(i) PROVE FifoInv'
  <2>1. /\ Instruction /\ dma' = [dma EXCEPT !.controllerActive = FALSE]
        /\ UNCHANGED <<fifo, dropped, mixed, primed, late>>
    BY <1>2 DEF StoreNothing, StoreTimerSelect
  <2>2. /\ DP!Good(dma', "none") /\ Aimed'
        /\ \A i \in Fifos : /\ Feeders(dma', i) = Feeders(dma, i)
                            /\ Serving(dma', i) <=> Serving(dma, i)
    BY <2>1, StepStoreNothing
  <2> QED BY <2>1, <2>2 DEF FifoInv, Alone, Room, Stocked
<1>3. CASE UNCHANGED soundVars
  BY <1>3 DEF soundVars, FifoInv, Aimed, Alone, Room, Stocked
<1> QED BY <1>1, <1>2, <1>3, StepSoundTransfer, StepOrdinary, StepElsewhere,
           StepStoreDMA, StepTimers DEF NextSound

(* A FIFO that has had samples from one channel only has never dropped a   *)
(* sample of them: the channel acts on a request once, and for a FIFO at   *)
(* most half full, however late it gets the bus.                           *)
THEOREM NothingLost == SoundSpec => []NothingDropped
<1>1. FifoInv => NothingDropped
  BY DEF FifoInv, NothingDropped
<1> QED BY <1>1, InitFifos, StepFifos, PTL DEF SoundSpec

(* A FIFO that its channel has once filled runs dry only when the channel  *)
(* has been waiting for the bus for as long as half the FIFO lasts.        *)
THEOREM DryIsLate == SoundSpec => []DryOnlyWhenLate
<1>1. FifoInv => DryOnlyWhenLate
  BY Numerals DEF FifoInv, Stocked, DryOnlyWhenLate
<1> QED BY <1>1, InitFifos, StepFifos, PTL DEF SoundSpec
=============================================================================
