----------------------------- MODULE AudioQueue -----------------------------
(***************************************************************************)
(* The queue between the emulator and the sound card.  The thread that     *)
(* runs GBA::run pushes a left and a right sample in APU::Sample; SFML's   *)
(* thread calls AudioStream::onGetData, which pops a chunk.  No lock is    *)
(* held, and both threads read and write elems_count.                      *)
(*                                                                         *)
(* Each thread takes the steps of CircularQueue one at a time.  Between    *)
(* its check and its update of elems_count a thread may read the count     *)
(* again or keep the value it has seen: the code reads it twice, and the   *)
(* compiler may merge the reads.  Each load and store is atomic, and a     *)
(* thread's stores are seen in the order of the program.                   *)
(*                                                                         *)
(* A sample is its number modulo Numbers: left ones are even.  Samples are *)
(* told apart until a push and a pop overlap.                              *)
(***************************************************************************)
EXTENDS Integers, Sequences

CONSTANTS
    BUFFER_SIZE,  \* the capacity of the queue: half of it is whole pairs
    Numbers       \* the modulus of the samples' numbers

ASSUME AudioQueueAssumption ==
    /\ BUFFER_SIZE \in Nat /\ BUFFER_SIZE > 1 /\ BUFFER_SIZE % 4 = 0
    /\ Numbers \in Nat /\ Numbers > 1 /\ Numbers % 2 = 0

VARIABLES
    samples,     \* AudioStream::samples
    emulator,    \* the pushing thread: where it is, the count it has seen,
                 \* the sample it pushes, whether the left one was kept
    player,      \* the popping thread: where it is, the count it has seen,
                 \* and the chunk popped so far
    waiting,     \* history: the samples pushed and not popped, until
    overlapped,  \* history: a Push and a Pop have overlapped
    split        \* history: one sample of a pair was dropped, not the other

vars == <<samples, emulator, player, waiting, overlapped, split>>

Samples == INSTANCE CircularQueue WITH N <- BUFFER_SIZE,
                                       Values <- 0 .. Numbers - 1

(* Mutant of ChunkSize: a chunk of an odd number of samples.               *)
ChunkSizeOdd == BUFFER_SIZE \div 2 + 1
-----------------------------------------------------------------------------
ChunkSize == BUFFER_SIZE \div 2

Init == /\ samples = Samples!Empty
        /\ emulator = [at |-> "idle", seen |-> 0, next |-> 0, kept |-> TRUE]
        /\ player = [at |-> "idle", seen |-> 0, chunk |-> << >>]
        /\ waiting = << >>
        /\ overlapped = FALSE
        /\ split = FALSE

Pushing == emulator.at # "idle"
Popping == player.at \in {"take", "count"}
-----------------------------------------------------------------------------
(* PushOne: the emulator's thread.  APU::Sample pushes left, then right.   *)

Following(kept) == [emulator EXCEPT !.at = "idle", !.kept = kept,
                                    !.next = IF overlapped THEN 0 ELSE (@ + 1) % Numbers]

Splits(kept) == emulator.next % 2 = 1 /\ kept # emulator.kept

\* IsFull: the sample is dropped.
PushDropped == /\ ~Pushing
               /\ Samples!IsFull(samples)
               /\ emulator' = Following(FALSE)
               /\ split' = (split \/ Splits(FALSE))
               /\ UNCHANGED <<samples, player, waiting, overlapped>>

PushBegins == /\ ~Pushing
              /\ ~Samples!IsFull(samples)
              /\ emulator' = [emulator EXCEPT !.at = "put",
                                              !.seen = samples.elems_count]
              /\ overlapped' = (overlapped \/ Popping)
              /\ waiting' = IF overlapped' THEN << >> ELSE waiting
              /\ UNCHANGED <<samples, player, split>>

PushPuts == /\ emulator.at = "put"
            /\ samples' = Samples!Put(samples, emulator.next)
            /\ emulator' = [emulator EXCEPT !.at = "count"]
            /\ waiting' = IF overlapped THEN waiting ELSE Append(waiting, emulator.next)
            /\ UNCHANGED <<player, overlapped, split>>

PushLooksAgain == /\ emulator.at = "count"
                  /\ emulator.seen # samples.elems_count
                  /\ emulator' = [emulator EXCEPT !.seen = samples.elems_count]
                  /\ UNCHANGED <<samples, player, waiting, overlapped, split>>

PushCounts == /\ emulator.at = "count"
              /\ samples' = Samples!Recount(samples, emulator.seen + 1)
              /\ emulator' = Following(TRUE)
              /\ split' = (split \/ Splits(TRUE))
              /\ UNCHANGED <<player, waiting, overlapped>>
-----------------------------------------------------------------------------
(* onGetData: SFML's thread.                                               *)

\* Less than half full: a chunk of silence.
PlaySilence == /\ player.at = "idle"
               /\ samples.elems_count < ChunkSize
               /\ player' = [player EXCEPT !.chunk = << >>]
               /\ UNCHANGED <<samples, emulator, waiting, overlapped, split>>

(* Mutants of ChunkBegins: with any sample; with more than there can be.   *)
ChunkBeginsEarly == /\ player.at = "idle"
                    /\ samples.elems_count > 0
                    /\ player' = [player EXCEPT !.at = "loop", !.chunk = << >>]
                    /\ UNCHANGED <<samples, emulator, waiting, overlapped, split>>

ChunkBeginsNever == /\ player.at = "idle"
                    /\ samples.elems_count > 2 * ChunkSize
                    /\ player' = [player EXCEPT !.at = "loop", !.chunk = << >>]
                    /\ UNCHANGED <<samples, emulator, waiting, overlapped, split>>
-----------------------------------------------------------------------------
ChunkBegins == /\ player.at = "idle"
               /\ samples.elems_count >= ChunkSize
               /\ player' = [player EXCEPT !.at = "loop", !.chunk = << >>]
               /\ UNCHANGED <<samples, emulator, waiting, overlapped, split>>

\* The condition of the loop, and IsEmpty in Pop, which sees the same: only
\* this thread lowers the count.
PopBegins == /\ player.at = "loop"
             /\ ~Samples!IsEmpty(samples)
             /\ Len(player.chunk) < ChunkSize
             /\ player' = [player EXCEPT !.at = "take", !.seen = samples.elems_count]
             /\ overlapped' = (overlapped \/ Pushing)
             /\ waiting' = IF overlapped' THEN << >> ELSE waiting
             /\ UNCHANGED <<samples, emulator, split>>

PopTakes == /\ player.at = "take"
            /\ player' = [player EXCEPT !.at = "count",
                                        !.chunk = Append(@, Samples!Front(samples))]
            /\ samples' = Samples!Take(samples)
            /\ waiting' = IF overlapped THEN waiting ELSE Tail(waiting)
            /\ UNCHANGED <<emulator, overlapped, split>>

PopLooksAgain == /\ player.at = "count"
                 /\ player.seen # samples.elems_count
                 /\ player' = [player EXCEPT !.seen = samples.elems_count]
                 /\ UNCHANGED <<samples, emulator, waiting, overlapped, split>>

PopCounts == /\ player.at = "count"
             /\ samples' = Samples!Recount(samples, player.seen - 1)
             /\ player' = [player EXCEPT !.at = "loop"]
             /\ UNCHANGED <<emulator, waiting, overlapped, split>>

\* The loop ends, and all of buffer is played, whatever was popped into it.
ChunkEnds == /\ player.at = "loop"
             /\ Samples!IsEmpty(samples) \/ Len(player.chunk) >= ChunkSize
             /\ player' = [player EXCEPT !.at = "idle"]
             /\ UNCHANGED <<samples, emulator, waiting, overlapped, split>>
-----------------------------------------------------------------------------
Emulator == PushDropped \/ PushBegins \/ PushPuts \/ PushLooksAgain \/ PushCounts
Player   == \/ PlaySilence \/ ChunkBegins \/ ChunkEnds
            \/ PopBegins \/ PopTakes \/ PopLooksAgain \/ PopCounts

Next == Emulator \/ Player

Spec == Init /\ [][Next]_vars

\* The loop of GBA::run goes on sampling, and SFML asks for chunk after chunk.
FairSpec == Spec /\ WF_vars(Emulator) /\ WF_vars(Player)
-----------------------------------------------------------------------------
(* Whatever updates of elems_count undo each other, it stays between 0 and *)
(* the capacity, where below 0 it would wrap to a queue that never empties *)
(* and above the capacity to one that is never full, and the indices stay  *)
(* in the buffer.                                                          *)
CountInBounds == samples \in Samples!Queues

(* Until a push and a pop overlap the queue holds what was pushed and has  *)
(* not been popped, in that order, dropped samples apart.                  *)
InOrder == ~overlapped /\ emulator.at # "count" /\ player.at # "count"
              => Samples!Contents(samples) = waiting

(* ... and a chunk, which SFML plays to left and right in turn, has a left *)
(* sample at every left place, unless only one sample of a pair was ever   *)
(* dropped: a pop between the two pushes makes room for the right one.     *)
SidesKept == ~overlapped /\ ~split
                => \A k \in DOMAIN player.chunk : player.chunk[k] % 2 = (k - 1) % 2

(* ... and a chunk, of which all is played, is popped whole: none of it is *)
(* left over from an earlier one.                                          *)
ChunksWhole == [][ChunkEnds => overlapped \/ Len(player.chunk) = ChunkSize]_vars

(* Chunk after chunk is played: no lost update leaves a count at which one *)
(* thread finds the queue full and the other finds it less than half full. *)
SoundPlayed == []<>(player.at = "take")
=============================================================================
