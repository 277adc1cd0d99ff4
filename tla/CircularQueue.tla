---------------------------- MODULE CircularQueue ----------------------------
(***************************************************************************)
(* The queue of common/circular_queue.hpp, as data: each operation returns *)
(* the queue it leaves.  Push and Pop are given in the parts that a thread *)
(* performs one after the other.                                           *)
(***************************************************************************)
EXTENDS Integers

CONSTANTS
    N,       \* the capacity, at least 1
    Values   \* what it holds; 0 is among them, the initial elements

Queues == [elems : [0 .. N - 1 -> Values], elems_count : 0 .. N,
           startIndex : 0 .. N - 1, endIndex : 0 .. N - 1]

Empty == [elems |-> [k \in 0 .. N - 1 |-> 0], elems_count |-> 0,
          startIndex |-> 0, endIndex |-> 0]

(* Mutant of IsFull.                                                       *)
IsFullPastCapacity(q) == q.elems_count > N
-----------------------------------------------------------------------------
IsFull(q)  == q.elems_count = N
IsEmpty(q) == q.elems_count = 0

Next(index) == IF index + 1 = N THEN 0 ELSE index + 1

(* Mutant of Put: the index moves first.                                   *)
PutBehind(q, value) == [q EXCEPT !.elems[Next(q.endIndex)] = value, !.endIndex = Next(@)]
-----------------------------------------------------------------------------
(* The parts of Push and Pop: the element, then the count.                 *)
Put(q, value)  == [q EXCEPT !.elems[q.endIndex] = value, !.endIndex = Next(@)]
Front(q)       == q.elems[q.startIndex]
Take(q)        == [q EXCEPT !.startIndex = Next(@)]
Recount(q, n)  == [q EXCEPT !.elems_count = n]

(* What the queue holds, oldest first.                                     *)
Contents(q) == [k \in 1 .. q.elems_count |-> q.elems[(q.startIndex + k - 1) % N]]
=============================================================================
