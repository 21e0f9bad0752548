----------------------------- MODULE TimerHeap -----------------------------
(***************************************************************************)
(* The binary heap of a TimerQueue: entries ordered by deadline, each      *)
(* knowing its own place so that cancel() can take it out of the middle.   *)
(* s.heap is the vector (counted from 1), s.index the heapIndex of every   *)
(* entry, 0 when it is not queued; due[e] is the deadline of e.            *)
(***************************************************************************)
EXTENDS Naturals, Sequences

NotQueued == 0

swapAt(s, a, b) ==
    [heap |-> [s.heap EXCEPT ![a] = s.heap[b], ![b] = s.heap[a]],
     index |-> [s.index EXCEPT ![s.heap[b]] = a, ![s.heap[a]] = b]]

\* Climb[n] and Sink[n]: the heap, and where the entry is, after n rounds of the loop.
siftUp(s, due, i) ==
    LET Climb[n \in Nat] ==
            IF n = 0 THEN [s |-> s, at |-> i]
            ELSE LET c == Climb[n - 1]
                     parent == c.at \div 2
                 IN  IF c.at = 1 THEN c
                     ELSE IF due[c.s.heap[c.at]] >= due[c.s.heap[parent]] THEN c
                     ELSE [s |-> swapAt(c.s, c.at, parent), at |-> parent]
    IN  Climb[Len(s.heap)].s

siftDown(s, due, i) ==
    LET Sink[n \in Nat] ==
            IF n = 0 THEN [s |-> s, at |-> i]
            ELSE LET c == Sink[n - 1]
                     d(j) == due[c.s.heap[j]]
                     Below(j) == j <= Len(s.heap) /\ d(j) < d(c.at)
                     left == 2 * c.at
                     right == left + 1
                     smallest == IF Below(right) /\ ~(Below(left) /\ d(left) <= d(right))
                                 THEN right ELSE IF Below(left) THEN left ELSE c.at
                 IN  IF smallest = c.at THEN c
                     ELSE [s |-> swapAt(c.s, c.at, smallest), at |-> smallest]
    IN  Sink[Len(s.heap)].s

HeapAdd(s, due, e) ==
    LET last == Len(s.heap) + 1
    IN  siftUp([heap |-> Append(s.heap, e), index |-> [s.index EXCEPT ![e] = last]], due, last)

\* The last entry takes the place of the removed one ...
TakeOut(s, i) ==
    LET last == Len(s.heap)
        swapped == swapAt(s, i, last)
    IN  [heap |-> SubSeq(swapped.heap, 1, last - 1),
         index |-> [swapped.index EXCEPT ![s.heap[i]] = NotQueued]]
\* Mutant: the entry that fills the gap never moves up.
RemoveSiftsDownOnly(s, due, i) ==
    IF i = Len(s.heap) THEN TakeOut(s, i) ELSE siftDown(TakeOut(s, i), due, i)
\* ... and may belong below it or, in another branch of the heap, above it.
removeLocked(s, due, i) ==
    IF i = Len(s.heap) THEN TakeOut(s, i)
    ELSE siftUp(siftDown(TakeOut(s, i), due, i), due, i)

-----------------------------------------------------------------------------
(* The heap by itself: entries of fixed deadlines come, expire or leave.   *)

CONSTANTS Entries, Due     \* the deadline of each entry
VARIABLE queue

Init == queue = [heap |-> <<>>, index |-> [e \in Entries |-> NotQueued]]
Cancel(e) ==
    /\ queue.index[e] # NotQueued
    /\ queue' = removeLocked(queue, Due, queue.index[e])
Queue(e) ==
    /\ queue.index[e] = NotQueued
    /\ queue' = HeapAdd(queue, Due, e)
Fire == queue.heap # <<>> /\ queue' = removeLocked(queue, Due, 1)
Next == Fire \/ \E e \in Entries : Queue(e) \/ Cancel(e)

\* Whatever is cancelled out of the middle, the earliest deadline is at the
\* top and every queued entry is where its heapIndex says.
Ordered(s, due) ==
    /\ \A i \in 2 .. Len(s.heap) : due[s.heap[i \div 2]] <= due[s.heap[i]]
    /\ \A e \in DOMAIN s.index :
          IF s.index[e] = NotQueued THEN \A i \in DOMAIN s.heap : s.heap[i] # e
          ELSE s.index[e] \in DOMAIN s.heap /\ s.heap[s.index[e]] = e
HeapInOrder == Ordered(queue, Due)
=============================================================================
