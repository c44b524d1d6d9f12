-------------------------- MODULE IntervalAllocator --------------------------
(***************************************************************************)
(* What TLSFAllocator of tinygrad/runtime/support/memory.py promises: alloc *)
(* hands out an interval of the space that overlaps no other, free takes    *)
(* back exactly one that was handed out, and nothing else changes what is    *)
(* handed out.                                                              *)
(***************************************************************************)
EXTENDS Integers

CONSTANT Total  \* size

VARIABLE taken  \* the intervals handed out, as pairs of start and length

Init == taken = {}

Apart(i, j) == i[1] + i[2] <= j[1] \/ j[1] + j[2] <= i[1]

\* alloc of this interval
Allocate(i) ==
  /\ i[1] >= 0 /\ i[2] > 0 /\ i[1] + i[2] <= Total
  /\ \A j \in taken : Apart(i, j)
  /\ taken' = taken \cup {i}

\* free
Free(i) == taken' = taken \ {i}

Next == (\E i \in taken' : Allocate(i)) \/ (\E i \in taken : Free(i))

Spec == Init /\ [][Next]_taken
=============================================================================
