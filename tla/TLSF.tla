-------------------------------- MODULE TLSF --------------------------------
(***************************************************************************)
(* TLSFAllocator of tinygrad/runtime/support/memory.py as operators on a    *)
(* heap, a record with the fields of the class that change:                 *)
(*   total    size, the length of the managed space;                        *)
(*   blocks   blocks: from the start of a block to its size, the start of   *)
(*            the block before it and whether it is free (its `next' is     *)
(*            always start + size, which every assignment in the code sets); *)
(*   bins     storage: from a pair of levels to the free blocks, oldest      *)
(*            first;                                                        *)
(*   entries  lv1_entries: how many free blocks a first level has;          *)
(*   merging  the block whose merge with its neighbours is under way.       *)
(* An iteration of a merge loop is one application of MergeStep.  Addresses *)
(* are relative to `base'.                                                  *)
(***************************************************************************)
EXTENDS Integers, Sequences, FiniteSets

CONSTANTS
  BlockSize,  \* the least size of a block that is handed out
  L2Cnt       \* l2_cnt, the bit length of the number of second-level buckets

NoBlock == -1

\* int.bit_length
BitLength(n) == CHOOSE k \in 0..n : n < 2^k /\ (k = 0 \/ 2^(k - 1) <= n)

\* The shift by size.bit_length() - l2_cnt in alloc is never negative.
ASSUME TLSFAssumption ==
  /\ BlockSize \in Nat \ {0} /\ L2Cnt \in Nat \ {0}
  /\ BitLength(BlockSize) >= L2Cnt

Lv1(size) == BitLength(size)
Lv2(size) ==
  LET bits == BitLength(size)
  IN  (size - 2^(bits - 1)) \div 2^(IF bits > L2Cnt THEN bits - L2Cnt ELSE 0)

Bucket(size) == <<Lv1(size), Lv2(size)>>

\* helpers.round_up
AlignUp(n, align) == ((n + align - 1) \div align) * align

Block(size, prev, free) == [size |-> size, prev |-> prev, free |-> free]

EndOf(h, start) == start + h.blocks[start].size

\* list.remove: the list without the first occurrence of start.
Without(list, start) ==
  LET at == CHOOSE i \in DOMAIN list :
              list[i] = start /\ \A j \in DOMAIN list : list[j] = start => i <= j
  IN  [i \in 1..(Len(list) - 1) |-> list[IF i < at THEN i ELSE i + 1]]

Only(condition, start) == IF condition THEN <<start>> ELSE <<>>
One(condition) == IF condition THEN 1 ELSE 0

\* _insert_block: start becomes a free block of this size, the last of its bin.
InsertBlock(h, start, size, prev) ==
  [h EXCEPT !.bins[Bucket(size)] = Append(@, start),
            !.entries[Lv1(size)] = @ + 1,
            !.blocks = [s \in DOMAIN @ \cup {start} |->
                          IF s = start THEN Block(size, prev, TRUE) ELSE @[s]]]

NewHeap(size) ==
  InsertBlock(
    [total   |-> size,
     blocks  |-> [s \in {} |-> Block(size, NoBlock, TRUE)],
     bins    |-> [b \in (0..BitLength(size)) \X (0..(2^L2Cnt - 1)) |-> <<>>],
     entries |-> [l \in 0..BitLength(size) |-> 0],
     merging |-> NoBlock],
    0, size, NoBlock)

-----------------------------------------------------------------------------
\* A request is at least a block.
Request(reqSize) == IF reqSize < BlockSize THEN BlockSize ELSE reqSize

\* The size alloc searches for: with room to align, rounded up to the next bucket
\* so that every block of a bucket fits.
SearchSize(reqSize, align) ==
  LET size == Request(Request(reqSize) + align - 1)
  IN  AlignUp(size, 2^(BitLength(size) - L2Cnt))

\* The buckets the two loops of alloc stop at.
Candidates(h, size) ==
  {b \in DOMAIN h.bins :
     /\ b[1] >= Lv1(size) /\ h.entries[b[1]] # 0
     /\ b[1] = Lv1(size) => b[2] >= Lv2(size)
     /\ h.bins[b] # <<>>}

\* The block alloc chooses, the oldest of the first such bucket in the order of the
\* loops, as a set: when it is empty alloc raises MemoryError.
Chosen(h, reqSize, align) ==
  LET found == Candidates(h, SearchSize(reqSize, align))
  IN  {Head(h.bins[b]) : b \in
         {b \in found : \A c \in found : b[1] < c[1] \/ (b[1] = c[1] /\ b[2] <= c[2])}}

\* The assertion of alloc on the block it has chosen.
BlockFits(h, chosen, reqSize, align) ==
  h.blocks[chosen].size >= SearchSize(reqSize, align)

RestMutant(h, chosen, start, size) == h.blocks[chosen].size - size
\* What of the chosen block is behind the request.
Rest(h, chosen, start, size) == chosen + h.blocks[chosen].size - (start + size)

\* The heap alloc leaves when it takes size bytes at start out of the chosen block:
\* _split_block splits off what is before start and what is after the request, and
\* tells the block behind where its predecessor starts now.
Alloc(h, chosen, start, size) ==
  LET whole == h.blocks[chosen].size
      rest  == Rest(h, chosen, start, size)
      front == start # chosen
      tail  == rest > 0
      last  == IF tail THEN start + size ELSE start
  IN  [h EXCEPT
        !.blocks =
          [s \in DOMAIN @ \cup {start, last} |->
             IF s = start THEN Block(size, IF front THEN chosen ELSE @[chosen].prev, FALSE)
             ELSE IF s = chosen THEN Block(start - chosen, @[chosen].prev, TRUE)
             ELSE IF s = last THEN Block(rest, start, TRUE)
             ELSE IF s = chosen + whole THEN [@[s] EXCEPT !.prev = last]
             ELSE @[s]],
        !.bins =
          [b \in DOMAIN @ |->
             (IF b = Bucket(whole) THEN Without(@[b], chosen) ELSE @[b])
               \o Only(front /\ b = Bucket(start - chosen), chosen)
               \o Only(tail /\ b = Bucket(rest), start + size)],
        !.entries =
          [l \in DOMAIN @ |-> @[l] - One(l = Lv1(whole))
                              + One(front /\ l = Lv1(start - chosen))
                              + One(tail /\ l = Lv1(rest))]]

-----------------------------------------------------------------------------
PrevFree(h, start) ==
  LET prev == h.blocks[start].prev IN prev # NoBlock /\ h.blocks[prev].free
NextFree(h, start) ==
  LET next == EndOf(h, start) IN next \in DOMAIN h.blocks /\ h.blocks[next].free

\* free, up to its call of _merge_block
FreeBlock(h, start) ==
  [InsertBlock(h, start, h.blocks[start].size, h.blocks[start].prev)
     EXCEPT !.merging = start]

Busy(h) == h.merging # NoBlock

\* One iteration of the loop of _merge_right: the free block behind start joins it.
MergeNext(h, start) ==
  LET next == EndOf(h, start)
      size == h.blocks[start].size
      more == h.blocks[next].size
  IN  [h EXCEPT
        !.blocks =
          [s \in DOMAIN @ \ {next} |->
             IF s = start THEN [@[s] EXCEPT !.size = size + more] ELSE @[s]],
        !.bins =
          [b \in DOMAIN @ |->
             LET kept == IF b = Bucket(size) THEN Without(@[b], start) ELSE @[b]
             IN  (IF b = Bucket(more) THEN Without(kept, next) ELSE kept)
                   \o Only(b = Bucket(size + more), start)],
        !.entries =
          [l \in DOMAIN @ |-> @[l] - One(l = Lv1(size)) - One(l = Lv1(more))
                              + One(l = Lv1(size + more))]]

MergeDoneMutant(h, start) == [h EXCEPT !.merging = NoBlock]
\* The end of _merge_right: the block behind start is told about it.
MergeDone(h, start) ==
  [h EXCEPT !.merging = NoBlock,
            !.blocks = [s \in DOMAIN @ |->
                          IF s = EndOf(h, start) THEN [@[s] EXCEPT !.prev = start]
                          ELSE @[s]]]

\* _merge_block: left while the block before is free, then right, then the link.
MergeStep(h) ==
  LET start == h.merging
  IN  IF PrevFree(h, start) THEN [h EXCEPT !.merging = h.blocks[start].prev]
      ELSE IF NextFree(h, start) THEN MergeNext(h, start)
      ELSE MergeDone(h, start)

-----------------------------------------------------------------------------
\* What is handed out, as pairs of start and size.
Taken(h) ==
  {<<s, h.blocks[s].size>> : s \in {t \in DOMAIN h.blocks : ~h.blocks[t].free}}

\* The links and the bins agree with the blocks: blocks tile the space, a bin lists
\* exactly the free blocks of its sizes, the counts are right and, between calls, a
\* block's predecessor ends where it starts and no two neighbours are free.
HeapOK(h) ==
  LET D == DOMAIN h.blocks IN
  /\ 0 \in D
  /\ \A s \in D : EndOf(h, s) = h.total \/ EndOf(h, s) \in D
  /\ \A s, t \in D : s < t => EndOf(h, s) <= t
  /\ \A b \in DOMAIN h.bins : \A i \in DOMAIN h.bins[b] :
       LET s == h.bins[b][i]
       IN  /\ s \in D /\ h.blocks[s].free /\ Bucket(h.blocks[s].size) = b
           /\ \A j \in DOMAIN h.bins[b] : h.bins[b][j] = s => i = j
  /\ \A s \in D : h.blocks[s].free =>
       \E i \in DOMAIN h.bins[Bucket(h.blocks[s].size)] :
         h.bins[Bucket(h.blocks[s].size)][i] = s
  /\ LET levels == [s \in {t \in D : h.blocks[t].free} |-> Lv1(h.blocks[s].size)]
     IN  \A l \in DOMAIN h.entries :
           h.entries[l] = Cardinality({s \in DOMAIN levels : levels[s] = l})
  /\ ~Busy(h) =>
       \A s \in D :
         /\ IF s = 0 THEN h.blocks[s].prev = NoBlock
            ELSE h.blocks[s].prev \in D /\ EndOf(h, h.blocks[s].prev) = s
         /\ h.blocks[s].free => ~PrevFree(h, s) /\ ~NextFree(h, s)
=============================================================================
