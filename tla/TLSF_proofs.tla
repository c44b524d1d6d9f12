---------------------------- MODULE TLSF_proofs ----------------------------
(***************************************************************************)
(* What the operators of TLSF do to a heap, for every size of heap, block   *)
(* and bucket: alloc, free and each iteration of a merge keep the invariant *)
(* HeapInv and then HeapShape, and what is handed out changes as it should. *)
(* Then what powers, bit lengths, levels and buckets are, and lists of      *)
(* pieces of memory.                                                        *)
(***************************************************************************)
EXTENDS TLSF, SequenceTheorems, FiniteSetTheorems, WellFoundedInduction, TLAPS

BlockType == [size : Nat \ {0}, prev : Int, free : BOOLEAN]

HeapType(h) ==
  /\ DOMAIN h = {"total", "blocks", "bins", "entries", "merging"}
  /\ h.total \in Nat /\ h.merging \in Int
  /\ DOMAIN h.blocks \subseteq Nat
  /\ h.blocks \in [DOMAIN h.blocks -> BlockType]

\* Blocks lie in the space and one behind the other.
Tiles(h) ==
  /\ \A s \in DOMAIN h.blocks : EndOf(h, s) <= h.total
  /\ \A s, t \in DOMAIN h.blocks : s < t => EndOf(h, s) <= t

Listed(list) == {list[i] : i \in DOMAIN list}
Distinct(list) == \A i, j \in DOMAIN list : list[i] = list[j] => i = j

FreeOf(h, b) == {s \in DOMAIN h.blocks : h.blocks[s].free /\ Bucket(h.blocks[s].size) = b}

\* A bin lists the free blocks of its sizes, each once.
BinOK(h, b) ==
  /\ h.bins[b] \in Seq(Nat) /\ Distinct(h.bins[b])
  /\ Listed(h.bins[b]) = FreeOf(h, b)

BinsOK(h) == \A b \in DOMAIN h.bins : BinOK(h, b)

\* The block before s ends where s starts.  While a merge is under way this may fail for
\* the block behind the one that grows, and the block before that one is not free then.
Linked(h, s) ==
  LET prev == h.blocks[s].prev
  IN  prev = NoBlock \/ (prev \in DOMAIN h.blocks /\ EndOf(h, prev) = s)

Links(h) ==
  \A s \in DOMAIN h.blocks :
    Linked(h, s) \/ (Busy(h) /\ s = EndOf(h, h.merging) /\ ~PrevFree(h, h.merging))

MergingFree(h) == Busy(h) => h.merging \in DOMAIN h.blocks /\ h.blocks[h.merging].free

HeapInv(h) == HeapType(h) /\ Tiles(h) /\ BinsOK(h) /\ Links(h) /\ MergingFree(h)

\* A block that is handed out
IsTaken(h, s) == s \in DOMAIN h.blocks /\ ~h.blocks[s].free

-----------------------------------------------------------------------------
(* Lists without repetitions.                                              *)

LEMMA AppendListed ==
  ASSUME NEW list \in Seq(Nat), Distinct(list), NEW x \in Nat, x \notin Listed(list)
  PROVE  /\ Append(list, x) \in Seq(Nat) /\ Distinct(Append(list, x))
         /\ Listed(Append(list, x)) = Listed(list) \cup {x}
<1> DEFINE new == Append(list, x)
<1>1. /\ new \in Seq(Nat) /\ DOMAIN new = 1..(Len(list) + 1) /\ DOMAIN list = 1..Len(list)
      /\ Len(list) \in Nat
      /\ \A i \in DOMAIN list : new[i] = list[i]
      /\ new[Len(list) + 1] = x
  BY AppendProperties, LenProperties
<1> HIDE DEF new
<1>2. Distinct(new)
  <2> SUFFICES ASSUME NEW i \in DOMAIN new, NEW j \in DOMAIN new, new[i] = new[j] PROVE i = j
    BY DEF Distinct
  <2>1. CASE i \in DOMAIN list /\ j \in DOMAIN list
    BY <1>1, <2>1 DEF Distinct
  <2>2. CASE i = Len(list) + 1 /\ j \in DOMAIN list
    BY <1>1, <2>2 DEF Listed
  <2>3. CASE i \in DOMAIN list /\ j = Len(list) + 1
    BY <1>1, <2>3 DEF Listed
  <2> QED
    BY <1>1, <2>1, <2>2, <2>3
<1>3. Listed(new) = Listed(list) \cup {x}
  <2>1. \A y \in Listed(new) : y \in Listed(list) \cup {x}
    BY <1>1 DEF Listed
  <2>2. x \in Listed(new)
    BY <1>1 DEF Listed
  <2>3. \A y \in Listed(list) : y \in Listed(new)
    BY <1>1 DEF Listed
  <2> QED
    BY <2>1, <2>2, <2>3
<1> QED
  BY <1>1, <1>2, <1>3 DEF new

LEMMA WithoutListed ==
  ASSUME NEW list \in Seq(Nat), Distinct(list), NEW x \in Listed(list)
  PROVE  /\ Without(list, x) \in Seq(Nat) /\ Distinct(Without(list, x))
         /\ Listed(Without(list, x)) = Listed(list) \ {x}
<1>1. PICK at \in DOMAIN list : list[at] = x
  BY DEF Listed
<1>2. at = CHOOSE i \in DOMAIN list : list[i] = x /\ \A j \in DOMAIN list : list[j] = x => i <= j
  <2>1. \A i \in DOMAIN list : list[i] = x => i = at
    BY <1>1 DEF Distinct
  <2>2. at <= at
    BY <1>1, LenProperties
  <2> QED
    BY <1>1, <2>1, <2>2
<1> DEFINE n   == Len(list)
           new == [i \in 1..(n - 1) |-> list[IF i < at THEN i ELSE i + 1]]
<1>3. Without(list, x) = new
  BY <1>2 DEF Without
<1>4. n \in Nat /\ DOMAIN list = 1..n /\ at \in 1..n /\ \A i \in 1..n : list[i] \in Nat
  BY <1>1, LenProperties, ElementOfSeq
<1> HIDE DEF n
<1>5. \A i \in 1..(n - 1) : (IF i < at THEN i ELSE i + 1) \in 1..n
  BY <1>4
<1>6. new \in Seq(Nat) /\ DOMAIN new = 1..(n - 1)
  <2>1. new \in [1..(n - 1) -> Nat]
    BY <1>4, <1>5
  <2>2. n - 1 \in Nat
    BY <1>4
  <2> HIDE DEF new
  <2>3. \E m \in Nat : new \in [1..m -> Nat]
    BY <2>1, <2>2
  <2>4. new \in Seq(Nat)
    BY <2>3, SeqDef
  <2> QED
    BY <2>1, <2>4
<1>7. Distinct(new)
  <2> SUFFICES ASSUME NEW i \in 1..(n - 1), NEW j \in 1..(n - 1), new[i] = new[j] PROVE i = j
    BY <1>6 DEF Distinct
  <2>1. (IF i < at THEN i ELSE i + 1) = (IF j < at THEN j ELSE j + 1)
    BY <1>4, <1>5 DEF Distinct
  <2> QED
    BY <2>1, <1>4
<1>8. Listed(new) = Listed(list) \ {x}
  <2>1. ASSUME NEW y \in Listed(new) PROVE y \in Listed(list) \ {x}
    <3>1. PICK i \in 1..(n - 1) : y = new[i]
      BY <2>1, <1>6 DEF Listed
    <3>2. PICK k \in 1..n : k # at /\ y = list[k]
      BY <3>1, <1>4, <1>5
    <3> QED
      BY <3>2, <1>1, <1>4 DEF Listed, Distinct
  <2>2. ASSUME NEW y \in Listed(list) \ {x} PROVE y \in Listed(new)
    <3>1. PICK k \in 1..n : y = list[k]
      BY <2>2, <1>4 DEF Listed
    <3>2. k # at
      BY <3>1, <2>2, <1>1
    <3>3. PICK i \in 1..(n - 1) : new[i] = list[k]
      <4>1. CASE k < at
        <5>1. k \in 1..(n - 1) /\ new[k] = list[k]
          BY <4>1, <1>4
        <5> QED
          BY <5>1
      <4>2. CASE k > at
        <5>1. k - 1 \in 1..(n - 1) /\ ~(k - 1 < at) /\ (k - 1) + 1 = k
          BY <4>2, <1>4
        <5>2. new[k - 1] = list[k]
          BY <5>1
        <5> QED
          BY <5>1, <5>2
      <4> QED
        BY <3>2, <4>1, <4>2, <1>4
    <3> QED
      BY <3>1, <3>3, <1>6 DEF Listed
  <2> QED
    BY <2>1, <2>2
<1> QED
  BY <1>3, <1>6, <1>7, <1>8

\* The end of a bin that gets one block or none.
LEMMA OnlyListed ==
  ASSUME NEW list \in Seq(Nat), Distinct(list), NEW x \in Nat, x \notin Listed(list)
  PROVE  /\ list \o Only(TRUE, x) \in Seq(Nat) /\ Distinct(list \o Only(TRUE, x))
         /\ Listed(list \o Only(TRUE, x)) = Listed(list) \cup {x}
<1>1. list \o Only(TRUE, x) = Append(list, x)
  BY AppendIsConcat DEF Only
<1> QED
  BY <1>1, AppendListed

LEMMA NoneListed ==
  ASSUME NEW list \in Seq(Nat), NEW x
  PROVE  list \o Only(FALSE, x) = list
  BY ConcatEmptySeq DEF Only

-----------------------------------------------------------------------------
(* A free block is inserted: a new heap, and free.                         *)

\* g is h with a free block of this size at start.
Inserted(h, g, start, size, prev) ==
  /\ DOMAIN g = DOMAIN h /\ g.total = h.total /\ g.merging = h.merging
  /\ g.blocks = [s \in DOMAIN h.blocks \cup {start} |->
                   IF s = start THEN Block(size, prev, TRUE) ELSE h.blocks[s]]
  /\ DOMAIN g.bins = DOMAIN h.bins
  /\ \A b \in DOMAIN h.bins :
       g.bins[b] = IF b = Bucket(size) THEN Append(h.bins[b], start) ELSE h.bins[b]

LEMMA InsertFields ==
  ASSUME NEW h, HeapType(h), NEW start, NEW size, NEW prev
  PROVE  Inserted(h, InsertBlock(h, start, size, prev), start, size, prev)
  BY DEF HeapType, InsertBlock, Inserted

LEMMA NewHeapInv ==
  ASSUME NEW total \in Nat \ {0}
  PROVE  /\ HeapInv(NewHeap(total)) /\ NewHeap(total).total = total
         /\ ~Busy(NewHeap(total)) /\ \A s : ~IsTaken(NewHeap(total), s)
<1> DEFINE h == [total   |-> total,
                 blocks  |-> [s \in {} |-> Block(total, NoBlock, TRUE)],
                 bins    |-> [b \in (0..BitLength(total)) \X (0..(2^L2Cnt - 1)) |-> <<>>],
                 entries |-> [l \in 0..BitLength(total) |-> 0],
                 merging |-> NoBlock]
           g == InsertBlock(h, 0, total, NoBlock)
<1>1. g = NewHeap(total)
  BY DEF NewHeap
<1>2. HeapType(h)
  BY DEF HeapType, NoBlock
<1>3. /\ DOMAIN h.blocks = {} /\ h.total = total /\ h.merging = NoBlock
      /\ \A b \in DOMAIN h.bins : h.bins[b] = <<>>
  OBVIOUS
<1> HIDE DEF h
<1>i. Inserted(h, g, 0, total, NoBlock)
  BY <1>2, InsertFields
<1> HIDE DEF g
<1>4. /\ DOMAIN g = DOMAIN h /\ g.total = total /\ g.merging = NoBlock
      /\ DOMAIN g.blocks = {0} /\ g.blocks[0] = Block(total, NoBlock, TRUE)
      /\ g.blocks = [s \in {0} |-> Block(total, NoBlock, TRUE)]
      /\ DOMAIN g.bins = DOMAIN h.bins
      /\ \A b \in DOMAIN g.bins : g.bins[b] = IF b = Bucket(total) THEN Append(<<>>, 0) ELSE <<>>
  BY <1>i, <1>3 DEF Inserted
<1>5. HeapType(g)
  BY <1>2, <1>4 DEF HeapType, Block, BlockType, NoBlock
<1>6. Tiles(g) /\ Links(g) /\ MergingFree(g) /\ ~Busy(g) /\ \A s : ~IsTaken(g, s)
  BY <1>4 DEF Tiles, EndOf, Links, Linked, MergingFree, Busy, IsTaken, Block, NoBlock
<1>7. ASSUME NEW b \in DOMAIN g.bins PROVE BinOK(g, b)
  <2>1. <<>> \in Seq(Nat) /\ Distinct(<<>>) /\ Listed(<<>>) = {}
    BY EmptySeq DEF Distinct, Listed
  <2>2. FreeOf(g, b) = IF b = Bucket(total) THEN {0} ELSE {}
    BY <1>4 DEF FreeOf, Block
  <2>3. CASE b = Bucket(total)
    BY <2>1, <2>2, <2>3, <1>4, AppendListed DEF BinOK
  <2>4. CASE b # Bucket(total)
    BY <2>1, <2>2, <2>4, <1>4 DEF BinOK
  <2> QED
    BY <2>3, <2>4
<1> QED
  BY <1>1, <1>4, <1>5, <1>6, <1>7 DEF HeapInv, BinsOK

LEMMA FreeKeeps ==
  ASSUME NEW h, HeapInv(h), ~Busy(h), NEW start, IsTaken(h, start)
  PROVE  LET g == FreeBlock(h, start)
         IN  /\ HeapInv(g) /\ g.total = h.total
             /\ DOMAIN g.blocks = DOMAIN h.blocks
             /\ \A s \in DOMAIN h.blocks : g.blocks[s].size = h.blocks[s].size
             /\ \A s : IsTaken(g, s) <=> IsTaken(h, s) /\ s # start
<1> DEFINE size == h.blocks[start].size
           prev == h.blocks[start].prev
           i == InsertBlock(h, start, size, prev)
           g == FreeBlock(h, start)
<1>0. /\ HeapType(h) /\ start \in Nat /\ start \in DOMAIN h.blocks /\ h.blocks[start] \in BlockType
      /\ ~h.blocks[start].free
  BY DEF HeapInv, HeapType, IsTaken
<1>i. Inserted(h, i, start, size, prev)
  BY <1>0, InsertFields
<1>g. g = [i EXCEPT !.merging = start]
  BY DEF FreeBlock
<1> HIDE DEF i, g
<1>1. /\ DOMAIN i = DOMAIN h /\ i.total = h.total
      /\ DOMAIN i.blocks = DOMAIN h.blocks
      /\ \A s \in DOMAIN h.blocks : s # start => i.blocks[s] = h.blocks[s]
      /\ i.blocks[start] = Block(size, prev, TRUE)
      /\ i.blocks = [s \in DOMAIN i.blocks |-> i.blocks[s]]
      /\ DOMAIN i.bins = DOMAIN h.bins
      /\ \A b \in DOMAIN h.bins :
           i.bins[b] = IF b = Bucket(size) THEN Append(h.bins[b], start) ELSE h.bins[b]
  BY <1>0, <1>i DEF Inserted
<1>2. /\ DOMAIN g = DOMAIN h /\ g.total = h.total /\ g.merging = start
      /\ g.blocks = i.blocks /\ g.bins = i.bins
  BY <1>g, <1>0, <1>1 DEF HeapType
<1>3. /\ DOMAIN g.blocks = DOMAIN h.blocks
      /\ \A s \in DOMAIN h.blocks : s # start => g.blocks[s] = h.blocks[s]
      /\ g.blocks[start] = Block(size, prev, TRUE)
      /\ g.blocks = [s \in DOMAIN g.blocks |-> g.blocks[s]]
      /\ DOMAIN g.bins = DOMAIN h.bins
      /\ \A b \in DOMAIN h.bins :
           g.bins[b] = IF b = Bucket(size) THEN Append(h.bins[b], start) ELSE h.bins[b]
  BY <1>1, <1>2
<1>4. HeapType(g)
  <2>1. Block(size, prev, TRUE) \in BlockType
    BY <1>0 DEF Block, BlockType
  <2>2. \A s \in DOMAIN h.blocks : g.blocks[s] \in BlockType
    BY <1>0, <1>3, <2>1 DEF HeapType
  <2>3. g.blocks \in [DOMAIN g.blocks -> BlockType]
    BY <1>3, <2>2
  <2> QED
    BY <1>0, <1>2, <1>3, <2>3 DEF HeapType
<1>5. \A s \in DOMAIN h.blocks : /\ g.blocks[s].size = h.blocks[s].size
                                 /\ g.blocks[s].prev = h.blocks[s].prev
                                 /\ EndOf(g, s) = EndOf(h, s)
  BY <1>3 DEF Block, EndOf
<1>6. Tiles(g)
  BY <1>2, <1>3, <1>5 DEF HeapInv, Tiles
<1>7. Links(g) /\ MergingFree(g)
  <2>1. \A s \in DOMAIN h.blocks : Linked(h, s)
    BY DEF HeapInv, Links
  <2>2. \A s \in DOMAIN g.blocks : Linked(g, s)
    BY <2>1, <1>3, <1>5 DEF Linked
  <2> QED
    BY <2>2, <1>0, <1>2, <1>3 DEF Links, MergingFree, Block
<1>8. ASSUME NEW b \in DOMAIN g.bins PROVE BinOK(g, b)
  <2>0. b \in DOMAIN h.bins /\ BinOK(h, b)
    BY <1>3 DEF HeapInv, BinsOK
  <2>1. start \notin FreeOf(h, b)
    BY <1>0 DEF FreeOf
  <2>2. CASE b = Bucket(size)
    <3>1. FreeOf(g, b) = FreeOf(h, b) \cup {start}
      BY <1>0, <1>3, <2>2 DEF FreeOf, Block
    <3>2. g.bins[b] = Append(h.bins[b], start)
      BY <1>3, <2>0, <2>2
    <3> QED
      BY <1>0, <2>0, <2>1, <3>1, <3>2, AppendListed DEF BinOK
  <2>3. CASE b # Bucket(size)
    <3>1. FreeOf(g, b) = FreeOf(h, b)
      BY <1>0, <1>3, <2>3 DEF FreeOf, Block
    <3>2. g.bins[b] = h.bins[b]
      BY <1>3, <2>0, <2>3
    <3> QED
      BY <2>0, <3>1, <3>2 DEF BinOK
  <2> QED
    BY <2>2, <2>3
<1>9. \A s : IsTaken(g, s) <=> IsTaken(h, s) /\ s # start
  BY <1>0, <1>3 DEF IsTaken, Block
<1> QED
  BY <1>2, <1>3, <1>4, <1>5, <1>6, <1>7, <1>8, <1>9 DEF HeapInv, BinsOK, g

-----------------------------------------------------------------------------
(* The lists and the blocks.                                               *)

LEMMA ListsBlock ==
  ASSUME NEW h, HeapInv(h), NEW b \in DOMAIN h.bins, NEW s \in DOMAIN h.blocks, h.blocks[s].free
  PROVE  b = Bucket(h.blocks[s].size) <=> s \in Listed(h.bins[b])
  BY DEF HeapInv, BinsOK, BinOK, FreeOf

\* The block alloc chooses is a free one.
LEMMA ChosenFree ==
  ASSUME NEW h, HeapInv(h), NEW reqSize, NEW align, NEW at \in Chosen(h, reqSize, align)
  PROVE  at \in DOMAIN h.blocks /\ h.blocks[at].free
<1>1. PICK b \in DOMAIN h.bins : h.bins[b] # <<>> /\ at = Head(h.bins[b])
  BY DEF Chosen, Candidates
<1>2. h.bins[b] \in Seq(Nat) /\ Listed(h.bins[b]) = FreeOf(h, b)
  BY DEF HeapInv, BinsOK, BinOK
<1>3. Head(h.bins[b]) = h.bins[b][1] /\ 1 \in DOMAIN h.bins[b]
  BY <1>1, <1>2, HeadTailProperties, EmptySeq, LenProperties
<1> QED
  BY <1>1, <1>2, <1>3 DEF Listed, FreeOf

-----------------------------------------------------------------------------
(* A merge.                                                                *)

\* g is h with the blocks at start and next as one.
Merged(h, g, start, next) ==
  /\ DOMAIN g = DOMAIN h /\ g.total = h.total /\ g.merging = h.merging
  /\ DOMAIN g.blocks = DOMAIN h.blocks \ {next}
  /\ g.blocks = [s \in DOMAIN g.blocks |-> g.blocks[s]]
  /\ g.blocks[start] = [h.blocks[start] EXCEPT !.size = @ + h.blocks[next].size]
  /\ \A s \in DOMAIN h.blocks \ {start, next} : g.blocks[s] = h.blocks[s]
  /\ DOMAIN g.bins = DOMAIN h.bins
  /\ \A b \in DOMAIN h.bins :
       \E kept, mid :
         /\ kept = IF b = Bucket(h.blocks[start].size) THEN Without(h.bins[b], start) ELSE h.bins[b]
         /\ mid = IF b = Bucket(h.blocks[next].size) THEN Without(kept, next) ELSE kept
         /\ g.bins[b] = mid \o Only(b = Bucket(h.blocks[start].size + h.blocks[next].size), start)

LEMMA MergeFields ==
  ASSUME NEW h, HeapType(h), NEW start \in DOMAIN h.blocks, NEW next, next = EndOf(h, start),
         next # start
  PROVE  Merged(h, MergeNext(h, start), start, next)
<1> DEFINE g == MergeNext(h, start)
<1>1. /\ DOMAIN g = DOMAIN h /\ g.total = h.total /\ g.merging = h.merging
      /\ g.blocks = [s \in DOMAIN h.blocks \ {next} |->
             IF s = start THEN [h.blocks[s] EXCEPT !.size = h.blocks[start].size + h.blocks[next].size]
             ELSE h.blocks[s]]
      /\ g.bins = [b \in DOMAIN h.bins |->
             LET kept == IF b = Bucket(h.blocks[start].size) THEN Without(h.bins[b], start)
                         ELSE h.bins[b]
             IN  (IF b = Bucket(h.blocks[next].size) THEN Without(kept, next) ELSE kept)
                   \o Only(b = Bucket(h.blocks[start].size + h.blocks[next].size), start)]
  BY DEF HeapType, MergeNext
<1> HIDE DEF g
<1>2. g.blocks[start] = [h.blocks[start] EXCEPT !.size = @ + h.blocks[next].size]
  BY <1>1
<1>3. DOMAIN g.bins = DOMAIN h.bins /\ DOMAIN g.blocks = DOMAIN h.blocks \ {next}
  BY <1>1
<1>4. \A s \in DOMAIN h.blocks \ {start, next} : g.blocks[s] = h.blocks[s]
  BY <1>1
<1>5. g.blocks = [s \in DOMAIN g.blocks |-> g.blocks[s]]
  BY <1>1
<1>6. ASSUME NEW b \in DOMAIN h.bins
      PROVE  \E kept, mid :
         /\ kept = IF b = Bucket(h.blocks[start].size) THEN Without(h.bins[b], start) ELSE h.bins[b]
         /\ mid = IF b = Bucket(h.blocks[next].size) THEN Without(kept, next) ELSE kept
         /\ g.bins[b] = mid \o Only(b = Bucket(h.blocks[start].size + h.blocks[next].size), start)
  <2> DEFINE kept == IF b = Bucket(h.blocks[start].size) THEN Without(h.bins[b], start) ELSE h.bins[b]
             mid == IF b = Bucket(h.blocks[next].size) THEN Without(kept, next) ELSE kept
  <2>1. g.bins[b] = mid \o Only(b = Bucket(h.blocks[start].size + h.blocks[next].size), start)
    BY <1>1
  <2> HIDE DEF mid
  <2>2. \E m : /\ m = IF b = Bucket(h.blocks[next].size) THEN Without(kept, next) ELSE kept
               /\ g.bins[b] = m \o Only(b = Bucket(h.blocks[start].size + h.blocks[next].size), start)
    BY <2>1 DEF mid
  <2> HIDE DEF kept
  <2> QED
    BY <2>2 DEF kept
<1>7. DOMAIN g = DOMAIN h /\ g.total = h.total /\ g.merging = h.merging
  BY <1>1
<1>8. Merged(h, g, start, next)
  BY <1>2, <1>3, <1>4, <1>5, <1>6, <1>7, Zenon DEF Merged
<1> QED
  BY <1>8 DEF g

LEMMA MergeNextKeeps ==
  ASSUME NEW h, HeapInv(h), Busy(h), ~PrevFree(h, h.merging), NextFree(h, h.merging)
  PROVE  LET g == MergeNext(h, h.merging)
         IN  /\ HeapInv(g) /\ g.total = h.total
             /\ \A s : IsTaken(g, s) <=> IsTaken(h, s)
             /\ \A s : IsTaken(h, s) => g.blocks[s].size = h.blocks[s].size
<1> DEFINE start == h.merging
           next == EndOf(h, start)
           g == MergeNext(h, start)
           D == DOMAIN h.blocks
<1>0. /\ HeapType(h) /\ D \subseteq Nat /\ start \in D /\ next \in D /\ start < next
      /\ \A s \in D : h.blocks[s] \in BlockType
      /\ h.blocks[start].free /\ h.blocks[next].free
      /\ next = start + h.blocks[start].size
  BY DEF HeapInv, HeapType, MergingFree, NextFree, EndOf, BlockType
<1> DEFINE size == h.blocks[start].size
           more == h.blocks[next].size
<1>1. Merged(h, g, start, next)
  BY <1>0, MergeFields
<1> HIDE DEF g
<1>b. g.blocks[start] = [h.blocks[start] EXCEPT !.size = size + more]
  BY <1>1 DEF Merged
<1>c. /\ g.blocks[start].size = size + more /\ g.blocks[start].prev = h.blocks[start].prev
      /\ g.blocks[start].free /\ g.blocks[start] \in BlockType
  BY <1>0, <1>b DEF BlockType
<1>2. /\ DOMAIN g = DOMAIN h /\ g.total = h.total /\ g.merging = start
      /\ DOMAIN g.blocks = D \ {next}
      /\ g.blocks = [s \in DOMAIN g.blocks |-> g.blocks[s]]
      /\ g.blocks[start].size = size + more /\ g.blocks[start].prev = h.blocks[start].prev
      /\ g.blocks[start].free /\ g.blocks[start] \in BlockType
      /\ \A s \in D \ {start, next} : g.blocks[s] = h.blocks[s]
      /\ DOMAIN g.bins = DOMAIN h.bins
  BY <1>1, <1>c DEF Merged
<1>3. HeapType(g)
  <2>1. g.blocks \in [DOMAIN g.blocks -> BlockType]
    BY <1>0, <1>2
  <2> QED
    BY <1>0, <1>2, <2>1 DEF HeapType
<1>4. /\ EndOf(g, start) = EndOf(h, next)
      /\ \A s \in D \ {start, next} : EndOf(g, s) = EndOf(h, s)
  <2>1. start \in Nat /\ size \in Nat /\ more \in Nat
    BY <1>0 DEF BlockType
  <2>2. start + (size + more) = (start + size) + more
    BY <2>1
  <2>3. EndOf(g, start) = EndOf(h, next)
    BY <1>0, <1>2, <2>2 DEF EndOf
  <2>4. \A s \in D \ {start, next} : EndOf(g, s) = EndOf(h, s)
    BY <1>2 DEF EndOf
  <2> QED
    BY <2>3, <2>4
<1>5. Tiles(g)
  <2>1. /\ \A s \in D : EndOf(h, s) <= h.total
        /\ \A s, t \in D : s < t => EndOf(h, s) <= t
    BY DEF HeapInv, Tiles
  <2>2. \A s \in D \ {next} : EndOf(g, s) <= h.total
    BY <1>0, <1>4, <2>1
  <2>3. ASSUME NEW s \in D \ {next}, NEW t \in D \ {next}, s < t PROVE EndOf(g, s) <= t
    <3>1. CASE s = start
      <4>1. next <= t
        BY <1>0, <2>1, <2>3, <3>1
      <4>2. next < t
        BY <4>1, <1>0, <2>3
      <4> QED
        BY <4>2, <3>1, <1>0, <1>4, <2>1
    <3>2. CASE s # start
      BY <2>3, <3>2, <1>4, <2>1
    <3> QED
      BY <3>1, <3>2
  <2> QED
    BY <1>2, <2>2, <2>3 DEF Tiles
<1>6. MergingFree(g)
  BY <1>0, <1>2 DEF MergingFree
<1>7. ~PrevFree(g, start)
  <2>1. ~PrevFree(h, start)
    OBVIOUS
  <2>2. h.blocks[start].prev # NoBlock => h.blocks[start].prev \in D \ {start, next}
    <3>1. Linked(h, start)
      BY <1>0 DEF HeapInv, Links
    <3>2. next # h.blocks[start].prev /\ start # h.blocks[start].prev
      BY <3>1, <1>0 DEF Linked, EndOf, BlockType, NoBlock
    <3> QED
      BY <3>1, <3>2 DEF Linked
  <2> QED
    BY <2>1, <2>2, <1>2 DEF PrevFree
<1>8. Links(g)
  <2> SUFFICES ASSUME NEW s \in D \ {next}, s # EndOf(g, start) PROVE Linked(g, s)
    BY <1>2, <1>7 DEF Links, Busy
  <2>1. s # next /\ s # EndOf(h, next)
    BY <1>4
  <2>2. Linked(h, s)
    BY <2>1 DEF HeapInv, Links
  <2> DEFINE prev == h.blocks[s].prev
  <2>3. g.blocks[s].prev = prev
    BY <1>2
  <2>4. CASE prev = NoBlock
    BY <2>3, <2>4 DEF Linked
  <2>5. CASE prev # NoBlock
    <3>1. prev \in D /\ EndOf(h, prev) = s
      BY <2>2, <2>5 DEF Linked
    <3>2. prev # next /\ prev # start
      BY <3>1, <2>1
    <3> QED
      BY <2>3, <3>1, <3>2, <1>2, <1>4 DEF Linked
  <2> QED
    BY <2>4, <2>5
<1>9. ASSUME NEW b \in DOMAIN g.bins PROVE BinOK(g, b)
  <2>0. /\ b \in DOMAIN h.bins /\ h.bins[b] \in Seq(Nat) /\ Distinct(h.bins[b])
        /\ Listed(h.bins[b]) = FreeOf(h, b)
    BY <1>2 DEF HeapInv, BinsOK, BinOK
  <2>1. PICK kept, mid :
         /\ kept = IF b = Bucket(size) THEN Without(h.bins[b], start) ELSE h.bins[b]
         /\ mid = IF b = Bucket(more) THEN Without(kept, next) ELSE kept
         /\ g.bins[b] = mid \o Only(b = Bucket(size + more), start)
    BY <1>1, <2>0 DEF Merged
  <2>2. kept \in Seq(Nat) /\ Distinct(kept) /\ Listed(kept) = FreeOf(h, b) \ {start}
    <3>1. b = Bucket(size) <=> start \in Listed(h.bins[b])
      BY <1>0, <2>0, ListsBlock
    <3>2. CASE b = Bucket(size)
      BY <3>1, <3>2, <2>0, <2>1, WithoutListed
    <3>3. CASE b # Bucket(size)
      BY <3>1, <3>3, <2>0, <2>1
    <3> QED
      BY <3>2, <3>3
  <2>3. b = Bucket(more) <=> next \in Listed(kept)
    BY <2>0, <2>2, <1>0, ListsBlock
  <2>4. mid \in Seq(Nat) /\ Distinct(mid) /\ Listed(mid) = FreeOf(h, b) \ {start, next}
    <3>1. mid \in Seq(Nat) /\ Distinct(mid) /\ Listed(mid) = Listed(kept) \ {next}
      <4>1. CASE b = Bucket(more)
        BY <4>1, <2>1, <2>2, <2>3, WithoutListed
      <4>2. CASE b # Bucket(more)
        BY <4>2, <2>1, <2>2, <2>3
      <4> QED
        BY <4>1, <4>2, Zenon
    <3> QED
      BY <3>1, <2>2
  <2>5. /\ g.bins[b] \in Seq(Nat) /\ Distinct(g.bins[b])
        /\ Listed(g.bins[b]) = (FreeOf(h, b) \ {start, next})
                                 \cup (IF b = Bucket(size + more) THEN {start} ELSE {})
    <3>1. start \in Nat /\ start \notin Listed(mid)
      BY <1>0, <2>4
    <3>2. CASE b = Bucket(size + more)
      <4>1. g.bins[b] = mid \o Only(TRUE, start)
        BY <3>2, <2>1
      <4>2. /\ mid \o Only(TRUE, start) \in Seq(Nat) /\ Distinct(mid \o Only(TRUE, start))
            /\ Listed(mid \o Only(TRUE, start)) = Listed(mid) \cup {start}
        BY <3>1, <2>4, OnlyListed
      <4>3. (IF b = Bucket(size + more) THEN {start} ELSE {}) = {start}
        BY <3>2
      <4> QED
        BY <4>1, <4>2, <4>3, <2>4
    <3>3. CASE b # Bucket(size + more)
      <4>1. g.bins[b] = mid \o Only(FALSE, start)
        BY <3>3, <2>1
      <4> QED
        BY <3>3, <4>1, <2>4, NoneListed
    <3> QED
      BY <3>2, <3>3
  <2>6. FreeOf(g, b) = (FreeOf(h, b) \ {start, next})
                         \cup (IF b = Bucket(size + more) THEN {start} ELSE {})
    <3>1. start \in FreeOf(g, b) <=> b = Bucket(size + more)
      <4>1. start \in DOMAIN g.blocks /\ g.blocks[start].free /\ g.blocks[start].size = size + more
        BY <1>0, <1>2
      <4> QED
        BY <4>1 DEF FreeOf
    <3>2. \A s : s # start => (s \in FreeOf(g, b) <=> s \in FreeOf(h, b) \ {start, next})
      BY <1>2 DEF FreeOf
    <3> QED
      BY <3>1, <3>2
  <2> QED
    BY <2>5, <2>6 DEF BinOK
<1>10. \A s : IsTaken(g, s) <=> IsTaken(h, s)
  BY <1>0, <1>2 DEF IsTaken
<1>11. \A s : IsTaken(h, s) => g.blocks[s].size = h.blocks[s].size
  BY <1>0, <1>2 DEF IsTaken
<1> QED
  BY <1>2, <1>3, <1>5, <1>6, <1>8, <1>9, <1>10, <1>11 DEF HeapInv, BinsOK, g

LEMMA MergeDoneKeeps ==
  ASSUME NEW h, HeapInv(h), Busy(h)
  PROVE  LET g == MergeDone(h, h.merging)
         IN  /\ HeapInv(g) /\ g.total = h.total
             /\ \A s : IsTaken(g, s) <=> IsTaken(h, s)
             /\ \A s : IsTaken(h, s) => g.blocks[s].size = h.blocks[s].size
<1> DEFINE start == h.merging
           D == DOMAIN h.blocks
           g == MergeDone(h, start)
<1>0. /\ HeapType(h) /\ D \subseteq Nat /\ start \in D /\ start \in Int
      /\ \A s \in D : h.blocks[s] \in BlockType
  BY DEF HeapInv, HeapType, MergingFree
<1>1. /\ DOMAIN g = DOMAIN h /\ g.total = h.total /\ g.merging = NoBlock /\ g.bins = h.bins
      /\ g.blocks = [s \in D |-> IF s = EndOf(h, start) THEN [h.blocks[s] EXCEPT !.prev = start]
                                 ELSE h.blocks[s]]
  BY <1>0 DEF HeapType, MergeDone
<1> HIDE DEF g
<1>2. /\ DOMAIN g.blocks = D
      /\ \A s \in D : /\ g.blocks[s] \in BlockType
                      /\ g.blocks[s].size = h.blocks[s].size
                      /\ g.blocks[s].free = h.blocks[s].free
                      /\ g.blocks[s].prev = IF s = EndOf(h, start) THEN start ELSE h.blocks[s].prev
  BY <1>0, <1>1 DEF BlockType
<1>3. HeapType(g)
  <2>1. g.blocks \in [D -> BlockType]
    BY <1>1, <1>2
  <2> QED
    BY <1>0, <1>1, <2>1 DEF HeapType, NoBlock
<1>4. \A s \in D : EndOf(g, s) = EndOf(h, s)
  BY <1>2 DEF EndOf
<1>5. Tiles(g)
  BY <1>1, <1>2, <1>4 DEF HeapInv, Tiles
<1>6. MergingFree(g)
  BY <1>1 DEF MergingFree, Busy
<1>7. Links(g)
  <2> SUFFICES ASSUME NEW s \in D PROVE Linked(g, s)
    BY <1>2 DEF Links
  <2>1. CASE s = EndOf(h, start)
    BY <2>1, <1>0, <1>2, <1>4 DEF Linked
  <2>2. CASE s # EndOf(h, start)
    <3>1. Linked(h, s)
      BY <2>2 DEF HeapInv, Links
    <3> QED
      BY <2>2, <3>1, <1>2, <1>4 DEF Linked
  <2> QED
    BY <2>1, <2>2
<1>8. ASSUME NEW b \in DOMAIN g.bins PROVE BinOK(g, b)
  <2>1. BinOK(h, b)
    BY <1>1 DEF HeapInv, BinsOK
  <2>2. FreeOf(g, b) = FreeOf(h, b)
    BY <1>2 DEF FreeOf
  <2> QED
    BY <1>1, <2>1, <2>2 DEF BinOK
<1>9. \A s : IsTaken(g, s) <=> IsTaken(h, s)
  BY <1>2 DEF IsTaken
<1>10. \A s : IsTaken(h, s) => g.blocks[s].size = h.blocks[s].size
  BY <1>2 DEF IsTaken
<1> QED
  BY <1>1, <1>3, <1>5, <1>6, <1>7, <1>8, <1>9, <1>10 DEF HeapInv, BinsOK, g

\* No iteration of a merge changes what is handed out.
LEMMA MergeKeeps ==
  ASSUME NEW h, HeapInv(h), Busy(h)
  PROVE  /\ HeapInv(MergeStep(h)) /\ MergeStep(h).total = h.total
         /\ \A s : IsTaken(MergeStep(h), s) <=> IsTaken(h, s)
         /\ \A s : IsTaken(h, s) => MergeStep(h).blocks[s].size = h.blocks[s].size
<1> DEFINE start == h.merging
<1>1. CASE PrevFree(h, start)
  <2> DEFINE prev == h.blocks[start].prev
             g == [h EXCEPT !.merging = prev]
  <2>0. g = MergeStep(h)
    BY <1>1 DEF MergeStep
  <2>1. HeapType(h) /\ start \in DOMAIN h.blocks /\ h.blocks[start] \in BlockType
    BY DEF HeapInv, HeapType, MergingFree
  <2>2. /\ DOMAIN g = DOMAIN h /\ g.total = h.total /\ g.merging = prev /\ g.bins = h.bins
        /\ g.blocks = h.blocks
    BY <2>1 DEF HeapType
  <2> HIDE DEF g
  <2>3. \A s \in DOMAIN h.blocks : Linked(h, s)
    BY <1>1 DEF HeapInv, Links
  <2>4. prev \in DOMAIN h.blocks /\ h.blocks[prev].free
    BY <2>1, <2>3, <1>1 DEF Linked, PrevFree
  <2>5. HeapType(g)
    BY <2>1, <2>2 DEF HeapType, BlockType
  <2>6. Tiles(g) /\ Links(g)
    BY <2>2, <2>3 DEF HeapInv, Tiles, Links, Linked, EndOf
  <2>7. BinsOK(g)
    BY <2>2 DEF HeapInv, BinsOK, BinOK, FreeOf
  <2>8. MergingFree(g)
    BY <2>2, <2>4 DEF MergingFree
  <2> QED
    BY <2>0, <2>2, <2>5, <2>6, <2>7, <2>8 DEF HeapInv, IsTaken
<1>2. CASE ~PrevFree(h, start) /\ NextFree(h, start)
  <2>1. MergeStep(h) = MergeNext(h, start)
    BY <1>2 DEF MergeStep
  <2> QED
    BY <1>2, <2>1, MergeNextKeeps
<1>3. CASE ~PrevFree(h, start) /\ ~NextFree(h, start)
  <2>1. MergeStep(h) = MergeDone(h, start)
    BY <1>3 DEF MergeStep
  <2> QED
    BY <2>1, MergeDoneKeeps
<1> QED
  BY <1>1, <1>2, <1>3

-----------------------------------------------------------------------------
(* alloc takes size bytes at start out of a free block.                    *)

AllocBlock(h, chosen, start, size, s) ==
  LET whole == h.blocks[chosen].size
      tail  == IF whole - (start - chosen) - size > 0 THEN start + size ELSE start
  IN  IF s = start
      THEN Block(size, IF start # chosen THEN chosen ELSE h.blocks[chosen].prev, FALSE)
      ELSE IF s = chosen THEN Block(start - chosen, h.blocks[chosen].prev, TRUE)
      ELSE IF s = tail THEN Block(whole - (start - chosen) - size, start, TRUE)
      ELSE IF s = chosen + whole THEN [h.blocks[s] EXCEPT !.prev = tail]
      ELSE h.blocks[s]

\* What is left of the bin of a block that is taken or split.
AllocKept(h, chosen, b) ==
  IF b = Bucket(h.blocks[chosen].size) THEN Without(h.bins[b], chosen) ELSE h.bins[b]

AllocBin(h, chosen, start, size, rest, b) ==
  (AllocKept(h, chosen, b) \o Only(start # chosen /\ b = Bucket(start - chosen), chosen))
    \o Only(rest > 0 /\ b = Bucket(rest), start + size)

Allocated(h, g, chosen, start, size, rest, tail) ==
  /\ DOMAIN g = DOMAIN h /\ g.total = h.total /\ g.merging = h.merging
  /\ g.blocks = [s \in DOMAIN h.blocks \cup {start, tail} |->
                   AllocBlock(h, chosen, start, size, s)]
  /\ g.bins = [b \in DOMAIN h.bins |-> AllocBin(h, chosen, start, size, rest, b)]

LEMMA AllocFields ==
  ASSUME NEW h, HeapType(h), NEW chosen \in DOMAIN h.blocks, NEW start \in Nat, NEW size \in Nat,
         NEW rest, rest = h.blocks[chosen].size - (start - chosen) - size,
         NEW tail, tail = IF rest > 0 THEN start + size ELSE start
  PROVE  Allocated(h, Alloc(h, chosen, start, size), chosen, start, size, rest, tail)
<1> DEFINE g == Alloc(h, chosen, start, size)
<1>1. Rest(h, chosen, start, size) = rest
  BY DEF Rest, HeapType, BlockType
<1>2. DOMAIN g = DOMAIN h /\ g.total = h.total /\ g.merging = h.merging
  BY DEF HeapType, Alloc
<1>3. g.blocks = [s \in DOMAIN h.blocks \cup {start, tail} |->
                   AllocBlock(h, chosen, start, size, s)]
  BY <1>1 DEF HeapType, Alloc, AllocBlock
<1>4. g.bins = [b \in DOMAIN h.bins |-> AllocBin(h, chosen, start, size, rest, b)]
  BY <1>1 DEF HeapType, Alloc, AllocBin, AllocKept
<1> QED
  BY <1>2, <1>3, <1>4 DEF Allocated

\* What alloc makes of the chosen block: a free block in front of start, the block that is
\* handed out and a free rest, where there is one.
SplitOff(h, g, chosen, start, size, rest, tail) ==
  LET D == DOMAIN h.blocks
      end == chosen + h.blocks[chosen].size
      before == h.blocks[chosen].prev
  IN
  /\ rest \in Nat /\ start + size + rest = end /\ tail = IF rest > 0 THEN start + size ELSE start
  /\ DOMAIN g = DOMAIN h /\ g.total = h.total /\ g.merging = h.merging
  /\ g.bins = [b \in DOMAIN h.bins |-> AllocBin(h, chosen, start, size, rest, b)]
  /\ \A s \in D \ {chosen} : s # start /\ s # tail
  /\ DOMAIN g.blocks = (D \ {chosen}) \cup {chosen, start, tail}
  /\ g.blocks = [s \in DOMAIN g.blocks |-> g.blocks[s]]
  /\ \A s \in D \ {chosen} :
       /\ g.blocks[s] \in BlockType
       /\ g.blocks[s].size = h.blocks[s].size /\ g.blocks[s].free = h.blocks[s].free
       /\ g.blocks[s].prev = IF s = end THEN tail ELSE h.blocks[s].prev
       /\ EndOf(g, s) = EndOf(h, s)
  /\ g.blocks[start] \in BlockType /\ g.blocks[start].size = size /\ ~g.blocks[start].free
  /\ g.blocks[start].prev = (IF start # chosen THEN chosen ELSE before)
  /\ EndOf(g, start) = start + size
  /\ start # chosen => /\ g.blocks[chosen] \in BlockType /\ g.blocks[chosen].size = start - chosen
                       /\ g.blocks[chosen].free /\ g.blocks[chosen].prev = before
                       /\ EndOf(g, chosen) = start
  /\ rest > 0 => /\ tail = start + size
                 /\ g.blocks[tail] \in BlockType /\ g.blocks[tail].size = rest
                 /\ g.blocks[tail].free /\ g.blocks[tail].prev = start
                 /\ EndOf(g, tail) = end

LEMMA AllocSplits ==
  ASSUME NEW h, HeapInv(h), ~Busy(h),
         NEW chosen \in DOMAIN h.blocks, h.blocks[chosen].free,
         NEW start \in Nat, NEW size \in Nat \ {0},
         chosen <= start, start + size <= EndOf(h, chosen)
  PROVE  \E rest, tail :
           SplitOff(h, Alloc(h, chosen, start, size), chosen, start, size, rest, tail)
<1> DEFINE D == DOMAIN h.blocks
           whole == h.blocks[chosen].size
           before == h.blocks[chosen].prev
           end == chosen + whole
           rest == whole - (start - chosen) - size
           tail == IF rest > 0 THEN start + size ELSE start
           g == Alloc(h, chosen, start, size)
<1>0. /\ HeapType(h) /\ D \subseteq Nat /\ whole \in Nat \ {0} /\ before \in Int
      /\ \A s \in D : h.blocks[s] \in BlockType
      /\ chosen \in Nat /\ EndOf(h, chosen) = end
  BY DEF HeapInv, HeapType, BlockType, EndOf
<1>1. rest \in Nat /\ start + size + rest = end /\ end \in Nat /\ (rest = 0 => start + size = end)
  BY <1>0
<1>t. Allocated(h, g, chosen, start, size, rest, tail)
  BY <1>0, AllocFields
<1> HIDE DEF g
<1>2. /\ DOMAIN g = DOMAIN h /\ g.total = h.total /\ g.merging = h.merging
      /\ g.blocks = [s \in D \cup {start, tail} |-> AllocBlock(h, chosen, start, size, s)]
      /\ g.bins = [b \in DOMAIN h.bins |-> AllocBin(h, chosen, start, size, rest, b)]
  BY <1>t DEF Allocated
<1>3. \A t \in D : /\ t > chosen => end <= t
                   /\ t < chosen => EndOf(h, t) <= chosen
                   /\ EndOf(h, t) <= h.total /\ EndOf(h, t) = t + h.blocks[t].size
                   /\ EndOf(h, t) > t
  BY <1>0 DEF HeapInv, Tiles, EndOf, BlockType
<1>4. \A s \in D \ {chosen} : (s # start /\ s # start + size) \/ (s # start /\ s = end /\ rest = 0)
  BY <1>0, <1>1, <1>3
<1> HIDE DEF rest
<1>a. \A s \in D \ {chosen} : s # start /\ s # tail
  BY <1>0, <1>1, <1>3
<1>5. /\ DOMAIN g.blocks = D \cup {start, tail}
      /\ g.blocks = [s \in DOMAIN g.blocks |-> g.blocks[s]]
      /\ g.blocks[start] = Block(size, IF start # chosen THEN chosen ELSE before, FALSE)
      /\ start # chosen => g.blocks[chosen] = Block(start - chosen, before, TRUE)
      /\ rest > 0 => g.blocks[tail] = Block(rest, start, TRUE)
  <2>1. /\ DOMAIN g.blocks = D \cup {start, tail}
        /\ g.blocks = [s \in DOMAIN g.blocks |-> g.blocks[s]]
        /\ \A s \in D \cup {start, tail} : g.blocks[s] = AllocBlock(h, chosen, start, size, s)
    BY <1>2
  <2>2. g.blocks[start] = Block(size, IF start # chosen THEN chosen ELSE before, FALSE)
    BY <2>1 DEF AllocBlock
  <2>3. start # chosen => g.blocks[chosen] = Block(start - chosen, before, TRUE)
    BY <2>1 DEF AllocBlock
  <2>4. ASSUME rest > 0 PROVE g.blocks[tail] = Block(rest, start, TRUE)
    <3>1. tail # start /\ tail # chosen
      BY <2>4, <1>0
    <3> QED
      BY <2>1, <2>4, <3>1 DEF AllocBlock, rest
  <2> QED
    BY <2>1, <2>2, <2>3, <2>4
<1>6. \A s \in D \ {chosen} :
         g.blocks[s] = IF s = end THEN [h.blocks[s] EXCEPT !.prev = tail] ELSE h.blocks[s]
  BY <1>2, <1>a DEF AllocBlock, rest
<1>7. \A s \in D \ {chosen} :
         /\ g.blocks[s] \in BlockType
         /\ g.blocks[s].size = h.blocks[s].size /\ g.blocks[s].free = h.blocks[s].free
         /\ g.blocks[s].prev = IF s = end THEN tail ELSE h.blocks[s].prev
         /\ EndOf(g, s) = EndOf(h, s)
  <2>1. tail \in Int
    BY <1>1
  <2> QED
    <3> SUFFICES ASSUME NEW s \in D \ {chosen}
                 PROVE  /\ g.blocks[s] \in BlockType
                        /\ g.blocks[s].size = h.blocks[s].size /\ g.blocks[s].free = h.blocks[s].free
                        /\ g.blocks[s].prev = IF s = end THEN tail ELSE h.blocks[s].prev
      BY DEF EndOf
    <3>1. h.blocks[s] \in BlockType
      BY <1>0
    <3>2. CASE s = end
      <4>1. g.blocks[s] = [h.blocks[s] EXCEPT !.prev = tail]
        BY <3>2, <1>6
      <4> QED
        BY <3>1, <3>2, <4>1, <2>1 DEF BlockType
    <3>3. CASE s # end
      BY <3>1, <3>3, <1>6
    <3> QED
      BY <3>2, <3>3
<1>8. /\ g.blocks[start] \in BlockType /\ g.blocks[start].size = size /\ ~g.blocks[start].free
      /\ g.blocks[start].prev = (IF start # chosen THEN chosen ELSE before)
      /\ EndOf(g, start) = start + size
  <2>1. (IF start # chosen THEN chosen ELSE before) \in Int
    BY <1>0
  <2> QED
    BY <1>5, <2>1 DEF Block, BlockType, EndOf
<1>9. start # chosen => /\ g.blocks[chosen] \in BlockType /\ g.blocks[chosen].size = start - chosen
                        /\ g.blocks[chosen].free /\ g.blocks[chosen].prev = before
                        /\ EndOf(g, chosen) = start
  <2> SUFFICES ASSUME start # chosen
               PROVE  /\ g.blocks[chosen] \in BlockType /\ g.blocks[chosen].size = start - chosen
                      /\ g.blocks[chosen].free /\ g.blocks[chosen].prev = before
                      /\ EndOf(g, chosen) = start
    OBVIOUS
  <2>1. start - chosen \in Nat \ {0} /\ chosen + (start - chosen) = start
    BY <1>0
  <2>2. g.blocks[chosen] = Block(start - chosen, before, TRUE)
    BY <1>5
  <2> QED
    BY <1>0, <2>1, <2>2 DEF Block, BlockType, EndOf
<1>10. rest > 0 => /\ tail = start + size
                   /\ g.blocks[tail] \in BlockType /\ g.blocks[tail].size = rest
                   /\ g.blocks[tail].free /\ g.blocks[tail].prev = start
                   /\ EndOf(g, tail) = end
  <2> SUFFICES ASSUME rest > 0
               PROVE  /\ tail = start + size
                      /\ g.blocks[tail] \in BlockType /\ g.blocks[tail].size = rest
                      /\ g.blocks[tail].free /\ g.blocks[tail].prev = start
                      /\ EndOf(g, tail) = end
    OBVIOUS
  <2>1. tail = start + size /\ rest \in Nat \ {0} /\ tail + rest = end /\ start \in Int
    BY <1>1
  <2>2. g.blocks[tail] = Block(rest, start, TRUE)
    BY <1>5
  <2> HIDE DEF tail
  <2> QED
    BY <2>1, <2>2 DEF Block, BlockType, EndOf
<1>11. rest = 0 => tail = start
  BY <1>1
<1>12. DOMAIN g.blocks = (D \ {chosen}) \cup {chosen, start, tail}
  BY <1>5
<1>13. g.bins = [b \in DOMAIN h.bins |-> AllocBin(h, chosen, start, size, rest, b)]
  BY <1>2
<1>14. tail = IF rest > 0 THEN start + size ELSE start
  OBVIOUS
<1>15. g.blocks = [s \in DOMAIN g.blocks |-> g.blocks[s]]
  BY <1>5
<1> HIDE DEF tail
<1>16. SplitOff(h, g, chosen, start, size, rest, tail)
  BY <1>1, <1>2, <1>7, <1>8, <1>9, <1>10, <1>12, <1>13, <1>14, <1>15, <1>a, ZenonT(30) DEF SplitOff
<1> QED
  BY <1>16 DEF g

LEMMA AllocKeeps ==
  ASSUME NEW h, HeapInv(h), ~Busy(h),
         NEW chosen \in DOMAIN h.blocks, h.blocks[chosen].free,
         NEW start \in Nat, NEW size \in Nat \ {0},
         chosen <= start, start + size <= EndOf(h, chosen)
  PROVE  LET g == Alloc(h, chosen, start, size)
         IN  /\ HeapInv(g) /\ ~Busy(g) /\ g.total = h.total
             /\ ~IsTaken(h, start)
             /\ \A s : IsTaken(g, s) <=> IsTaken(h, s) \/ s = start
             /\ g.blocks[start].size = size
             /\ \A s : IsTaken(h, s) => g.blocks[s].size = h.blocks[s].size
<1> DEFINE D == DOMAIN h.blocks
           whole == h.blocks[chosen].size
           before == h.blocks[chosen].prev
           end == chosen + whole
           g == Alloc(h, chosen, start, size)
<1>0. /\ HeapType(h) /\ D \subseteq Nat /\ whole \in Nat \ {0} /\ before \in Int
      /\ \A s \in D : h.blocks[s] \in BlockType
      /\ chosen \in Nat /\ EndOf(h, chosen) = end
  BY DEF HeapInv, HeapType, BlockType, EndOf
<1>s. PICK rest, tail : SplitOff(h, g, chosen, start, size, rest, tail)
  BY AllocSplits
<1> HIDE DEF g
<1>1. rest \in Nat /\ start + size + rest = end /\ end \in Nat /\ (rest = 0 => start + size = end)
  BY <1>s, <1>0 DEF SplitOff
<1>2. /\ DOMAIN g = DOMAIN h /\ g.total = h.total /\ g.merging = h.merging
      /\ g.bins = [b \in DOMAIN h.bins |-> AllocBin(h, chosen, start, size, rest, b)]
  BY <1>s DEF SplitOff
<1>3. \A t \in D : /\ t > chosen => end <= t
                   /\ t < chosen => EndOf(h, t) <= chosen
                   /\ EndOf(h, t) <= h.total /\ EndOf(h, t) = t + h.blocks[t].size
                   /\ EndOf(h, t) > t
  BY <1>0 DEF HeapInv, Tiles, EndOf, BlockType
<1>4. \A s \in D \ {chosen} : (s # start /\ s # start + size) \/ (s # start /\ s = end /\ rest = 0)
  BY <1>0, <1>1, <1>3
<1>a. \A s \in D \ {chosen} : s # start /\ s # tail
  BY <1>s DEF SplitOff
<1>5. g.blocks = [s \in DOMAIN g.blocks |-> g.blocks[s]]
  BY <1>s DEF SplitOff
<1>7. \A s \in D \ {chosen} :
         /\ g.blocks[s] \in BlockType
         /\ g.blocks[s].size = h.blocks[s].size /\ g.blocks[s].free = h.blocks[s].free
         /\ g.blocks[s].prev = IF s = end THEN tail ELSE h.blocks[s].prev
         /\ EndOf(g, s) = EndOf(h, s)
  BY <1>s, <1>0 DEF SplitOff
<1>8. /\ g.blocks[start] \in BlockType /\ g.blocks[start].size = size /\ ~g.blocks[start].free
      /\ g.blocks[start].prev = (IF start # chosen THEN chosen ELSE before)
      /\ EndOf(g, start) = start + size
  BY <1>s DEF SplitOff
<1>9. start # chosen => /\ g.blocks[chosen] \in BlockType /\ g.blocks[chosen].size = start - chosen
                        /\ g.blocks[chosen].free /\ g.blocks[chosen].prev = before
                        /\ EndOf(g, chosen) = start
  BY <1>s DEF SplitOff
<1>10. rest > 0 => /\ tail = start + size
                   /\ g.blocks[tail] \in BlockType /\ g.blocks[tail].size = rest
                   /\ g.blocks[tail].free /\ g.blocks[tail].prev = start
                   /\ EndOf(g, tail) = end
  BY <1>s, <1>0 DEF SplitOff
<1>11. rest = 0 => tail = start
  BY <1>s DEF SplitOff
<1>12. DOMAIN g.blocks = (D \ {chosen}) \cup {chosen, start, tail}
  BY <1>s DEF SplitOff
<1> HIDE DEF whole, end
<1>13. HeapType(g)
  <2>1. \A s \in DOMAIN g.blocks : g.blocks[s] \in BlockType
    BY <1>1, <1>7, <1>8, <1>9, <1>10, <1>11, <1>12
  <2>2. g.blocks \in [DOMAIN g.blocks -> BlockType]
    BY <1>5, <2>1
  <2>3. DOMAIN g.blocks \subseteq Nat
    BY <1>0, <1>1, <1>10, <1>11, <1>12
  <2> QED
    BY <1>0, <1>2, <2>2, <2>3 DEF HeapType
<1>14. ASSUME NEW s \in {chosen, start, tail}
       PROVE  chosen <= s /\ s < end /\ EndOf(g, s) <= end
  BY <1>0, <1>1, <1>8, <1>9, <1>10, <1>11
<1>15. Tiles(g)
  <2>1. \A s \in DOMAIN g.blocks : EndOf(g, s) <= g.total
    <3>1. end <= h.total
      BY <1>0, <1>3
    <3>2. ASSUME NEW s \in {chosen, start, tail} PROVE EndOf(g, s) <= h.total
      <4>1. EndOf(g, s) \in Int /\ h.total \in Int
        BY <1>0, <1>1, <1>8, <1>9, <1>10, <1>11 DEF HeapType
      <4> QED
        BY <4>1, <3>1, <1>1, <1>14
    <3> QED
      BY <3>2, <1>2, <1>3, <1>7, <1>12
  <2>2. ASSUME NEW s \in D \ {chosen}, NEW t \in D \ {chosen}, s < t PROVE EndOf(g, s) <= t
    BY <2>2, <1>7 DEF HeapInv, Tiles
  <2>3. ASSUME NEW s \in D \ {chosen}, NEW t \in {chosen, start, tail}, s < t PROVE EndOf(g, s) <= t
    <3>1. s \in Nat /\ t \in Nat /\ s # chosen
      BY <1>0, <1>1, <1>10, <1>11
    <3>2. s < chosen
      BY <3>1, <2>3, <1>0, <1>1, <1>3, <1>14
    <3>3. EndOf(h, s) <= chosen /\ EndOf(h, s) \in Int
      BY <3>2, <1>0, <1>3 DEF BlockType
    <3> QED
      BY <3>1, <3>3, <1>0, <1>7, <1>14
  <2>4. ASSUME NEW s \in {chosen, start, tail}, NEW t \in D \ {chosen}, s < t PROVE EndOf(g, s) <= t
    <3>1. s \in Nat /\ t \in Nat /\ t > chosen
      BY <2>4, <1>0, <1>1, <1>10, <1>11, <1>14
    <3>2. end <= t /\ EndOf(g, s) \in Int
      BY <3>1, <1>0, <1>1, <1>3, <1>8, <1>9, <1>10, <1>11
    <3> QED
      BY <3>1, <3>2, <1>1, <1>14
  <2>5. ASSUME NEW s \in {chosen, start, tail}, NEW t \in {chosen, start, tail}, s < t
        PROVE EndOf(g, s) <= t
    BY <2>5, <1>0, <1>1, <1>8, <1>9, <1>10, <1>11
  <2> QED
    BY <2>1, <2>2, <2>3, <2>4, <2>5, <1>12 DEF Tiles
<1>16. ~Busy(g) /\ MergingFree(g)
  BY <1>2 DEF Busy, MergingFree
<1>17. Links(g)
  <2>1. \A s \in D : Linked(h, s)
    BY DEF HeapInv, Links
  <2>2. ASSUME NEW s \in D \ {chosen} PROVE Linked(g, s)
    <3>1. CASE s = end
      <4>1. tail \in DOMAIN g.blocks /\ EndOf(g, tail) = end
        BY <1>1, <1>8, <1>10, <1>11, <1>12
      <4> QED
        BY <3>1, <4>1, <1>7 DEF Linked
    <3>2. CASE s # end
      <4>1. g.blocks[s].prev = h.blocks[s].prev /\ Linked(h, s)
        BY <3>2, <2>1, <1>7
      <4>2. CASE h.blocks[s].prev = NoBlock
        BY <4>1, <4>2 DEF Linked
      <4>3. CASE h.blocks[s].prev # NoBlock
        <5>1. h.blocks[s].prev \in D \ {chosen} /\ EndOf(h, h.blocks[s].prev) = s
          BY <4>1, <4>3, <3>2, <1>0 DEF Linked
        <5> QED
          BY <4>1, <5>1, <1>7, <1>12 DEF Linked
      <4> QED
        BY <4>2, <4>3
    <3> QED
      BY <3>1, <3>2
  <2>3. before = NoBlock \/ (before \in DOMAIN g.blocks /\ EndOf(g, before) = chosen)
    <3>1. before = NoBlock \/ (before \in D \ {chosen} /\ EndOf(h, before) = chosen)
      <4>1. EndOf(h, chosen) # chosen
        BY <1>3, <1>0
      <4> QED
        BY <2>1, <4>1 DEF Linked
    <3> QED
      BY <3>1, <1>7, <1>12
  <2>4. Linked(g, start)
    BY <2>3, <1>8, <1>9, <1>12 DEF Linked
  <2>5. start # chosen => Linked(g, chosen)
    BY <2>3, <1>9 DEF Linked
  <2>6. rest > 0 => Linked(g, tail)
    BY <1>8, <1>10, <1>12 DEF Linked
  <2>7. \A s \in DOMAIN g.blocks : Linked(g, s)
    BY <2>2, <2>4, <2>5, <2>6, <1>1, <1>11, <1>12
  <2> QED
    BY <2>7 DEF Links
<1>18. ASSUME NEW b \in DOMAIN g.bins PROVE BinOK(g, b)
  <2> DEFINE front == start # chosen /\ b = Bucket(start - chosen)
             remains  == rest > 0 /\ b = Bucket(rest)
             kept  == AllocKept(h, chosen, b)
             mid   == kept \o Only(front, chosen)
  <2>0. /\ b \in DOMAIN h.bins /\ h.bins[b] \in Seq(Nat) /\ Distinct(h.bins[b])
        /\ Listed(h.bins[b]) = FreeOf(h, b)
        /\ g.bins[b] = mid \o Only(remains, start + size)
    BY <1>2 DEF HeapInv, BinsOK, BinOK, AllocBin
  <2>1. kept \in Seq(Nat) /\ Distinct(kept) /\ Listed(kept) = FreeOf(h, b) \ {chosen}
    <3>1. b = Bucket(whole) <=> chosen \in Listed(h.bins[b])
      BY <2>0, ListsBlock DEF whole
    <3>2. CASE b = Bucket(whole)
      <4>1. kept = Without(h.bins[b], chosen)
        BY <3>2 DEF AllocKept, whole
      <4> QED
        BY <3>1, <3>2, <4>1, <2>0, WithoutListed
    <3>3. CASE b # Bucket(whole)
      <4>1. kept = h.bins[b]
        BY <3>3 DEF AllocKept, whole
      <4> QED
        BY <3>1, <3>3, <4>1, <2>0
    <3> QED
      BY <3>2, <3>3
  <2> HIDE DEF kept, front, remains, mid
  <2>2. /\ mid \in Seq(Nat) /\ Distinct(mid)
        /\ Listed(mid) = (FreeOf(h, b) \ {chosen}) \cup (IF front THEN {chosen} ELSE {})
    <3>1. CASE front
      <4>1. mid = kept \o Only(TRUE, chosen)
        BY <3>1 DEF mid
      <4>2. chosen \in Nat /\ chosen \notin Listed(kept)
        BY <1>0, <2>1
      <4> QED
        BY <3>1, <4>1, <4>2, <2>1, OnlyListed
    <3>2. CASE ~front
      <4>1. Only(front, chosen) = <<>>
        BY <3>2 DEF Only
      <4>2. mid = kept
        BY <4>1, <2>1, ConcatEmptySeq DEF mid
      <4> QED
        BY <3>2, <4>2, <2>1
    <3> QED
      BY <3>1, <3>2
  <2>3. /\ g.bins[b] \in Seq(Nat) /\ Distinct(g.bins[b])
        /\ Listed(g.bins[b]) = Listed(mid) \cup (IF remains THEN {start + size} ELSE {})
    <3>1. CASE remains
      <4>1. g.bins[b] = mid \o Only(TRUE, start + size)
        BY <3>1, <2>0
      <4>2. start + size \in Nat /\ start + size \notin Listed(mid)
        <5>1. start + size \notin D \/ start + size = chosen
          BY <3>1, <1>0, <1>1, <1>4 DEF remains
        <5>2. start + size # chosen
          BY <1>0
        <5>3. Listed(mid) \subseteq D
          BY <2>2 DEF FreeOf
        <5> QED
          BY <5>1, <5>2, <5>3
      <4> QED
        BY <3>1, <4>1, <4>2, <2>2, OnlyListed
    <3>2. CASE ~remains
      <4>1. Only(remains, start + size) = <<>>
        BY <3>2 DEF Only
      <4>2. g.bins[b] = mid
        BY <4>1, <2>0, <2>2, ConcatEmptySeq
      <4> QED
        BY <3>2, <4>2, <2>2
    <3> QED
      BY <3>1, <3>2
  <2>4. ASSUME NEW s
        PROVE  s \in FreeOf(g, b) <=> \/ s \in FreeOf(h, b) \ {chosen}
                                      \/ front /\ s = chosen
                                      \/ remains /\ s = start + size
    <3> USE DEF front, remains
    <3>1. CASE s \in D \ {chosen}
      <4>1. s \in DOMAIN g.blocks /\ s # start /\ (rest > 0 => s # start + size)
        BY <3>1, <1>4, <1>12
      <4>2. g.blocks[s].size = h.blocks[s].size /\ g.blocks[s].free = h.blocks[s].free
        BY <3>1, <1>7
      <4> QED
        BY <3>1, <4>1, <4>2 DEF FreeOf
    <3>2. CASE s = start
      <4>1. s \notin FreeOf(g, b)
        BY <3>2, <1>8 DEF FreeOf
      <4>2. s \notin D \ {chosen} /\ s # start + size
        BY <3>2, <1>4
      <4> QED
        BY <3>2, <4>1, <4>2 DEF FreeOf
    <3>3. CASE s = chosen /\ s # start
      <4>1. s # start + size
        BY <3>3, <1>0
      <4> QED
        BY <3>3, <4>1, <1>9, <1>12 DEF FreeOf
    <3>4. CASE rest > 0 /\ s = start + size
      <4>1. s # chosen /\ s \notin D
        BY <3>4, <1>0, <1>4
      <4> QED
        BY <3>4, <4>1, <1>10, <1>12 DEF FreeOf
    <3>5. CASE s \notin D /\ s # start /\ ~(rest > 0 /\ s = start + size)
      BY <3>5, <1>1, <1>10, <1>11, <1>12 DEF FreeOf
    <3> QED
      BY <3>1, <3>2, <3>3, <3>4, <3>5
  <2>5. FreeOf(g, b) = Listed(mid) \cup (IF remains THEN {start + size} ELSE {})
    BY <2>2, <2>4
  <2> QED
    BY <2>3, <2>5 DEF BinOK
<1>19. ~IsTaken(h, start)
  BY <1>a DEF IsTaken
<1>20. \A s : IsTaken(g, s) <=> IsTaken(h, s) \/ s = start
  BY <1>1, <1>7, <1>8, <1>9, <1>10, <1>11, <1>12 DEF IsTaken
<1>21. \A s : IsTaken(h, s) => g.blocks[s].size = h.blocks[s].size
  BY <1>7 DEF IsTaken
<1> QED
  BY <1>2, <1>8, <1>13, <1>15, <1>16, <1>17, <1>18, <1>19, <1>20, <1>21 DEF HeapInv, BinsOK, g

\* Two blocks that are handed out do not overlap.
LEMMA TakenApart ==
  ASSUME NEW h, HeapInv(h), NEW s, NEW t, IsTaken(h, s), IsTaken(h, t), s # t
  PROVE  /\ s \in Nat /\ t \in Nat /\ h.blocks[s].size \in Nat /\ h.blocks[t].size \in Nat
         /\ s + h.blocks[s].size <= t \/ t + h.blocks[t].size <= s
<1>1. /\ s \in DOMAIN h.blocks /\ t \in DOMAIN h.blocks /\ s \in Nat /\ t \in Nat
      /\ h.blocks[s].size \in Nat /\ h.blocks[t].size \in Nat
  BY DEF HeapInv, HeapType, BlockType, IsTaken
<1>2. s < t \/ t < s
  BY <1>1
<1> QED
  BY <1>1, <1>2 DEF HeapInv, Tiles, EndOf

-----------------------------------------------------------------------------
(***************************************************************************)
(* The rest of what keeps a heap in order: blocks leave no gap, the first  *)
(* block is the one without a predecessor, free neighbours exist only where*)
(* a merge is under way, and lv1_entries counts the free blocks of each    *)
(* first level.                                                            *)
(***************************************************************************)

\* Blocks fill the space.
Contiguous(h) ==
  /\ 0 \in DOMAIN h.blocks
  /\ \A s \in DOMAIN h.blocks : EndOf(h, s) = h.total \/ EndOf(h, s) \in DOMAIN h.blocks

\* Only the first block has none before it.
Rooted(h) == \A s \in DOMAIN h.blocks : h.blocks[s].prev = NoBlock <=> s = 0

\* A free block and a free one behind it
Pair(h, s) == h.blocks[s].free /\ NextFree(h, s)

\* Where there may be one while start is being merged: the merge goes left while it can,
\* and comes back over the blocks it has passed.
PairAllowed(h, start, s) ==
  s = start \/ EndOf(h, s) = start \/ (s = EndOf(h, start) /\ ~PrevFree(h, start))

Separated(h) ==
  \A s \in DOMAIN h.blocks : Pair(h, s) => Busy(h) /\ PairAllowed(h, h.merging, s)

\* The free blocks of a first level
FreeAt(h, l) == {s \in DOMAIN h.blocks : h.blocks[s].free /\ Lv1(h.blocks[s].size) = l}

Counted(h) ==
  /\ h.entries = [l \in DOMAIN h.entries |-> h.entries[l]]
  /\ \A l \in DOMAIN h.entries : h.entries[l] = Cardinality(FreeAt(h, l))

HeapShape(h) == Contiguous(h) /\ Rooted(h) /\ Separated(h) /\ Counted(h)

-----------------------------------------------------------------------------
LEMMA BlockFacts ==
  ASSUME NEW h, HeapInv(h)
  PROVE  /\ DOMAIN h.blocks \subseteq Nat
         /\ \A s \in DOMAIN h.blocks :
              /\ h.blocks[s] \in BlockType /\ EndOf(h, s) = s + h.blocks[s].size
              /\ h.blocks[s].size \in Nat \ {0} /\ EndOf(h, s) > s /\ EndOf(h, s) <= h.total
         /\ \A s, t \in DOMAIN h.blocks : EndOf(h, s) = EndOf(h, t) => s = t
         /\ \A s, t \in DOMAIN h.blocks : s < t => EndOf(h, s) <= t
         /\ h.total \in Nat
<1>1. /\ DOMAIN h.blocks \subseteq Nat /\ h.total \in Nat
      /\ \A s \in DOMAIN h.blocks : h.blocks[s] \in BlockType
  BY DEF HeapInv, HeapType
<1>2. \A s \in DOMAIN h.blocks :
        /\ EndOf(h, s) = s + h.blocks[s].size
        /\ h.blocks[s].size \in Nat \ {0} /\ EndOf(h, s) > s
  BY <1>1 DEF EndOf, BlockType
<1>3. /\ \A s \in DOMAIN h.blocks : EndOf(h, s) <= h.total
      /\ \A s, t \in DOMAIN h.blocks : s < t => EndOf(h, s) <= t
  BY DEF HeapInv, Tiles
<1>4. ASSUME NEW s \in DOMAIN h.blocks, NEW t \in DOMAIN h.blocks, EndOf(h, s) = EndOf(h, t)
      PROVE  s = t
  <2>1. ~(s < t) /\ ~(t < s)
    BY <1>1, <1>2, <1>3, <1>4
  <2> QED
    BY <1>1, <2>1
<1> QED
  BY <1>1, <1>2, <1>3, <1>4

LEMMA FreeFinite ==
  ASSUME NEW h, HeapInv(h), NEW l
  PROVE  IsFiniteSet(FreeAt(h, l)) /\ Cardinality(FreeAt(h, l)) \in Nat
<1>1. FreeAt(h, l) \subseteq 0..h.total /\ h.total \in Nat
  BY BlockFacts DEF FreeAt
<1>2. IsFiniteSet(0..h.total)
  BY <1>1, FS_Interval
<1>3. IsFiniteSet(FreeAt(h, l))
  BY <1>1, <1>2, FS_Subset
<1> QED
  BY <1>3, FS_CardinalityType

\* The count of a set that loses or gets an element
LEMMA CountLess ==
  ASSUME NEW S, IsFiniteSet(S), NEW x
  PROVE  /\ IsFiniteSet(S \ {x})
         /\ Cardinality(S \ {x}) = Cardinality(S) - (IF x \in S THEN 1 ELSE 0)
         /\ Cardinality(S) \in Nat /\ Cardinality(S \ {x}) \in Nat
<1>1. /\ IsFiniteSet(S \ {x})
      /\ Cardinality(S \ {x}) = IF x \in S THEN Cardinality(S) - 1 ELSE Cardinality(S)
  BY FS_RemoveElement
<1>2. Cardinality(S) \in Nat /\ Cardinality(S \ {x}) \in Nat
  BY <1>1, FS_CardinalityType
<1> QED
  BY <1>1, <1>2

LEMMA CountMore ==
  ASSUME NEW S, IsFiniteSet(S), NEW x, x \notin S
  PROVE  /\ IsFiniteSet(S \cup {x}) /\ Cardinality(S \cup {x}) = Cardinality(S) + 1
         /\ Cardinality(S) \in Nat /\ Cardinality(S \cup {x}) \in Nat
<1>1. IsFiniteSet(S \cup {x}) /\ Cardinality(S \cup {x}) = Cardinality(S) + 1
  BY FS_AddElement
<1> QED
  BY <1>1, FS_CardinalityType

-----------------------------------------------------------------------------
LEMMA NewHeapShape ==
  ASSUME NEW total \in Nat \ {0}
  PROVE  HeapShape(NewHeap(total))
<1> DEFINE h == [total   |-> total,
                 blocks  |-> [s \in {} |-> Block(total, NoBlock, TRUE)],
                 bins    |-> [b \in (0..BitLength(total)) \X (0..(2^L2Cnt - 1)) |-> <<>>],
                 entries |-> [l \in 0..BitLength(total) |-> 0],
                 merging |-> NoBlock]
           g == NewHeap(total)
<1>1. /\ g.total = total /\ g.merging = NoBlock
      /\ g.blocks = [s \in {0} |-> Block(total, NoBlock, TRUE)]
      /\ g.entries = [h.entries EXCEPT ![Lv1(total)] = @ + 1]
  BY DEF NewHeap, InsertBlock
<1> HIDE DEF g
<1>2. /\ DOMAIN g.blocks = {0} /\ g.blocks[0] = Block(total, NoBlock, TRUE)
      /\ g.blocks[0].size = total /\ g.blocks[0].prev = NoBlock /\ g.blocks[0].free
      /\ EndOf(g, 0) = total
  BY <1>1 DEF Block, EndOf
<1>3. Contiguous(g) /\ Rooted(g) /\ Separated(g)
  BY <1>1, <1>2 DEF Contiguous, Rooted, Separated, Pair, NextFree
<1>4. DOMAIN g.entries = DOMAIN h.entries /\ g.entries = [l \in DOMAIN g.entries |-> g.entries[l]]
  BY <1>1
<1>5. ASSUME NEW l \in DOMAIN g.entries PROVE g.entries[l] = Cardinality(FreeAt(g, l))
  <2>1. h.entries[l] = 0 /\ l \in DOMAIN h.entries
    BY <1>4, <1>5
  <2>2. CASE l = Lv1(total)
    <3>1. FreeAt(g, l) = {0}
      BY <1>2, <2>2 DEF FreeAt
    <3>2. Cardinality(FreeAt(g, l)) = 1
      BY <3>1, FS_Singleton
    <3>3. g.entries[l] = 1
      BY <1>1, <2>1, <2>2
    <3> QED
      BY <3>2, <3>3
  <2>3. CASE l # Lv1(total)
    <3>1. FreeAt(g, l) = {}
      BY <1>2, <2>3 DEF FreeAt
    <3>2. g.entries[l] = 0
      BY <1>1, <2>1, <2>3
    <3> QED
      BY <3>1, <3>2, FS_EmptySet
  <2> QED
    BY <2>2, <2>3
<1> QED
  BY <1>3, <1>4, <1>5 DEF HeapShape, Counted, g
-----------------------------------------------------------------------------
(* free, up to its merge                                                   *)

LEMMA FreeShape ==
  ASSUME NEW h, HeapInv(h), HeapShape(h), ~Busy(h), NEW start, IsTaken(h, start)
  PROVE  HeapShape(FreeBlock(h, start)) /\ DOMAIN FreeBlock(h, start).bins = DOMAIN h.bins
<1> DEFINE size == h.blocks[start].size
           prev == h.blocks[start].prev
           i == InsertBlock(h, start, size, prev)
           g == FreeBlock(h, start)
           D == DOMAIN h.blocks
<1>0. start \in D /\ ~h.blocks[start].free /\ HeapType(h)
  BY DEF IsTaken, HeapInv
<1>1. /\ Inserted(h, i, start, size, prev) /\ DOMAIN i = DOMAIN h
      /\ i.entries = [h.entries EXCEPT ![Lv1(size)] = @ + 1]
      /\ g = [i EXCEPT !.merging = start]
  BY <1>0, InsertFields DEF InsertBlock, HeapType, FreeBlock
<1> HIDE DEF i, g
<1>2. /\ g.total = h.total /\ g.merging = start /\ g.blocks = i.blocks
      /\ g.bins = i.bins /\ g.entries = i.entries
  BY <1>1 DEF HeapType, Inserted
<1>3. /\ DOMAIN g.blocks = D /\ g.total = h.total /\ g.merging = start
      /\ \A s \in D : s # start => g.blocks[s] = h.blocks[s]
      /\ g.blocks[start] = Block(size, prev, TRUE)
      /\ DOMAIN g.bins = DOMAIN h.bins
      /\ g.entries = [h.entries EXCEPT ![Lv1(size)] = @ + 1]
  <2>1. g.blocks = [s \in D \cup {start} |-> IF s = start THEN Block(size, prev, TRUE) ELSE h.blocks[s]]
    BY <1>1, <1>2 DEF Inserted
  <2>2. DOMAIN g.bins = DOMAIN h.bins
    BY <1>1, <1>2 DEF Inserted
  <2> HIDE DEF D, size, prev
  <2>3. /\ DOMAIN g.blocks = D /\ g.blocks[start] = Block(size, prev, TRUE)
        /\ \A s \in D : s # start => g.blocks[s] = h.blocks[s]
    BY <1>0, <2>1 DEF D
  <2> QED
    BY <1>1, <1>2, <2>2, <2>3
<1>4. \A s \in D : /\ g.blocks[s].size = h.blocks[s].size /\ g.blocks[s].prev = h.blocks[s].prev
                   /\ g.blocks[s].free <=> h.blocks[s].free \/ s = start
                   /\ EndOf(g, s) = EndOf(h, s)
  BY <1>0, <1>3 DEF Block, EndOf
<1>5. Contiguous(g) /\ Rooted(g)
  BY <1>3, <1>4 DEF HeapShape, Contiguous, Rooted
<1>6. Separated(g)
  <2> SUFFICES ASSUME NEW s \in D, Pair(g, s)
               PROVE  Busy(g) /\ (s = start \/ EndOf(g, s) = start)
    BY <1>3 DEF Separated, PairAllowed
  <2>1. EndOf(g, s) \in D /\ g.blocks[s].free /\ g.blocks[EndOf(g, s)].free
    BY <1>3 DEF Pair, NextFree
  <2>2. s = start \/ EndOf(g, s) = start
    <3> SUFFICES ASSUME s # start, EndOf(g, s) # start PROVE FALSE
      OBVIOUS
    <3>1. Pair(h, s)
      BY <2>1, <1>4 DEF Pair, NextFree
    <3> QED
      BY <3>1 DEF HeapShape, Separated
  <2>3. Busy(g)
    BY <1>0, <1>3 DEF Busy, HeapType, NoBlock
  <2> QED
    BY <2>2, <2>3
<1>7. Counted(g)
  <2>1. DOMAIN g.entries = DOMAIN h.entries /\ g.entries = [l \in DOMAIN g.entries |-> g.entries[l]]
    BY <1>3
  <2>2. ASSUME NEW l \in DOMAIN h.entries PROVE g.entries[l] = Cardinality(FreeAt(g, l))
    <3>1. /\ h.entries[l] = Cardinality(FreeAt(h, l)) /\ IsFiniteSet(FreeAt(h, l))
          /\ start \notin FreeAt(h, l)
      <4>1. h.entries[l] = Cardinality(FreeAt(h, l))
        BY DEF HeapShape, Counted
      <4>2. IsFiniteSet(FreeAt(h, l))
        BY FreeFinite
      <4>3. start \notin FreeAt(h, l)
        BY <1>0 DEF FreeAt
      <4> QED
        BY <4>1, <4>2, <4>3
    <3>2. CASE l = Lv1(size)
      <4>1. FreeAt(g, l) = FreeAt(h, l) \cup {start}
        BY <1>0, <1>3, <1>4, <3>2 DEF FreeAt
      <4>2. g.entries[l] = h.entries[l] + 1
        BY <1>3, <3>2
      <4> QED
        BY <3>1, <4>1, <4>2, CountMore
    <3>3. CASE l # Lv1(size)
      <4>1. FreeAt(g, l) = FreeAt(h, l)
        BY <1>0, <1>3, <1>4, <3>3 DEF FreeAt
      <4>2. g.entries[l] = h.entries[l]
        BY <1>3, <3>3
      <4> QED
        BY <3>1, <4>1, <4>2
    <3> QED
      BY <3>2, <3>3
  <2> QED
    BY <2>1, <2>2 DEF Counted
<1> QED
  BY <1>3, <1>5, <1>6, <1>7 DEF HeapShape, g
-----------------------------------------------------------------------------
(* A merge.                                                                *)

LEMMA LeftShape ==
  ASSUME NEW h, HeapInv(h), HeapShape(h), Busy(h), PrevFree(h, h.merging)
  PROVE  HeapShape([h EXCEPT !.merging = h.blocks[h.merging].prev])
<1> DEFINE start == h.merging
           prev == h.blocks[start].prev
           g == [h EXCEPT !.merging = prev]
           D == DOMAIN h.blocks
<1>0. start \in D /\ HeapType(h) /\ prev # NoBlock /\ h.blocks[prev].free
  BY DEF HeapInv, MergingFree, PrevFree
<1>1. prev \in D /\ EndOf(h, prev) = start
  <2>1. Linked(h, start)
    BY <1>0 DEF HeapInv, Links
  <2> QED
    BY <1>0, <2>1 DEF Linked
<1>2. /\ g.total = h.total /\ g.merging = prev /\ g.blocks = h.blocks /\ g.entries = h.entries
  BY <1>0 DEF HeapType
<1> HIDE DEF g
<1>3. Contiguous(g) /\ Rooted(g) /\ Counted(g)
  BY <1>2 DEF HeapShape, Contiguous, Rooted, Counted, FreeAt, EndOf
<1>4. \A s \in D : Pair(h, s) => s = start \/ EndOf(h, s) = start
  BY DEF HeapShape, Separated, PairAllowed
<1>5. prev < start /\ start < EndOf(h, start) /\ start \in Nat /\ prev \in Nat
  BY <1>0, <1>1, BlockFacts
<1>6. ~PrevFree(h, prev)
  <2> SUFFICES ASSUME PrevFree(h, prev) PROVE FALSE
    OBVIOUS
  <2> DEFINE far == h.blocks[prev].prev
  <2>1. far # NoBlock /\ h.blocks[far].free
    BY DEF PrevFree
  <2>2. Linked(h, prev)
    <3>1. prev \in D
      BY <1>0, <1>1
    <3>2. \A s \in D : Linked(h, s)
      BY DEF HeapInv, Links
    <3> QED
      BY <3>1, <3>2
  <2>3. far \in D /\ EndOf(h, far) = prev
    BY <2>1, <2>2 DEF Linked
  <2>4. Pair(h, far)
    BY <2>1, <2>3, <1>0, <1>1 DEF Pair, NextFree
  <2>5. far < prev /\ far \in Nat
    BY <2>3, BlockFacts
  <2>6. far = start \/ EndOf(h, far) = start
    BY <1>4, <2>3, <2>4
  <2>7. far # start /\ prev # start
    BY <1>5, <2>5
  <2> QED
    BY <2>3, <2>6, <2>7
<1>7. Separated(g)
  <2> SUFFICES ASSUME NEW s \in D, Pair(g, s) PROVE Busy(g) /\ PairAllowed(g, prev, s)
    BY <1>2 DEF Separated
  <2>1. Pair(h, s)
    BY <1>2 DEF Pair, NextFree, EndOf
  <2>2. Busy(g)
    BY <1>0, <1>2 DEF Busy
  <2>3. ~PrevFree(g, prev) /\ EndOf(g, prev) = start
    BY <1>1, <1>2, <1>6 DEF PrevFree, EndOf
  <2>4. CASE s = start
    BY <2>2, <2>3, <2>4 DEF PairAllowed
  <2>5. CASE EndOf(h, s) = start
    <3>1. s = prev
      BY <1>1, <2>5, BlockFacts
    <3> QED
      BY <2>2, <3>1 DEF PairAllowed
  <2> QED
    BY <2>1, <2>4, <2>5, <1>4
<1> QED
  BY <1>3, <1>7 DEF HeapShape, g

LEMMA DoneShape ==
  ASSUME NEW h, HeapInv(h), HeapShape(h), Busy(h),
         ~PrevFree(h, h.merging), ~NextFree(h, h.merging)
  PROVE  /\ HeapShape(MergeDone(h, h.merging))
         /\ DOMAIN MergeDone(h, h.merging).bins = DOMAIN h.bins
<1> DEFINE start == h.merging
           g == MergeDone(h, start)
           D == DOMAIN h.blocks
           next == EndOf(h, start)
<1>0. start \in D /\ HeapType(h) /\ h.blocks[start].free
  BY DEF HeapInv, MergingFree
<1>1. /\ g.total = h.total /\ g.merging = NoBlock /\ g.bins = h.bins /\ g.entries = h.entries
      /\ g.blocks = [s \in D |-> IF s = next THEN [h.blocks[s] EXCEPT !.prev = start] ELSE h.blocks[s]]
  BY <1>0 DEF HeapType, MergeDone
<1> HIDE DEF g
<1>2. /\ DOMAIN g.blocks = D
      /\ \A s \in D : /\ g.blocks[s].size = h.blocks[s].size /\ g.blocks[s].free = h.blocks[s].free
                      /\ g.blocks[s].prev = IF s = next THEN start ELSE h.blocks[s].prev
                      /\ EndOf(g, s) = EndOf(h, s)
  <2>1. \A s \in D : h.blocks[s] \in BlockType
    BY BlockFacts
  <2> QED
    BY <1>1, <2>1 DEF BlockType, EndOf
<1>3. start \in Nat /\ next > start /\ next \in Nat
  BY <1>0, BlockFacts
<1>4. Contiguous(g)
  BY <1>1, <1>2 DEF HeapShape, Contiguous
<1>5. Rooted(g)
  <2>1. start # NoBlock /\ next # 0
    BY <1>3 DEF NoBlock
  <2> QED
    BY <2>1, <1>2 DEF HeapShape, Rooted
<1>6. \A s \in D : Pair(g, s) <=> Pair(h, s)
  BY <1>2 DEF Pair, NextFree
<1>7. Separated(g)
  <2> SUFFICES ASSUME NEW s \in D, Pair(h, s) PROVE FALSE
    BY <1>2, <1>6 DEF Separated
  <2>1. s # start /\ s # next
    BY <1>0 DEF Pair, NextFree
  <2>2. EndOf(h, s) = start
    BY <2>1 DEF HeapShape, Separated, PairAllowed
  <2>3. CASE start = 0
    BY <2>2, <2>3, BlockFacts
  <2>4. CASE start # 0
    <3>1. h.blocks[start].prev # NoBlock
      BY <1>0, <2>4 DEF HeapShape, Rooted
    <3>2. Linked(h, start)
      BY <1>0, <1>3 DEF HeapInv, Links
    <3>3. h.blocks[start].prev \in D /\ EndOf(h, h.blocks[start].prev) = start
      BY <3>1, <3>2 DEF Linked
    <3>4. s = h.blocks[start].prev
      BY <2>2, <3>3, BlockFacts
    <3> QED
      BY <3>1, <3>4 DEF Pair, PrevFree
  <2> QED
    BY <2>3, <2>4
<1>8. Counted(g)
  <2>1. \A l : FreeAt(g, l) = FreeAt(h, l)
    BY <1>2 DEF FreeAt
  <2> QED
    BY <1>1, <2>1 DEF HeapShape, Counted
<1> QED
  BY <1>1, <1>4, <1>5, <1>7, <1>8 DEF HeapShape, g

LEMMA NextShape ==
  ASSUME NEW h, HeapInv(h), HeapShape(h), Busy(h),
         ~PrevFree(h, h.merging), NextFree(h, h.merging)
  PROVE  /\ HeapShape(MergeNext(h, h.merging))
         /\ DOMAIN MergeNext(h, h.merging).bins = DOMAIN h.bins
<1> DEFINE start == h.merging
           next == EndOf(h, start)
           size == h.blocks[start].size
           more == h.blocks[next].size
           D == DOMAIN h.blocks
           g == MergeNext(h, start)
<1>0. /\ HeapType(h) /\ start \in D /\ next \in D /\ start < next /\ start \in Nat /\ next \in Nat
      /\ h.blocks[start].free /\ h.blocks[next].free /\ h.blocks[start] \in BlockType
  <2>1. HeapType(h) /\ start \in D /\ h.blocks[start].free /\ next \in D /\ h.blocks[next].free
    BY DEF HeapInv, MergingFree, NextFree
  <2> QED
    BY <2>1, BlockFacts
<1>1. Merged(h, g, start, next)
  BY <1>0, MergeFields
<1>e. g.entries = [l \in DOMAIN h.entries |-> h.entries[l] - One(l = Lv1(size)) - One(l = Lv1(more))
                                               + One(l = Lv1(size + more))]
  <2>1. "entries" \in DOMAIN h
    BY <1>0 DEF HeapType
  <2> QED
    BY <2>1 DEF MergeNext
<1> HIDE DEF g
<1>2. /\ g.total = h.total /\ g.merging = start /\ DOMAIN g.blocks = D \ {next}
      /\ DOMAIN g.bins = DOMAIN h.bins
      /\ \A s \in D \ {start, next} : g.blocks[s] = h.blocks[s] /\ EndOf(g, s) = EndOf(h, s)
      /\ g.blocks[start] = [h.blocks[start] EXCEPT !.size = size + more]
  BY <1>1 DEF Merged, EndOf
<1>3. /\ g.blocks[start].size = size + more /\ g.blocks[start].prev = h.blocks[start].prev
      /\ g.blocks[start].free /\ EndOf(g, start) = EndOf(h, next)
  <2>1. next = start + size /\ EndOf(h, next) = next + more /\ size \in Nat /\ more \in Nat
    BY <1>0, BlockFacts
  <2>2. /\ g.blocks[start].size = size + more /\ g.blocks[start].prev = h.blocks[start].prev
        /\ g.blocks[start].free
    BY <1>0, <1>2 DEF BlockType
  <2> QED
    BY <1>0, <2>1, <2>2 DEF EndOf
<1>4. Contiguous(g)
  <2>1. 0 \in D \ {next}
    BY <1>0 DEF HeapShape, Contiguous
  <2>2. EndOf(h, next) # next
    BY <1>0, BlockFacts
  <2>3. \A s \in D \ {start, next} : EndOf(h, s) # next
    BY <1>0, BlockFacts
  <2>4. \A s \in D : EndOf(h, s) = h.total \/ EndOf(h, s) \in D
    BY DEF HeapShape, Contiguous
  <2>5. ASSUME NEW s \in D \ {next} PROVE EndOf(g, s) = g.total \/ EndOf(g, s) \in D \ {next}
    <3>1. CASE s = start
      BY <3>1, <1>0, <1>2, <1>3, <2>2, <2>4
    <3>2. CASE s # start
      BY <3>2, <1>2, <2>3, <2>4
    <3> QED
      BY <3>1, <3>2
  <2> QED
    BY <1>2, <2>1, <2>5 DEF Contiguous
<1>5. Rooted(g)
  <2>1. \A s \in D : h.blocks[s].prev = NoBlock <=> s = 0
    BY DEF HeapShape, Rooted
  <2>2. \A s \in D \ {next} : g.blocks[s].prev = h.blocks[s].prev
    BY <1>2, <1>3
  <2> QED
    BY <1>2, <2>1, <2>2 DEF Rooted
<1>6. Separated(g)
  <2> SUFFICES ASSUME NEW s \in D \ {start, next}, Pair(g, s) PROVE FALSE
    BY <1>2 DEF Separated, PairAllowed, Busy
  <2>1. EndOf(h, s) \in D \ {next} /\ h.blocks[s].free /\ g.blocks[EndOf(h, s)].free
    BY <1>2 DEF Pair, NextFree
  <2>2. Pair(h, s)
    BY <2>1, <1>0, <1>2 DEF Pair, NextFree
  <2>3. EndOf(h, s) = start
    BY <2>2 DEF HeapShape, Separated, PairAllowed
  <2>4. start # 0
    BY <2>3, BlockFacts
  <2>5. h.blocks[start].prev # NoBlock
    BY <1>0, <2>4 DEF HeapShape, Rooted
  <2>6. Linked(h, start)
    BY <1>0 DEF HeapInv, Links
  <2>7. h.blocks[start].prev \in D /\ EndOf(h, h.blocks[start].prev) = start
    BY <2>5, <2>6 DEF Linked
  <2>8. s = h.blocks[start].prev
    BY <2>3, <2>7, BlockFacts
  <2> QED
    BY <2>1, <2>5, <2>8 DEF PrevFree
<1>7. Counted(g)
  <2>1. DOMAIN g.entries = DOMAIN h.entries /\ g.entries = [l \in DOMAIN g.entries |-> g.entries[l]]
    BY <1>e
  <2>2. ASSUME NEW l \in DOMAIN h.entries PROVE g.entries[l] = Cardinality(FreeAt(g, l))
    <3> DEFINE S == FreeAt(h, l)
               T == (S \ {start}) \ {next}
    <3>1. h.entries[l] = Cardinality(S)
      BY DEF HeapShape, Counted
    <3>2. IsFiniteSet(S)
      BY FreeFinite
    <3>3. /\ start \in S <=> l = Lv1(size)
          /\ next \in S \ {start} <=> l = Lv1(more)
      BY <1>0 DEF FreeAt
    <3>4. start \notin T
      OBVIOUS
    <3>5. FreeAt(g, l) = IF l = Lv1(size + more) THEN T \cup {start} ELSE T
      <4>1. start \in FreeAt(g, l) <=> l = Lv1(size + more)
        <5>1. start \in DOMAIN g.blocks
          BY <1>0, <1>2
        <5> QED
          BY <5>1, <1>3 DEF FreeAt
      <4>2. \A s : s # start => (s \in FreeAt(g, l) <=> s \in T)
        BY <1>2 DEF FreeAt
      <4> QED
        BY <4>1, <4>2, <3>4
    <3> HIDE DEF S
    <3>6. /\ IsFiniteSet(T) /\ Cardinality(T) \in Nat /\ Cardinality(S) \in Nat
          /\ Cardinality(T) = Cardinality(S) - One(l = Lv1(size)) - One(l = Lv1(more))
      <4>1. /\ IsFiniteSet(S \ {start}) /\ Cardinality(S \ {start}) \in Nat /\ Cardinality(S) \in Nat
            /\ Cardinality(S \ {start}) = Cardinality(S) - One(l = Lv1(size))
        BY <3>2, <3>3, CountLess DEF One
      <4>2. /\ IsFiniteSet(T) /\ Cardinality(T) \in Nat
            /\ Cardinality(T) = Cardinality(S \ {start}) - One(l = Lv1(more))
        BY <4>1, <3>3, CountLess DEF One
      <4> QED
        BY <4>1, <4>2
    <3> HIDE DEF T
    <3>7. g.entries[l] = Cardinality(T) + One(l = Lv1(size + more))
      BY <1>e, <3>1, <3>6
    <3>8. CASE l = Lv1(size + more)
      BY <3>4, <3>5, <3>6, <3>7, <3>8, CountMore DEF One
    <3>9. CASE l # Lv1(size + more)
      BY <3>5, <3>6, <3>7, <3>9 DEF One
    <3> QED
      BY <3>8, <3>9
  <2> QED
    BY <2>1, <2>2 DEF Counted
<1> QED
  BY <1>2, <1>4, <1>5, <1>6, <1>7 DEF HeapShape, g

LEMMA MergeShape ==
  ASSUME NEW h, HeapInv(h), HeapShape(h), Busy(h)
  PROVE  HeapShape(MergeStep(h)) /\ DOMAIN MergeStep(h).bins = DOMAIN h.bins
<1>1. CASE PrevFree(h, h.merging)
  <2>1. MergeStep(h) = [h EXCEPT !.merging = h.blocks[h.merging].prev]
    BY <1>1 DEF MergeStep
  <2>2. MergeStep(h).bins = h.bins
    BY <2>1 DEF HeapInv, HeapType
  <2> QED
    BY <1>1, <2>1, <2>2, LeftShape
<1>2. CASE ~PrevFree(h, h.merging) /\ NextFree(h, h.merging)
  <2>1. MergeStep(h) = MergeNext(h, h.merging)
    BY <1>2 DEF MergeStep
  <2> QED
    BY <1>2, <2>1, NextShape
<1>3. CASE ~PrevFree(h, h.merging) /\ ~NextFree(h, h.merging)
  <2>1. MergeStep(h) = MergeDone(h, h.merging)
    BY <1>3 DEF MergeStep
  <2> QED
    BY <1>3, <2>1, DoneShape
<1> QED
  BY <1>1, <1>2, <1>3
-----------------------------------------------------------------------------
(* alloc takes size bytes at start out of a free block.                    *)

LEMMA AllocShape ==
  ASSUME NEW h, HeapInv(h), HeapShape(h), ~Busy(h),
         NEW chosen \in DOMAIN h.blocks, h.blocks[chosen].free,
         NEW start \in Nat, NEW size \in Nat \ {0},
         chosen <= start, start + size <= EndOf(h, chosen)
  PROVE  /\ HeapShape(Alloc(h, chosen, start, size))
         /\ DOMAIN Alloc(h, chosen, start, size).bins = DOMAIN h.bins
<1> DEFINE D == DOMAIN h.blocks
           whole == h.blocks[chosen].size
           end == chosen + whole
           g == Alloc(h, chosen, start, size)
<1>0. /\ D \subseteq Nat /\ chosen \in Nat /\ end \in Nat /\ HeapType(h)
      /\ EndOf(h, chosen) = end /\ end <= h.total /\ h.total \in Nat /\ end > chosen
  BY BlockFacts DEF HeapInv
<1>s. PICK rest, tail : SplitOff(h, g, chosen, start, size, rest, tail)
  BY AllocSplits
<1>e. g.entries = [l \in DOMAIN h.entries |->
          h.entries[l] - One(l = Lv1(whole))
            + One(start # chosen /\ l = Lv1(start - chosen)) + One(rest > 0 /\ l = Lv1(rest))]
  <2>1. Rest(h, chosen, start, size) = rest
    BY <1>s, <1>0 DEF SplitOff, Rest, HeapType, BlockType
  <2> QED
    BY <1>0, <2>1 DEF HeapType, Alloc
<1> HIDE DEF g
<1>1. /\ rest \in Nat /\ start + size + rest = end /\ tail = IF rest > 0 THEN start + size ELSE start
      /\ chosen <= start /\ start < end /\ tail \in Nat /\ start <= tail /\ tail < end
  BY <1>s, <1>0 DEF SplitOff
<1>2. /\ g.total = h.total /\ g.merging = h.merging /\ DOMAIN g.bins = DOMAIN h.bins
      /\ DOMAIN g.blocks = (D \ {chosen}) \cup {chosen, start, tail}
      /\ \A s \in D \ {chosen} :
           /\ s # start /\ s # tail
           /\ g.blocks[s].size = h.blocks[s].size /\ g.blocks[s].free = h.blocks[s].free
           /\ g.blocks[s].prev = IF s = end THEN tail ELSE h.blocks[s].prev
           /\ EndOf(g, s) = EndOf(h, s)
  BY <1>s DEF SplitOff
<1>3. /\ ~g.blocks[start].free /\ EndOf(g, start) = start + size
      /\ g.blocks[start].prev = (IF start # chosen THEN chosen ELSE h.blocks[chosen].prev)
  BY <1>s DEF SplitOff
<1>4. start # chosen => /\ g.blocks[chosen].size = start - chosen /\ g.blocks[chosen].free
                        /\ g.blocks[chosen].prev = h.blocks[chosen].prev
                        /\ EndOf(g, chosen) = start
  BY <1>s DEF SplitOff
<1>5. rest > 0 => /\ tail = start + size /\ g.blocks[tail].size = rest /\ g.blocks[tail].free
                  /\ g.blocks[tail].prev = start /\ EndOf(g, tail) = end
  BY <1>s DEF SplitOff
<1> HIDE DEF whole, end
<1>6. end = h.total \/ end \in D \ {chosen, start, tail}
  <2>1. EndOf(h, chosen) = h.total \/ EndOf(h, chosen) \in D
    BY DEF HeapShape, Contiguous
  <2>2. end # chosen /\ end # start /\ end # tail
    BY <1>0, <1>1
  <2> QED
    BY <2>1, <2>2, <1>0
<1>7. Contiguous(g)
  <2>1. 0 \in DOMAIN g.blocks
    BY <1>2 DEF HeapShape, Contiguous
  <2>2. \A s \in D \ {chosen} : EndOf(g, s) = g.total \/ EndOf(g, s) \in DOMAIN g.blocks
    BY <1>2 DEF HeapShape, Contiguous
  <2>3. start # chosen => EndOf(g, chosen) \in DOMAIN g.blocks
    BY <1>2, <1>4
  <2>4. EndOf(g, start) = g.total \/ EndOf(g, start) \in DOMAIN g.blocks
    <3>1. start + size = IF rest > 0 THEN tail ELSE end
      BY <1>0, <1>1
    <3> QED
      BY <3>1, <1>2, <1>3, <1>6
  <2>5. rest > 0 => EndOf(g, tail) = g.total \/ EndOf(g, tail) \in DOMAIN g.blocks
    BY <1>2, <1>5, <1>6
  <2>6. rest = 0 => tail = start
    BY <1>1
  <2>7. rest > 0 \/ rest = 0
    BY <1>1
  <2> QED
    BY <1>2, <2>1, <2>2, <2>3, <2>4, <2>5, <2>6, <2>7 DEF Contiguous
<1>8. Rooted(g)
  <2>0. \A s \in D : h.blocks[s].prev = NoBlock <=> s = 0
    BY DEF HeapShape, Rooted
  <2>1. \A s \in D \ {chosen} : g.blocks[s].prev = NoBlock <=> s = 0
    <3>1. tail # NoBlock /\ end # 0
      BY <1>0, <1>1 DEF NoBlock
    <3> QED
      BY <3>1, <2>0, <1>2
  <2>2. start # chosen => (g.blocks[chosen].prev = NoBlock <=> chosen = 0)
    BY <2>0, <1>4
  <2>3. g.blocks[start].prev = NoBlock <=> start = 0
    <3>1. start # chosen => start # 0 /\ chosen # NoBlock
      BY <1>0, <1>1 DEF NoBlock
    <3> QED
      BY <3>1, <2>0, <1>3
  <2>4. rest > 0 => (g.blocks[tail].prev = NoBlock <=> tail = 0)
    <3>1. rest > 0 => start # NoBlock /\ tail # 0
      BY <1>1 DEF NoBlock
    <3> QED
      BY <3>1, <1>5
  <2>5. rest > 0 \/ tail = start
    BY <1>1
  <2> QED
    BY <1>2, <2>1, <2>2, <2>3, <2>4, <2>5 DEF Rooted
<1>9. \A s \in D : ~Pair(h, s)
  BY DEF HeapShape, Separated
<1>10. Separated(g)
  <2> SUFFICES ASSUME NEW s \in DOMAIN g.blocks, Pair(g, s) PROVE FALSE
    BY DEF Separated
  <2>0. EndOf(g, s) \in DOMAIN g.blocks /\ g.blocks[s].free /\ g.blocks[EndOf(g, s)].free
    BY DEF Pair, NextFree
  <2>1. CASE s \in D \ {chosen}
    <3>1. /\ EndOf(g, s) = EndOf(h, s) /\ h.blocks[s].free
      BY <2>0, <2>1, <1>2
    <3>2. EndOf(h, s) \in {start, tail} /\ EndOf(h, s) # chosen
      <4>1. ~(EndOf(h, s) \in D /\ h.blocks[EndOf(h, s)].free)
        BY <2>1, <3>1, <1>9 DEF Pair, NextFree
      <4> QED
        BY <4>1, <3>1, <2>0, <1>2
    <3>3. chosen < EndOf(h, s) /\ EndOf(h, s) < end
      BY <3>2, <1>0, <1>1
    <3>4. /\ s < chosen => EndOf(h, s) <= chosen
          /\ chosen < s => end <= s
          /\ s < EndOf(h, s) /\ s \in Nat /\ s # chosen /\ EndOf(h, s) \in Nat
      BY <2>1, <1>0, BlockFacts
    <3> QED
      BY <3>3, <3>4, <1>0
  <2>2. CASE s = chosen /\ start # chosen
    BY <2>0, <2>2, <1>3, <1>4
  <2>3. CASE s = start
    BY <2>0, <2>3, <1>3
  <2>4. CASE s = tail /\ rest > 0
    <3>1. EndOf(g, s) = end
      BY <2>4, <1>5
    <3>2. end \in D \ {chosen}
      BY <3>1, <2>0, <1>2, <1>0, <1>1
    <3>3. h.blocks[end].free
      BY <3>1, <3>2, <2>0, <1>2
    <3> QED
      BY <3>2, <3>3, <1>0, <1>9 DEF Pair, NextFree
  <2>5. rest > 0 \/ tail = start
    BY <1>1
  <2> QED
    BY <2>1, <2>2, <2>3, <2>4, <2>5, <1>2
<1>11. Counted(g)
  <2>1. DOMAIN g.entries = DOMAIN h.entries /\ g.entries = [l \in DOMAIN g.entries |-> g.entries[l]]
    BY <1>e
  <2>2. ASSUME NEW l \in DOMAIN h.entries PROVE g.entries[l] = Cardinality(FreeAt(g, l))
    <3> DEFINE front == start # chosen /\ l = Lv1(start - chosen)
               remains == rest > 0 /\ l = Lv1(rest)
               S == FreeAt(h, l)
               T == S \ {chosen}
               U == IF front THEN T \cup {chosen} ELSE T
               V == IF remains THEN U \cup {tail} ELSE U
    <3>1. h.entries[l] = Cardinality(S)
      BY DEF HeapShape, Counted
    <3>2. IsFiniteSet(S)
      BY FreeFinite
    <3>3. chosen \in S <=> l = Lv1(whole)
      BY DEF FreeAt, whole
    <3>4. rest > 0 => tail # chosen /\ tail # start /\ tail \notin D
      <4>1. rest > 0 => tail # chosen /\ tail # start
        BY <1>0, <1>1
      <4> QED
        BY <4>1, <1>2
    <3>5. FreeAt(g, l) = V
      <4> SUFFICES ASSUME NEW s PROVE s \in FreeAt(g, l) <=> s \in V
        OBVIOUS
      <4>1. CASE s \in D \ {chosen}
        <5>1. s \in FreeAt(g, l) <=> s \in S
          BY <4>1, <1>2 DEF FreeAt
        <5>2. s # chosen /\ s # tail
          BY <4>1, <1>2
        <5> QED
          BY <5>1, <5>2
      <4>2. CASE s = chosen
        <5>1. s \in V <=> front
          BY <4>2, <3>4
        <5>2. s \in DOMAIN g.blocks
          BY <4>2, <1>2
        <5>3. CASE start = chosen
          BY <4>2, <5>1, <5>3, <1>3 DEF FreeAt
        <5>4. CASE start # chosen
          BY <4>2, <5>1, <5>2, <5>4, <1>4 DEF FreeAt
        <5> QED
          BY <5>3, <5>4
      <4>3. CASE s = tail /\ rest > 0
        <5>1. s \notin U /\ s \in DOMAIN g.blocks
          BY <4>3, <3>4, <1>2 DEF FreeAt
        <5> QED
          BY <4>3, <5>1, <1>5 DEF FreeAt
      <4>4. CASE s \notin D /\ ~(s = tail /\ rest > 0)
        <5>1. s # chosen
          BY <4>4
        <5>2. s \notin V
          BY <4>4, <5>1 DEF FreeAt
        <5>3. s \in DOMAIN g.blocks => s = start
          <6>1. rest > 0 \/ tail = start
            BY <1>1
          <6> QED
            BY <4>4, <5>1, <6>1, <1>2
        <5> QED
          BY <5>2, <5>3, <1>3 DEF FreeAt
      <4> QED
        BY <4>1, <4>2, <4>3, <4>4
    <3>6. chosen \notin T /\ (rest > 0 => tail \notin U)
      BY <3>4 DEF FreeAt
    <3> HIDE DEF S
    <3>7. /\ IsFiniteSet(T) /\ Cardinality(T) \in Nat /\ Cardinality(S) \in Nat
          /\ Cardinality(T) = Cardinality(S) - One(l = Lv1(whole))
      BY <3>2, <3>3, CountLess DEF One
    <3> HIDE DEF T
    <3>8. /\ IsFiniteSet(U) /\ Cardinality(U) \in Nat
          /\ Cardinality(U) = Cardinality(T) + One(front)
      <4>1. CASE front
        BY <3>6, <3>7, <4>1, CountMore DEF One
      <4>2. CASE ~front
        BY <3>7, <4>2 DEF One
      <4> QED
        BY <4>1, <4>2
    <3> HIDE DEF U
    <3>9. Cardinality(V) = Cardinality(U) + One(remains)
      <4>1. CASE remains
        BY <3>6, <3>8, <4>1, CountMore DEF One
      <4>2. CASE ~remains
        BY <3>8, <4>2 DEF One
      <4> QED
        BY <4>1, <4>2
    <3>10. g.entries[l] = h.entries[l] - One(l = Lv1(whole)) + One(front) + One(remains)
      BY <1>e
    <3> QED
      BY <3>1, <3>5, <3>7, <3>8, <3>9, <3>10
  <2> QED
    BY <2>1, <2>2 DEF Counted
<1> QED
  BY <1>2, <1>7, <1>8, <1>10, <1>11 DEF HeapShape, g

-----------------------------------------------------------------------------
\* When every block has a bucket, all of this is what HeapOK says.
LEMMA ShapeIsOK ==
  ASSUME NEW h, HeapInv(h), HeapShape(h),
         \A s \in DOMAIN h.blocks : Bucket(h.blocks[s].size) \in DOMAIN h.bins
  PROVE  HeapOK(h)
<1> DEFINE D == DOMAIN h.blocks
<1>1. /\ 0 \in D
      /\ \A s \in D : EndOf(h, s) = h.total \/ EndOf(h, s) \in D
  BY DEF HeapShape, Contiguous
<1>2. \A s, t \in D : s < t => EndOf(h, s) <= t
  BY DEF HeapInv, Tiles
<1>3. ASSUME NEW b \in DOMAIN h.bins, NEW i \in DOMAIN h.bins[b]
      PROVE  LET s == h.bins[b][i]
             IN  /\ s \in D /\ h.blocks[s].free /\ Bucket(h.blocks[s].size) = b
                 /\ \A j \in DOMAIN h.bins[b] : h.bins[b][j] = s => i = j
  <2>1. Distinct(h.bins[b]) /\ Listed(h.bins[b]) = FreeOf(h, b)
    BY DEF HeapInv, BinsOK, BinOK
  <2>2. h.bins[b][i] \in FreeOf(h, b)
    BY <2>1 DEF Listed
  <2>3. \A j \in DOMAIN h.bins[b] : h.bins[b][j] = h.bins[b][i] => i = j
    BY <2>1 DEF Distinct
  <2> QED
    BY <2>2, <2>3 DEF FreeOf
<1>4. ASSUME NEW s \in D, h.blocks[s].free
      PROVE  \E i \in DOMAIN h.bins[Bucket(h.blocks[s].size)] :
               h.bins[Bucket(h.blocks[s].size)][i] = s
  <2>1. Bucket(h.blocks[s].size) \in DOMAIN h.bins
    OBVIOUS
  <2>2. s \in Listed(h.bins[Bucket(h.blocks[s].size)])
    BY <1>4, <2>1, ListsBlock
  <2> QED
    BY <2>2 DEF Listed
<1>5. LET levels == [s \in {t \in D : h.blocks[t].free} |-> Lv1(h.blocks[s].size)]
      IN  \A l \in DOMAIN h.entries :
            h.entries[l] = Cardinality({s \in DOMAIN levels : levels[s] = l})
  <2> DEFINE levels == [s \in {t \in D : h.blocks[t].free} |-> Lv1(h.blocks[s].size)]
  <2>1. \A l : {s \in DOMAIN levels : levels[s] = l} = FreeAt(h, l)
    BY DEF FreeAt
  <2> QED
    BY <2>1 DEF HeapShape, Counted
<1>6. ASSUME ~Busy(h), NEW s \in D
      PROVE  /\ IF s = 0 THEN h.blocks[s].prev = NoBlock
                ELSE h.blocks[s].prev \in D /\ EndOf(h, h.blocks[s].prev) = s
             /\ h.blocks[s].free => ~PrevFree(h, s) /\ ~NextFree(h, s)
  <2>1. Linked(h, s) /\ (h.blocks[s].prev = NoBlock <=> s = 0)
    BY <1>6 DEF HeapInv, Links, HeapShape, Rooted
  <2>2. s # 0 => h.blocks[s].prev \in D /\ EndOf(h, h.blocks[s].prev) = s
    BY <2>1 DEF Linked
  <2>3. \A t \in D : ~Pair(h, t)
    BY <1>6 DEF HeapShape, Separated
  <2>4. h.blocks[s].free => ~NextFree(h, s)
    BY <2>3 DEF Pair
  <2>5. h.blocks[s].free => ~PrevFree(h, s)
    <3> SUFFICES ASSUME h.blocks[s].free, PrevFree(h, s) PROVE FALSE
      OBVIOUS
    <3>1. h.blocks[s].prev # NoBlock /\ h.blocks[h.blocks[s].prev].free
      BY DEF PrevFree
    <3>2. h.blocks[s].prev \in D /\ EndOf(h, h.blocks[s].prev) = s
      BY <3>1, <2>1 DEF Linked
    <3> QED
      BY <3>1, <3>2, <2>3 DEF Pair, NextFree
  <2> QED
    BY <2>1, <2>2, <2>4, <2>5
<1> QED
  BY <1>1, <1>2, <1>3, <1>4, <1>5, <1>6 DEF HeapOK

-----------------------------------------------------------------------------
(***************************************************************************)
(* Sizes and buckets: what the bit operations of TLSF do to sizes.  Powers *)
(* of two count the subsets of a set, which gives them their rules.        *)
(***************************************************************************)

LEMMA LeastNat ==
  ASSUME NEW T \in SUBSET Nat, T # {}
  PROVE  \E x \in T : \A y \in T : x <= y
<1>1. PICK R : R = {ss \in Nat \X Nat : ss[1] < ss[2]}
  OBVIOUS
<1>2. IsWellFoundedOn(R, Nat)
  BY <1>1, NatLessThanWellFounded, Zenon DEF OpToRel
<1>3. PICK x \in T : \A y \in T : <<y, x>> \notin R
  BY <1>2, WFMin
<1>4. ASSUME NEW y \in T PROVE x <= y
  <2>1. <<y, x>> \notin R /\ <<y, x>> \in Nat \X Nat /\ <<y, x>>[1] = y /\ <<y, x>>[2] = x
    BY <1>3
  <2>2. ~(y < x)
    BY <1>1, <2>1
  <2>3. x \in Nat /\ y \in Nat
    OBVIOUS
  <2> QED
    BY <2>2, <2>3
<1> QED
  BY <1>4

LEMMA Multiply == \A d \in Nat, x \in Int, y \in Int : x <= y => d * x <= d * y
<1> TAKE d \in Nat, x \in Int, y \in Int
<1> HAVE x <= y
<1> DEFINE z == y - x
<1>1. z \in Nat /\ y = x + z
  OBVIOUS
<1> HIDE DEF z
<1>2. d * y = d * x + d * z /\ d * z \in Nat /\ d * x \in Int
  BY <1>1
<1> QED
  BY <1>2

LEMMA Powers ==
  /\ 2^0 = 1
  /\ \A k \in Nat : 2^k \in Nat \ {0} /\ 2^(k + 1) = 2 * 2^k
<1>1. \A k \in Nat : /\ IsFiniteSet(1..k) /\ Cardinality(1..k) = k
                     /\ IsFiniteSet(SUBSET (1..k)) /\ Cardinality(SUBSET (1..k)) = 2^k /\ 2^k \in Nat
  <2> TAKE k \in Nat
  <2>1. IsFiniteSet(1..k) /\ Cardinality(1..k) = k
    BY FS_Interval
  <2>2. IsFiniteSet(SUBSET (1..k)) /\ Cardinality(SUBSET (1..k)) = 2^Cardinality(1..k)
    BY <2>1, FS_SUBSET
  <2>3. Cardinality(SUBSET (1..k)) \in Nat
    BY <2>2, FS_CardinalityType
  <2> QED
    BY <2>1, <2>2, <2>3
<1>2. 2^0 = 1
  <2>1. SUBSET {} = {{}} /\ IsFiniteSet({}) /\ Cardinality({}) = 0
    BY FS_EmptySet
  <2>2. Cardinality(SUBSET {}) = 2^Cardinality({})
    BY <2>1, FS_SUBSET
  <2>3. Cardinality({{}}) = 1
    BY FS_Singleton
  <2> QED
    BY <2>1, <2>2, <2>3
<1>3. ASSUME NEW k \in Nat PROVE 2^(k + 1) = 2 * 2^k
  <2>1. PICK S, n : S = 1..k /\ n = k + 1
    OBVIOUS
  <2>2. n \in Nat /\ n \notin S /\ 1..n = S \cup {n}
    BY <2>1
  <2>3. PICK A, B : A = SUBSET S /\ B = {s \cup {n} : s \in A}
    OBVIOUS
  <2>4. SUBSET (1..n) = A \cup B
    <3>1. ASSUME NEW t \in SUBSET (1..n) PROVE t \in A \cup B
      <4>1. CASE n \in t
        <5>1. t \ {n} \in A /\ t = (t \ {n}) \cup {n}
          BY <2>2, <2>3, <4>1
        <5> QED
          BY <2>3, <5>1
      <4>2. CASE n \notin t
        BY <2>2, <2>3, <4>2
      <4> QED
        BY <4>1, <4>2
    <3>2. \A t \in A \cup B : t \in SUBSET (1..n)
      BY <2>2, <2>3
    <3> QED
      BY <3>1, <3>2
  <2>5. A \cap B = {}
    BY <2>2, <2>3
  <2>6. IsFiniteSet(A) /\ Cardinality(A) = 2^k /\ 2^k \in Nat
    BY <1>1, <2>1, <2>3
  <2>7. PICK F : F = [s \in A |-> s \cup {n}]
    OBVIOUS
  <2>8. F \in Bijection(A, B)
    <3>1. F \in [A -> B] /\ \A t \in B : \E s \in A : F[s] = t
      BY <2>3, <2>7
    <3>2. ASSUME NEW s \in A, NEW t \in A, F[s] = F[t] PROVE s = t
      <4>1. s \cup {n} = t \cup {n} /\ n \notin s /\ n \notin t
        BY <2>2, <2>3, <2>7, <3>2
      <4> QED
        BY <4>1
    <3>3. \A s, t \in A : F[s] = F[t] => s = t
      BY <3>2
    <3> QED
      BY <3>1, <3>3 DEF Bijection, Injection, Surjection, IsInjective
  <2>9. IsFiniteSet(B) /\ Cardinality(B) = 2^k
    <3>1. ExistsBijection(A, B)
      BY <2>8 DEF ExistsBijection
    <3> QED
      BY <2>6, <3>1, FS_Bijection
  <2>10. Cardinality(A \cup B) = Cardinality(A) + Cardinality(B) - Cardinality(A \cap B)
    BY <2>6, <2>9, FS_Union
  <2>11. Cardinality(A \cap B) = 0
    BY <2>5, FS_EmptySet
  <2>12. Cardinality(SUBSET (1..n)) = 2^n
    BY <1>1, <2>2
  <2>13. 2^n = 2^k + 2^k - 0
    BY <2>4, <2>6, <2>9, <2>10, <2>11, <2>12
  <2> QED
    BY <2>1, <2>6, <2>13
<1>4. ASSUME NEW k \in Nat PROVE 2^k # 0
  <2>1. {} \in SUBSET (1..k) /\ IsFiniteSet(SUBSET (1..k))
    BY <1>1
  <2>2. Cardinality(SUBSET (1..k)) # 0
    BY <2>1, FS_EmptySet
  <2> QED
    BY <1>1, <2>2
<1> QED
  BY <1>1, <1>2, <1>3, <1>4

LEMMA PowersGrow == \A k \in Nat : k < 2^k /\ \A j \in Nat : j <= k => 2^j <= 2^k
<1> SUFFICES ASSUME NEW n \in Nat, ~(n < 2^n /\ \A j \in Nat : j <= n => 2^j <= 2^n) PROVE FALSE
  OBVIOUS
<1>1. PICK T : T = {k \in Nat : ~(k < 2^k /\ \A j \in Nat : j <= k => 2^j <= 2^k)}
  OBVIOUS
<1>2. T \in SUBSET Nat /\ T # {}
  BY <1>1
<1>3. PICK k \in T : \A y \in T : k <= y
  BY <1>2, LeastNat
<1>4. k # 0
  <2>1. \A j \in Nat : j <= 0 => j = 0
    OBVIOUS
  <2> QED
    BY <1>1, <2>1, Powers
<1>5. PICK m \in Nat : k = m + 1
  <2>1. k \in Nat /\ k - 1 \in Nat /\ k = (k - 1) + 1
    BY <1>1, <1>4
  <2> QED
    BY <2>1
<1>6. m < 2^m /\ \A j \in Nat : j <= m => 2^j <= 2^m
  <2>1. m \notin T
    BY <1>3, <1>5
  <2> QED
    BY <1>1, <2>1
<1>7. 2^k = 2 * 2^m /\ 2^m \in Nat /\ 2^k \in Nat
  BY <1>5, Powers
<1>8. k < 2^k
  BY <1>5, <1>6, <1>7
<1>9. ASSUME NEW j \in Nat, j <= k PROVE 2^j <= 2^k
  <2>1. 2^j \in Nat /\ (j = k \/ j <= m)
    BY <1>5, <1>9, Powers
  <2>2. CASE j = k
    BY <1>7, <2>2
  <2>3. CASE j <= m
    BY <1>6, <1>7, <2>1, <2>3
  <2> QED
    BY <2>1, <2>2, <2>3
<1> QED
  BY <1>1, <1>8, <1>9

\* A power is a multiple of a smaller one.
LEMMA PowersDivide ==
  ASSUME NEW j \in Nat
  PROVE  \A d \in Nat : 2^(d + j) = 2^d * 2^j
<1> SUFFICES ASSUME NEW n \in Nat, 2^(n + j) # 2^n * 2^j PROVE FALSE
  OBVIOUS
<1>1. PICK T : T = {d \in Nat : 2^(d + j) # 2^d * 2^j}
  OBVIOUS
<1>2. T \in SUBSET Nat /\ T # {}
  BY <1>1
<1>3. PICK d \in T : \A y \in T : d <= y
  BY <1>2, LeastNat
<1>4. d # 0
  <2>1. PICK p \in Nat : p = 2^j
    BY Powers
  <2>2. 2^0 = 1 /\ 0 + j = j /\ 1 * p = p
    BY Powers
  <2>3. 2^(0 + j) = 2^0 * 2^j
    BY <2>1, <2>2
  <2> QED
    BY <1>1, <2>3
<1>5. PICK m \in Nat : d = m + 1
  <2>1. d \in Nat /\ d - 1 \in Nat /\ d = (d - 1) + 1
    BY <1>1, <1>4
  <2> QED
    BY <2>1
<1>6. m \notin T
  BY <1>3, <1>5
<1>7. PICK p \in Nat, q \in Nat : p = 2^m /\ q = 2^j
  BY Powers
<1>8. PICK i \in Nat : i = m + j
  OBVIOUS
<1>9. 2^i = p * q
  BY <1>1, <1>6, <1>7, <1>8
<1>10. 2^(i + 1) = 2 * (p * q) /\ 2^d = 2 * p
  BY <1>5, <1>7, <1>9, Powers
<1>11. d + j = i + 1
  BY <1>5, <1>8
<1>12. 2 * (p * q) = (2 * p) * q
  BY <1>7
<1> QED
  BY <1>1, <1>7, <1>10, <1>11, <1>12

\* Quotients by d of numbers d apart differ; those of numbers below d * m are below m.
LEMMA Divide ==
  ASSUME NEW d \in Nat \ {0}, NEW x \in Nat
  PROVE  /\ x \div d \in Nat /\ d * (x \div d) <= x /\ x < d * (x \div d) + d
         /\ \A y \in Nat : x + d <= y => x \div d < y \div d
         /\ \A m \in Nat : x < d * m => x \div d < m
<1>1. \A y \in Nat : y \div d \in Nat /\ d * (y \div d) <= y /\ y < d * (y \div d) + d
  <2> TAKE y \in Nat
  <2>1. y = d * (y \div d) + (y % d) /\ y % d \in 0..(d - 1) /\ y \div d \in Nat
    OBVIOUS
  <2> QED
    BY <2>1
<1>2. \A y \in Nat : x + d <= y => x \div d < y \div d
  <2> TAKE y \in Nat
  <2> DEFINE X == x \div d
             Y == y \div d
  <2>1. X \in Nat /\ Y \in Nat /\ d * X <= x /\ x < d * X + d /\ y < d * Y + d
    BY <1>1
  <2> HIDE DEF X, Y
  <2>2. Y <= X => d * Y <= d * X
    BY <2>1, Multiply
  <2>3. d * Y \in Nat /\ d * X \in Nat
    BY <2>1
  <2>4. x + d <= y => X < Y
    BY <2>1, <2>2, <2>3
  <2> QED
    BY <2>4 DEF X, Y
<1>3. \A m \in Nat : x < d * m => x \div d < m
  <2> TAKE m \in Nat
  <2> DEFINE X == x \div d
  <2>1. X \in Nat /\ d * X <= x
    BY <1>1
  <2> HIDE DEF X
  <2>2. m <= X => d * m <= d * X
    BY <2>1, Multiply
  <2>3. d * m \in Nat /\ d * X \in Nat
    BY <2>1
  <2>4. x < d * m => X < m
    BY <2>1, <2>2, <2>3
  <2> QED
    BY <2>4 DEF X
<1> QED
  BY <1>1, <1>2, <1>3

\* Quotients and rests
LEMMA Modulo ==
  ASSUME NEW x \in Nat, NEW d \in Nat \ {0}
  PROVE  /\ x \div d \in Nat /\ x % d \in 0..(d - 1)
         /\ x = d * (x \div d) + (x % d)
  OBVIOUS

\* The whole entries of a size
LEMMA WholeEntries ==
  ASSUME NEW z \in Nat, NEW c \in Nat \ {0}, NEW k, k = z \div c
  PROVE  k \in Nat /\ k * c <= z /\ (k < 1 => z < c)
<1>1. k \in Nat /\ c * k <= z /\ z < c * k + c
  BY Modulo
<1>2. k * c = c * k
  BY <1>1
<1>3. ASSUME k < 1 PROVE z < c
  <2>1. k = 0
    BY <1>1, <1>3
  <2> QED
    BY <1>1, <2>1
<1> QED
  BY <1>1, <1>2, <1>3

\* A number of wholes and a rest determine both.
LEMMA OneQuotient ==
  ASSUME NEW c \in Nat \ {0}, NEW v \in Nat, NEW e \in Nat, c * e <= v, v < c * e + c
  PROVE  v \div c = e /\ v % c = v - c * e
<1>1. PICK q \in Nat : q = v \div c /\ c * q <= v /\ v < c * q + c
  BY Divide
<1>2. q = e
  <2>1. ASSUME NEW a \in Nat, NEW b \in Nat, a < b PROVE c * a + c <= c * b
    <3>1. c * (a + 1) <= c * b /\ c * (a + 1) = c * a + c
      BY <2>1, Multiply
    <3> QED
      BY <3>1
  <2>2. PICK x \in Nat, y \in Nat : x = c * q /\ y = c * e
    OBVIOUS
  <2>3. ~(q < e)
    <3>1. SUFFICES ASSUME q < e PROVE FALSE
      OBVIOUS
    <3>2. x + c <= y
      BY <2>1, <2>2, <3>1
    <3> QED
      BY <1>1, <2>2, <3>2
  <2>4. ~(e < q)
    <3>1. SUFFICES ASSUME e < q PROVE FALSE
      OBVIOUS
    <3>2. y + c <= x
      BY <2>1, <2>2, <3>1
    <3> QED
      BY <1>1, <2>2, <3>2
  <2> QED
    BY <2>3, <2>4
<1>3. v % c \in 0..(c - 1) /\ v = c * q + (v % c)
  BY <1>1, Modulo
<1>4. PICK r \in Nat, x \in Nat : r = v % c /\ x = c * q /\ v = x + r
  BY <1>3
<1>5. v - c * e = r
  BY <1>2, <1>4
<1> QED
  BY <1>1, <1>2, <1>4, <1>5

\* One more digit of an address.
LEMMA Digit ==
  ASSUME NEW x \in Nat, NEW v \in Nat, NEW m \in Nat \ {0}, NEW c \in Nat \ {0}, x * (m * c) <= v,
         NEW d, d = (v \div c) % m
  PROVE  d \in Nat /\ d < m /\ (x * m + d) * c <= v
<1>1. PICK w \in Nat : w = v \div c /\ c * w <= v /\ v < c * w + c
  BY Divide
<1>2. PICK e \in Nat : e = w \div m /\ d \in 0..(m - 1) /\ w = m * e + d
  BY <1>1, Modulo
<1>3. PICK y \in Nat : y = x * m /\ x * (m * c) = c * y /\ y = m * x
  OBVIOUS
<1>4. y <= w
  <2>1. SUFFICES ASSUME w + 1 <= y PROVE FALSE
    OBVIOUS
  <2>2. c * (w + 1) <= c * y /\ c * (w + 1) = c * w + c
    BY <2>1, Multiply
  <2>3. PICK a \in Nat, b \in Nat : a = c * y /\ b = c * w
    OBVIOUS
  <2> QED
    BY <1>1, <1>3, <2>2, <2>3
<1>5. x <= e
  <2>1. SUFFICES ASSUME e + 1 <= x PROVE FALSE
    OBVIOUS
  <2>2. m * (e + 1) <= m * x /\ m * (e + 1) = m * e + m
    BY <2>1, Multiply
  <2>3. PICK a \in Nat, b \in Nat : a = m * e /\ b = m * x
    OBVIOUS
  <2> QED
    BY <1>2, <1>3, <1>4, <2>2, <2>3
<1>6. y + d <= w
  <2>1. m * x <= m * e
    BY <1>5, Multiply
  <2>2. PICK a \in Nat, b \in Nat : a = m * e /\ b = m * x
    OBVIOUS
  <2> QED
    BY <1>2, <1>3, <2>1, <2>2
<1>7. PICK u \in Nat : u = y + d /\ u <= w /\ d \in Nat /\ d < m
  BY <1>2, <1>3, <1>6
<1>8. c * u <= c * w /\ c * u = u * c
  BY <1>7, Multiply
<1>9. PICK a \in Nat, b \in Nat : a = c * w /\ b = c * u
  BY <1>7
<1>10. u * c <= v
  BY <1>1, <1>8, <1>9
<1> QED
  BY <1>3, <1>7, <1>10

\* A multiple of a, the least that is not below n.
LEMMA AlignUpIs ==
  ASSUME NEW a \in Nat \ {0}, NEW n \in Nat
  PROVE  /\ AlignUp(n, a) \in Nat /\ n <= AlignUp(n, a) /\ AlignUp(n, a) <= n + (a - 1)
         /\ \E k \in Nat : AlignUp(n, a) = a * k
         /\ \A j \in Nat : n <= a * j => AlignUp(n, a) <= a * j
<1> DEFINE x == n + a - 1
           k == x \div a
<1>1. x \in Nat /\ x = n + (a - 1)
  OBVIOUS
<1> HIDE DEF x
<1>2. k \in Nat /\ a * k <= x /\ x < a * k + a
  BY <1>1, Divide
<1>3. AlignUp(n, a) = k * a
  BY DEF AlignUp, x
<1> HIDE DEF k
<1>4. PICK r \in Nat : r = a * k
  BY <1>2
<1>5. AlignUp(n, a) = r /\ n <= r /\ r <= n + (a - 1)
  BY <1>1, <1>2, <1>3, <1>4
<1>6. ASSUME NEW j \in Nat, n <= a * j PROVE r <= a * j
  <2>1. PICK p \in Nat : p = a * j
    OBVIOUS
  <2>2. CASE k <= j
    BY <1>2, <1>4, <2>2, Multiply
  <2>3. CASE ~(k <= j)
    <3>1. PICK i \in Nat : k = i + 1 /\ j <= i
      <4>1. k - 1 \in Nat /\ k = (k - 1) + 1 /\ j <= k - 1
        BY <1>2, <2>3
      <4> QED
        BY <4>1
    <3>2. PICK q \in Nat : q = a * i
      OBVIOUS
    <3>3. a * (i + 1) = a * i + a /\ p <= q
      BY <2>1, <3>1, <3>2, Multiply
    <3>4. r = q + a
      BY <1>4, <3>1, <3>2, <3>3
    <3> QED
      BY <1>1, <1>2, <1>4, <1>6, <2>1, <3>3, <3>4
  <2> QED
    BY <2>2, <2>3
<1> QED
  BY <1>2, <1>4, <1>5, <1>6

\* int.bit_length
LEMMA BitLengthIs ==
  \A n \in Nat \ {0} : /\ BitLength(n) \in Nat \ {0} /\ n < 2^BitLength(n)
                       /\ 2^(BitLength(n) - 1) <= n
<1> TAKE n \in Nat \ {0}
<1>1. PICK T : T = {j \in Nat : n < 2^j}
  OBVIOUS
<1>2. n \in T
  BY <1>1, PowersGrow
<1>3. PICK k \in T : \A j \in T : k <= j
  BY <1>1, <1>2, LeastNat
<1>4. k \in 0..n /\ n < 2^k
  BY <1>1, <1>2, <1>3
<1>5. k # 0
  <2>1. n < 2^0 => FALSE
    BY Powers
  <2> QED
    BY <1>4, <2>1
<1>6. 2^(k - 1) <= n
  <2>1. PICK j \in Nat : j = k - 1 /\ j < k
    <3>1. k - 1 \in Nat /\ k - 1 < k
      BY <1>4, <1>5
    <3> QED
      BY <3>1
  <2>2. j \notin T
    BY <1>1, <1>3, <2>1
  <2>3. 2^j \in Nat
    BY Powers
  <2> QED
    BY <1>1, <2>1, <2>2, <2>3
<1>7. PICK B : B = {j \in 0..n : n < 2^j /\ (j = 0 \/ 2^(j - 1) <= n)}
  OBVIOUS
<1>8. k \in B
  BY <1>4, <1>6, <1>7
<1>9. BitLength(n) \in B
  <2>1. BitLength(n) = CHOOSE j \in 0..n : n < 2^j /\ (j = 0 \/ 2^(j - 1) <= n)
    BY DEF BitLength
  <2>2. \E j \in 0..n : n < 2^j /\ (j = 0 \/ 2^(j - 1) <= n)
    BY <1>4, <1>6
  <2>3. PICK c : c = CHOOSE j \in 0..n : n < 2^j /\ (j = 0 \/ 2^(j - 1) <= n)
    OBVIOUS
  <2>4. c \in 0..n /\ n < 2^c /\ (c = 0 \/ 2^(c - 1) <= n)
    BY <2>2, <2>3, Zenon
  <2> QED
    BY <1>7, <2>1, <2>3, <2>4
<1>10. PICK b \in 0..n : b = BitLength(n) /\ n < 2^b /\ (b = 0 \/ 2^(b - 1) <= n)
  BY <1>7, <1>9
<1>11. b # 0
  <2>1. n < 2^0 => FALSE
    BY Powers
  <2> QED
    BY <1>10, <2>1
<1> QED
  BY <1>10, <1>11

LEMMA BitLengthsGrow ==
  \A m, n \in Nat \ {0} : m <= n => BitLength(m) <= BitLength(n)
<1> TAKE m, n \in Nat \ {0}
<1>1. PICK j, k \in Nat \ {0} : j = BitLength(m) /\ k = BitLength(n)
  BY BitLengthIs
<1>2. PICK i \in Nat : i = j - 1
  <2>1. j - 1 \in Nat
    OBVIOUS
  <2> QED
    BY <2>1
<1>3. PICK p, q \in Nat : p = 2^i /\ q = 2^k
  BY Powers
<1>4. p <= m /\ n < q
  BY <1>1, <1>2, <1>3, BitLengthIs
<1>5. k <= i => q <= p
  BY <1>3, PowersGrow
<1> QED
  BY <1>1, <1>2, <1>4, <1>5

-----------------------------------------------------------------------------
(* Buckets.                                                                *)

\* How many sizes a bucket of a first level has.
Width(l) == 2^(IF l > L2Cnt THEN l - L2Cnt ELSE 0)

\* The pair of levels of a size is its place: a power of two, and a multiple of the width
\* of its buckets.
LEMMA LevelsAre ==
  ASSUME NEW n \in Nat \ {0}, NEW l, l = Lv1(n), NEW m, m = Lv2(n)
  PROVE  /\ l \in Nat \ {0} /\ m \in 0..(2^L2Cnt - 1) /\ Width(l) \in Nat \ {0}
         /\ 2^(l - 1) \in Nat /\ 2^(l - 1) <= n /\ n < 2^l
         /\ 2^(l - 1) + Width(l) * m <= n /\ n < 2^(l - 1) + Width(l) * m + Width(l)
<1>1. l \in Nat \ {0} /\ l = BitLength(n) /\ n < 2^l /\ 2^(l - 1) <= n
  BY BitLengthIs DEF Lv1
<1>2. PICK i \in Nat : l = i + 1 /\ i = l - 1
  <2>1. l - 1 \in Nat /\ l = (l - 1) + 1
    BY <1>1
  <2> QED
    BY <2>1
<1>3. PICK p \in Nat \ {0} : p = 2^i /\ 2^l = 2 * p
  BY <1>2, Powers
<1>4. PICK e \in Nat : e = (IF l > L2Cnt THEN l - L2Cnt ELSE 0)
  BY <1>1, TLSFAssumption
<1>5. PICK d \in Nat \ {0} : d = 2^e /\ d = Width(l)
  BY <1>4, Powers DEF Width
<1>6. PICK x \in Nat : x = n - p /\ x < p
  <2>1. n - p \in Nat /\ n - p < p
    BY <1>1, <1>2, <1>3
  <2> QED
    BY <2>1
<1>7. m = x \div d
  BY <1>1, <1>2, <1>3, <1>4, <1>5, <1>6 DEF Lv2
<1>8. m \in Nat /\ d * m <= x /\ x < d * m + d
  BY <1>7, Divide
<1>9. PICK c \in Nat : L2Cnt = c + 1
  <2>1. L2Cnt - 1 \in Nat /\ L2Cnt = (L2Cnt - 1) + 1
    BY TLSFAssumption
  <2> QED
    BY <2>1
<1>10. PICK w \in Nat \ {0} : w = 2^c /\ 2^L2Cnt = 2 * w
  BY <1>9, Powers
<1>11. p <= d * w
  <2>1. CASE l > L2Cnt
    <3>1. e = i - c /\ i = e + c
      BY <1>1, <1>2, <1>4, <1>9, <2>1
    <3>2. 2^(e + c) = 2^e * 2^c
      BY PowersDivide
    <3> QED
      BY <1>3, <1>5, <1>10, <3>1, <3>2
  <2>2. CASE ~(l > L2Cnt)
    <3>1. e = 0 /\ i <= c
      BY <1>1, <1>2, <1>4, <1>9, <2>2
    <3>2. p <= w
      BY <1>3, <1>10, <3>1, PowersGrow
    <3>3. d = 1 /\ 1 * w = w
      BY <1>5, <1>10, <3>1, Powers
    <3> QED
      BY <3>2, <3>3
  <2> QED
    BY <2>1, <2>2
<1>12. m < w
  <2>1. PICK y \in Nat : y = d * w
    OBVIOUS
  <2>2. x < y
    BY <1>6, <1>11, <2>1
  <2> QED
    BY <1>7, <2>1, <2>2, Divide
<1>13. m \in 0..(2^L2Cnt - 1)
  BY <1>8, <1>10, <1>12
<1>14. PICK z \in Nat : z = d * m
  BY <1>8
<1>15. p + z <= n /\ n < p + z + d
  BY <1>6, <1>8, <1>14
<1> QED
  BY <1>1, <1>2, <1>3, <1>5, <1>13, <1>14, <1>15

\* A size for which alloc searches a place: all of a bucket fits, and it is less than twice
\* the request.
LEMMA SearchIs ==
  ASSUME NEW n \in Nat, n >= BlockSize, NEW r, r = SearchSize(n, 1)
  PROVE  /\ r \in Nat \ {0} /\ n <= r /\ r < 2 * n /\ Request(n) = n
         /\ r = 2^(Lv1(r) - 1) + Width(Lv1(r)) * Lv2(r)
<1>0. BlockSize \in Nat \ {0} /\ L2Cnt \in Nat \ {0} /\ BitLength(BlockSize) >= L2Cnt /\ n \in Nat \ {0}
  BY TLSFAssumption
<1>1. Request(n) = n /\ Request(Request(n) + 1 - 1) = n
  BY <1>0 DEF Request
<1>2. PICK k \in Nat \ {0} : k = BitLength(n) /\ n < 2^k /\ 2^(k - 1) <= n
  BY <1>0, BitLengthIs
<1>3. L2Cnt <= k
  <2>1. PICK j \in Nat : j = BitLength(BlockSize)
    BY <1>0, BitLengthIs
  <2>2. BitLength(BlockSize) <= BitLength(n)
    BY <1>0, BitLengthsGrow
  <2> QED
    BY <1>0, <1>2, <2>1, <2>2
<1>4. PICK e, i, c \in Nat : e = k - L2Cnt /\ i = k - 1 /\ k = i + 1 /\ i = e + c /\ L2Cnt = c + 1
  <2>1. /\ k - L2Cnt \in Nat /\ k - 1 \in Nat /\ k = (k - 1) + 1 /\ L2Cnt - 1 \in Nat
        /\ k - 1 = (k - L2Cnt) + (L2Cnt - 1) /\ L2Cnt = (L2Cnt - 1) + 1
    BY <1>0, <1>2, <1>3
  <2> QED
    BY <2>1
<1>5. PICK a, w, p \in Nat \ {0} : a = 2^e /\ w = 2^c /\ p = 2^i
  BY Powers
<1>6. p = a * w /\ 2^k = 2 * p /\ a <= p
  <2>1. 2^(e + c) = 2^e * 2^c
    BY PowersDivide
  <2>2. 2^(i + 1) = 2 * 2^i
    BY Powers
  <2>3. e <= i
    BY <1>4
  <2> QED
    BY <1>4, <1>5, <2>1, <2>2, <2>3, PowersGrow
<1>7. r = AlignUp(n, a)
  BY <1>1, <1>2, <1>4, <1>5 DEF SearchSize
<1>8. PICK q \in Nat : r = a * q /\ r \in Nat /\ n <= r /\ r <= n + (a - 1)
  <2>1. n \in Nat /\ a \in Nat \ {0}
    BY <1>5
  <2> QED
    <3>1. /\ AlignUp(n, a) \in Nat /\ n <= AlignUp(n, a) /\ AlignUp(n, a) <= n + (a - 1)
          /\ \E q \in Nat : AlignUp(n, a) = a * q
      BY <2>1, AlignUpIs
    <3> QED
      BY <1>7, <3>1
<1>9. p <= n /\ n < 2 * p
  BY <1>2, <1>4, <1>5, <1>6
<1>10. r \in Nat \ {0} /\ r < 2 * n
  BY <1>0, <1>6, <1>8, <1>9
<1>11. r <= 2 * p
  <2>1. a * (2 * w) = 2 * (a * w)
    BY <1>5
  <2>2. n <= a * (2 * w) /\ 2 * w \in Nat
    BY <1>5, <1>6, <1>9, <2>1
  <2>3. AlignUp(n, a) <= a * (2 * w)
    BY <2>2, AlignUpIs
  <2> QED
    BY <1>6, <1>7, <2>1, <2>3
<1>12. PICK l, m : l = Lv1(r) /\ m = Lv2(r)
  OBVIOUS
<1>13. /\ l \in Nat \ {0} /\ m \in Nat /\ Width(l) \in Nat \ {0}
       /\ 2^(l - 1) \in Nat /\ 2^(l - 1) <= r /\ r < 2^l
       /\ 2^(l - 1) + Width(l) * m <= r /\ r < 2^(l - 1) + Width(l) * m + Width(l)
  <2>1. /\ l \in Nat \ {0} /\ m \in 0..(2^L2Cnt - 1) /\ Width(l) \in Nat \ {0}
        /\ 2^(l - 1) \in Nat /\ 2^(l - 1) <= r /\ r < 2^l
        /\ 2^(l - 1) + Width(l) * m <= r /\ r < 2^(l - 1) + Width(l) * m + Width(l)
    BY <1>10, <1>12, LevelsAre
  <2>2. 2^L2Cnt \in Nat
    BY <1>0, Powers
  <2> QED
    BY <2>1, <2>2
<1>t. l \in Nat \ {0} /\ m \in Nat /\ Width(l) \in Nat \ {0}
  BY <1>13
<1>14. k <= l
  BY <1>0, <1>2, <1>8, <1>10, <1>12, BitLengthsGrow DEF Lv1
<1>15. r = 2^(l - 1) + Width(l) * m
  <2>1. CASE l = k
    <3>0. (IF l > L2Cnt THEN l - L2Cnt ELSE 0) = e /\ l - 1 = i
      BY <1>0, <1>2, <1>3, <1>4, <2>1
    <3>1. l - 1 = i /\ Width(l) = a
      BY <1>5, <3>0 DEF Width
    <3>2. PICK z, y \in Nat : z = a * m /\ y = a * q
      BY <1>13
    <3>3. p + z <= r /\ r < p + z + a /\ r = y
      BY <1>5, <1>8, <1>13, <3>1, <3>2
    <3>4. a * w + a * m = a * (w + m) /\ w + m \in Nat
      BY <1>13
    <3>5. PICK u \in Nat : u = w + m
      BY <3>4
    <3>6. PICK v \in Nat : v = a * u /\ v = p + z
      BY <1>6, <3>2, <3>4, <3>5
    <3>7. v <= y /\ y < v + a
      BY <3>3, <3>6
    <3>8. q = u
      <4>1. CASE q <= u
        <5>1. a * q <= a * u
          BY <4>1, Multiply
        <5>2. CASE q < u
          <6>1. q + 1 <= u /\ a * (q + 1) <= a * u /\ a * (q + 1) = a * q + a
            BY <5>2, Multiply
          <6>2. y + a <= v
            BY <3>2, <3>6, <6>1
          <6> QED
            BY <3>7, <6>2
        <5> QED
          BY <4>1, <5>2
      <4>2. CASE u < q
        <5>1. u + 1 <= q /\ a * (u + 1) <= a * q /\ a * (u + 1) = a * u + a
          BY <4>2, Multiply
        <5>2. v + a <= y
          BY <3>2, <3>6, <5>1
        <5> QED
          BY <3>7, <5>2
      <4> QED
        BY <4>1, <4>2
    <3>9. r = p + z
      BY <1>8, <3>6, <3>8
    <3> QED
      BY <1>5, <3>1, <3>2, <3>9
  <2>2. CASE l # k
    <3>1. PICK j \in Nat : j = l - 1 /\ k <= j
      <4>1. l - 1 \in Nat /\ k <= l - 1
        BY <1>2, <1>t, <1>14, <2>2
      <4> QED
        BY <4>1
    <3>2. 2^k <= 2^j
      BY <3>1, PowersGrow
    <3>3. PICK x, y, z \in Nat : x = 2^j /\ y = 2^k /\ z = Width(l) * m
      <4>1. 2^j \in Nat /\ 2^k \in Nat
        BY <1>2, Powers
      <4>2. Width(l) * m \in Nat
        BY <1>t
      <4> QED
        BY <4>1, <4>2
    <3>4. y <= x /\ x <= r /\ r <= y /\ x + z <= r
      BY <1>6, <1>11, <1>13, <3>1, <3>2, <3>3
    <3>5. r = x + z
      BY <1>8, <3>3, <3>4
    <3> QED
      BY <3>1, <3>3, <3>5
  <2> QED
    BY <2>1, <2>2
<1> QED
  BY <1>1, <1>8, <1>10, <1>12, <1>15

\* The order of the loops of alloc
AtLeast(b, c) == b[1] > c[1] \/ (b[1] = c[1] /\ b[2] >= c[2])

\* Every block of a bucket from there on fits, and a block that is as large is in one.
LEMMA BucketsFit ==
  ASSUME NEW n \in Nat, n >= BlockSize, NEW r, r = SearchSize(n, 1), NEW s \in Nat \ {0}
  PROVE  AtLeast(Bucket(s), Bucket(r)) <=> s >= r
<1>1. r \in Nat \ {0} /\ r = 2^(Lv1(r) - 1) + Width(Lv1(r)) * Lv2(r)
  BY SearchIs
<1>2. PICK l, m, j, i : l = Lv1(r) /\ m = Lv2(r) /\ j = Lv1(s) /\ i = Lv2(s)
  OBVIOUS
<1>w. 2^L2Cnt \in Nat
  BY TLSFAssumption, Powers
<1>3. /\ l \in Nat \ {0} /\ m \in Nat /\ Width(l) \in Nat \ {0}
      /\ 2^(l - 1) \in Nat /\ 2^(l - 1) <= r /\ r < 2^l
  BY <1>1, <1>2, <1>w, LevelsAre
<1>4. /\ j \in Nat \ {0} /\ i \in Nat /\ Width(j) \in Nat \ {0}
      /\ 2^(j - 1) \in Nat /\ 2^(j - 1) <= s /\ s < 2^j
      /\ 2^(j - 1) + Width(j) * i <= s /\ s < 2^(j - 1) + Width(j) * i + Width(j)
  BY <1>2, <1>w, LevelsAre
<1>5. AtLeast(Bucket(s), Bucket(r)) <=> j > l \/ (j = l /\ i >= m)
  BY <1>2 DEF AtLeast, Bucket
<1>6. CASE j > l
  <2>1. PICK k \in Nat : k = j - 1 /\ l <= k
    <3>1. j - 1 \in Nat /\ l <= j - 1
      BY <1>3, <1>4, <1>6
    <3> QED
      BY <3>1
  <2>2. 2^l <= 2^k /\ 2^l \in Nat
    BY <1>3, <2>1, PowersGrow, Powers
  <2>3. s >= r
    BY <1>1, <1>3, <1>4, <2>1, <2>2
  <2> QED
    BY <1>5, <1>6, <2>3
<1>7. CASE j = l
  <2>1. PICK d \in Nat \ {0}, p \in Nat : d = Width(l) /\ p = 2^(l - 1)
    BY <1>3
  <2>2. PICK x, y \in Nat : x = d * m /\ y = d * i
    BY <1>3, <1>4
  <2>3. r = p + x /\ p + y <= s /\ s < p + y + d
    BY <1>1, <1>2, <1>4, <1>7, <2>1, <2>2
  <2>4. CASE i >= m
    <3>1. x <= y
      BY <1>3, <1>4, <2>2, <2>4, Multiply
    <3>2. s >= r
      BY <2>3, <3>1
    <3> QED
      BY <1>5, <1>7, <2>4, <3>2
  <2>5. CASE ~(i >= m)
    <3>1. i + 1 <= m /\ d * (i + 1) <= d * m /\ d * (i + 1) = d * i + d
      BY <1>3, <1>4, <2>5, Multiply
    <3>2. ~(s >= r)
      BY <2>2, <2>3, <3>1
    <3> QED
      BY <1>3, <1>4, <1>5, <1>7, <2>5, <3>2
  <2> QED
    BY <2>4, <2>5
<1>8. CASE j < l
  <2>1. PICK k \in Nat : k = l - 1 /\ j <= k
    <3>1. l - 1 \in Nat /\ j <= l - 1
      BY <1>3, <1>4, <1>8
    <3> QED
      BY <3>1
  <2>2. 2^j <= 2^k /\ 2^j \in Nat
    BY <1>4, <2>1, PowersGrow, Powers
  <2>3. ~(s >= r)
    BY <1>1, <1>3, <1>4, <2>1, <2>2
  <2> QED
    BY <1>3, <1>4, <1>5, <1>8, <2>3
<1> QED
  BY <1>3, <1>4, <1>6, <1>7, <1>8

-----------------------------------------------------------------------------
(* What a call of the allocator does to what is handed out.                *)

\* The oldest block of a bin is a free block of its sizes.
LEMMA HeadOfBin ==
  ASSUME NEW h, HeapInv(h), NEW b \in DOMAIN h.bins, h.bins[b] # <<>>
  PROVE  /\ Head(h.bins[b]) \in DOMAIN h.blocks /\ h.blocks[Head(h.bins[b])].free
         /\ Bucket(h.blocks[Head(h.bins[b])].size) = b
<1>1. h.bins[b] \in Seq(Nat) /\ Listed(h.bins[b]) = FreeOf(h, b)
  BY DEF HeapInv, BinsOK, BinOK
<1>2. Head(h.bins[b]) = h.bins[b][1] /\ 1 \in DOMAIN h.bins[b]
  BY <1>1, HeadTailProperties, EmptySeq, LenProperties
<1> QED
  BY <1>1, <1>2 DEF Listed, FreeOf

\* The size alloc searches for has room for the alignment.
LEMMA AlignedSearchIs ==
  ASSUME NEW n \in Nat \ {0}, NEW a \in Nat \ {0}
  PROVE  \E m \in Nat : /\ m >= BlockSize /\ m >= Request(n) + (a - 1)
                        /\ SearchSize(n, a) = SearchSize(m, 1)
                        /\ Request(n) \in Nat \ {0} /\ n <= Request(n)
<1>0. BlockSize \in Nat \ {0}
  BY TLSFAssumption
<1>1. PICK r \in Nat \ {0} : r = Request(n) /\ n <= r /\ BlockSize <= r
  BY <1>0 DEF Request
<1>2. PICK m \in Nat \ {0} : m = r + a - 1 /\ m >= BlockSize /\ m >= r + (a - 1)
  BY <1>0, <1>1
<1>3. Request(r + a - 1) = m /\ Request(Request(m) + 1 - 1) = m
  BY <1>0, <1>2 DEF Request
<1>4. SearchSize(n, a) = SearchSize(m, 1)
  BY <1>1, <1>3 DEF SearchSize
<1> QED
  BY <1>1, <1>2, <1>4

\* The block alloc chooses has room for the request, wherever in it the alignment puts it.
LEMMA ChosenFits ==
  ASSUME NEW h, HeapInv(h), NEW n \in Nat \ {0}, NEW a \in Nat \ {0}, NEW at \in Chosen(h, n, a)
  PROVE  /\ at \in DOMAIN h.blocks /\ h.blocks[at].free
         /\ Request(n) \in Nat \ {0} /\ n <= Request(n)
         /\ AlignUp(at, a) \in Nat /\ at <= AlignUp(at, a)
         /\ AlignUp(at, a) + Request(n) <= EndOf(h, at) /\ EndOf(h, at) <= h.total
         /\ \E k \in Nat : AlignUp(at, a) = a * k
         /\ BlockFits(h, at, n, a)
<1>1. PICK m \in Nat : /\ m >= BlockSize /\ m >= Request(n) + (a - 1)
                       /\ SearchSize(n, a) = SearchSize(m, 1)
                       /\ Request(n) \in Nat \ {0} /\ n <= Request(n)
  BY AlignedSearchIs
<1>2. PICK r : r = SearchSize(m, 1)
  OBVIOUS
<1>3. r \in Nat \ {0} /\ m <= r
  BY <1>1, <1>2, SearchIs
<1>4. PICK b \in DOMAIN h.bins :
        /\ b[1] >= Lv1(r) /\ (b[1] = Lv1(r) => b[2] >= Lv2(r))
        /\ h.bins[b] # <<>> /\ at = Head(h.bins[b])
  BY <1>1, <1>2 DEF Chosen, Candidates
<1>5. at \in DOMAIN h.blocks /\ h.blocks[at].free /\ Bucket(h.blocks[at].size) = b
  BY <1>4, HeadOfBin
<1>6. PICK s \in Nat \ {0} : s = h.blocks[at].size /\ at \in Nat /\ EndOf(h, at) = at + s /\ EndOf(h, at) <= h.total
  BY <1>5, BlockFacts DEF BlockType
<1>7. Lv1(s) \in Nat /\ Lv1(r) \in Nat /\ b[1] = Lv1(s)
  BY <1>3, <1>5, <1>6, LevelsAre DEF Bucket
<1>8. AtLeast(Bucket(s), Bucket(r))
  BY <1>4, <1>5, <1>6, <1>7 DEF AtLeast, Bucket
<1>9. s >= r
  BY <1>1, <1>2, <1>6, <1>8, BucketsFit
<1>10. /\ AlignUp(at, a) \in Nat /\ at <= AlignUp(at, a) /\ AlignUp(at, a) <= at + (a - 1)
       /\ \E k \in Nat : AlignUp(at, a) = a * k
  BY <1>6, AlignUpIs
<1>11. AlignUp(at, a) + Request(n) <= at + s
  BY <1>1, <1>3, <1>6, <1>9, <1>10
<1>12. BlockFits(h, at, n, a)
  BY <1>1, <1>2, <1>6, <1>9 DEF BlockFits
<1> QED
  BY <1>1, <1>5, <1>6, <1>10, <1>11, <1>12

LEMMA TakenIs ==
  ASSUME NEW h
  PROVE  Taken(h) = {<<s, h.blocks[s].size>> : s \in {t \in DOMAIN h.blocks : IsTaken(h, t)}}
  BY DEF Taken, IsTaken

\* alloc hands out one more interval.
LEMMA AllocTaken ==
  ASSUME NEW h, HeapInv(h), ~Busy(h), NEW n \in Nat \ {0}, NEW a \in Nat \ {0},
         NEW at \in Chosen(h, n, a), NEW start, start = AlignUp(at, a),
         NEW g, g = Alloc(h, at, start, Request(n))
  PROVE  /\ HeapInv(g) /\ ~Busy(g) /\ g.total = h.total
         /\ start \in Nat /\ start + Request(n) <= h.total /\ \E k \in Nat : start = a * k
         /\ Request(n) \in Nat \ {0} /\ n <= Request(n)
         /\ ~IsTaken(h, start)
         /\ Taken(g) = Taken(h) \cup {<<start, Request(n)>>}
<1>1. /\ at \in DOMAIN h.blocks /\ h.blocks[at].free
      /\ Request(n) \in Nat \ {0} /\ n <= Request(n)
      /\ start \in Nat /\ at <= start
      /\ start + Request(n) <= EndOf(h, at) /\ EndOf(h, at) <= h.total
      /\ \E k \in Nat : start = a * k
  BY ChosenFits
<1>2. /\ HeapInv(g) /\ ~Busy(g) /\ g.total = h.total
      /\ ~IsTaken(h, start)
      /\ \A s : IsTaken(g, s) <=> IsTaken(h, s) \/ s = start
      /\ g.blocks[start].size = Request(n)
      /\ \A s : IsTaken(h, s) => g.blocks[s].size = h.blocks[s].size
  BY <1>1, AllocKeeps
<1>3. Taken(g) = Taken(h) \cup {<<start, Request(n)>>}
  <2>1. \A s : IsTaken(h, s) => s \in DOMAIN h.blocks
    BY DEF IsTaken
  <2>2. \A s : IsTaken(g, s) => s \in DOMAIN g.blocks
    BY DEF IsTaken
  <2> QED
    BY <1>2, <2>1, <2>2, TakenIs
<1>4. h.total \in Nat /\ EndOf(h, at) \in Nat
  BY <1>1, BlockFacts DEF BlockType
<1>5. start + Request(n) <= h.total
  BY <1>1, <1>4
<1> QED
  BY <1>1, <1>2, <1>3, <1>5

\* free takes one back.
LEMMA FreeTaken ==
  ASSUME NEW h, HeapInv(h), ~Busy(h), NEW start, IsTaken(h, start), NEW g, g = FreeBlock(h, start)
  PROVE  /\ HeapInv(g) /\ g.total = h.total
         /\ Taken(g) = Taken(h) \ {<<start, h.blocks[start].size>>}
<1>1. /\ HeapInv(g) /\ g.total = h.total
      /\ DOMAIN g.blocks = DOMAIN h.blocks
      /\ \A s \in DOMAIN h.blocks : g.blocks[s].size = h.blocks[s].size
      /\ \A s : IsTaken(g, s) <=> IsTaken(h, s) /\ s # start
  BY FreeKeeps
<1> QED
  BY <1>1, TakenIs

\* Merging changes nothing of it.
LEMMA MergeTaken ==
  ASSUME NEW h, HeapInv(h), Busy(h), NEW g, g = MergeStep(h)
  PROVE  HeapInv(g) /\ g.total = h.total /\ Taken(g) = Taken(h)
<1>1. /\ HeapInv(g) /\ g.total = h.total
      /\ \A s : IsTaken(g, s) <=> IsTaken(h, s)
      /\ \A s : IsTaken(h, s) => g.blocks[s].size = h.blocks[s].size
  BY MergeKeeps
<1>2. \A s : IsTaken(h, s) => s \in DOMAIN h.blocks /\ s \in DOMAIN g.blocks
  BY <1>1 DEF IsTaken
<1> QED
  BY <1>1, <1>2, TakenIs

\* An interval that is handed out lies in the space and overlaps no other.
LEMMA TakenFacts ==
  ASSUME NEW h, HeapInv(h), NEW s, NEW n, <<s, n>> \in Taken(h)
  PROVE  /\ IsTaken(h, s) /\ h.blocks[s].size = n
         /\ s \in Nat /\ n \in Nat \ {0} /\ s + n <= h.total
<1>1. IsTaken(h, s) /\ h.blocks[s].size = n /\ s \in DOMAIN h.blocks
  BY DEF Taken, IsTaken
<1> QED
  BY <1>1, BlockFacts DEF BlockType

-----------------------------------------------------------------------------
(* Lists: the sums of the first sizes, and lists one after the other.      *)

\* Pieces of memory, an address and a size each
PieceType == Nat \X (Nat \ {0})

\* The sizes of the first pieces
Sums(s, pieces, total) ==
  /\ s \in [0..Len(pieces) -> Nat] /\ s[0] = 0 /\ s[Len(pieces)] = total
  /\ \A k \in 1..Len(pieces) : s[k] = s[k - 1] + pieces[k][2]
  /\ \A k \in 0..Len(pieces) : s[k] <= total

SumsTo(pieces, total) == \E s : Sums(s, pieces, total)

LEMMA NoSums == SumsTo(<<>>, 0)
<1> DEFINE s == [k \in 0..0 |-> 0]
<1>1. Len(<<>>) = 0 /\ s \in [0..0 -> Nat] /\ s[0] = 0
  OBVIOUS
<1> HIDE DEF s
<1>2. Sums(s, <<>>, 0)
  BY <1>1 DEF Sums
<1> QED
  BY <1>2 DEF SumsTo

LEMMA MoreSums ==
  ASSUME NEW pieces \in Seq(PieceType), NEW d \in Nat, SumsTo(pieces, d),
         NEW p \in PieceType, NEW e, e = d + p[2]
  PROVE  SumsTo(Append(pieces, p), e) /\ e \in Nat
<1>1. PICK s : Sums(s, pieces, d)
  BY DEF SumsTo
<1>2. PICK k \in Nat : k = Len(pieces)
  BY LenProperties
<1> DEFINE new == Append(pieces, p)
           t == [i \in 0..(k + 1) |-> IF i = k + 1 THEN e ELSE s[i]]
<1>3. Len(new) = k + 1 /\ new[k + 1] = p /\ \A i \in 1..k : new[i] = pieces[i]
  BY <1>2, AppendProperties
<1>4. p[2] \in Nat /\ e \in Nat /\ d <= e
  BY DEF PieceType
<1>5. /\ s \in [0..k -> Nat] /\ s[0] = 0 /\ s[k] = d
      /\ \A i \in 1..k : s[i] = s[i - 1] + pieces[i][2]
      /\ \A i \in 0..k : s[i] <= d
  BY <1>1, <1>2 DEF Sums
<1>6. /\ t \in [0..(k + 1) -> Nat] /\ t[0] = 0 /\ t[k + 1] = e
      /\ \A i \in 0..k : t[i] = s[i]
  BY <1>4, <1>5
<1> HIDE DEF new, t
<1>7. ASSUME NEW i \in 1..(k + 1) PROVE t[i] = t[i - 1] + new[i][2]
  <2>1. CASE i = k + 1
    <3>1. i - 1 = k /\ k \in 0..k
      BY <2>1
    <3>2. t[i - 1] = d
      BY <1>5, <1>6, <3>1
    <3> QED
      BY <1>3, <1>6, <2>1, <3>2
  <2>2. CASE i \in 1..k
    <3>1. i - 1 \in 0..k /\ i \in 0..k
      BY <2>2
    <3> QED
      BY <1>3, <1>5, <1>6, <2>2, <3>1
  <2> QED
    BY <2>1, <2>2
<1>8. ASSUME NEW i \in 0..(k + 1) PROVE t[i] <= e
  <2>1. CASE i = k + 1
    BY <1>4, <1>6, <2>1
  <2>2. CASE i \in 0..k
    <3>1. t[i] = s[i] /\ s[i] <= d /\ s[i] \in Nat
      BY <1>5, <1>6, <2>2
    <3> QED
      BY <1>4, <3>1
  <2> QED
    BY <2>1, <2>2
<1>9. Sums(t, new, e)
  BY <1>3, <1>6, <1>7, <1>8 DEF Sums
<1> QED
  BY <1>4, <1>9 DEF SumsTo, new

\* The sequences up to one after the other
Flat(f, seqs, m) == f = [i \in 1..m |-> IF i = 1 THEN seqs[i] ELSE f[i - 1] \o seqs[i]]

LEMMA FlatExists ==
  ASSUME NEW seqs, NEW m \in Nat \ {0}
  PROVE  \E f : Flat(f, seqs, m)
<1> DEFINE D == {j \in 1..m : ~\E f : Flat(f, seqs, j)}
<1>1. SUFFICES ASSUME D # {} PROVE FALSE
  OBVIOUS
<1>2. D \in SUBSET Nat
  OBVIOUS
<1>3. PICK j \in D : \A i \in D : j <= i
  BY <1>1, <1>2, LeastNat
<1>4. j \in 1..m /\ ~\E f : Flat(f, seqs, j)
  OBVIOUS
<1>5. j # 1
  <2>1. SUFFICES ASSUME j = 1 PROVE FALSE
    OBVIOUS
  <2>2. PICK f : f = [i \in 1..1 |-> seqs[i]]
    OBVIOUS
  <2>3. f = [i \in 1..1 |-> IF i = 1 THEN seqs[i] ELSE f[i - 1] \o seqs[i]]
    <3>1. \A i \in 1..1 : i = 1
      OBVIOUS
    <3> QED
      BY <2>2, <3>1
  <2> QED
    BY <1>4, <2>1, <2>3 DEF Flat
<1>6. PICK i \in 1..m : j = i + 1 /\ i \notin D
  <2>1. j - 1 \in 1..m /\ j = (j - 1) + 1 /\ ~(j <= j - 1)
    BY <1>4, <1>5
  <2> QED
    BY <1>3, <2>1
<1>7. PICK g : Flat(g, seqs, i)
  BY <1>6
<1>8. PICK z : z = g[i] \o seqs[j]
  OBVIOUS
<1>9. PICK f : f = [x \in 1..j |-> IF x = j THEN z ELSE g[x]]
  OBVIOUS
<1>10. ASSUME NEW x \in 1..j
       PROVE f[x] = IF x = 1 THEN seqs[x] ELSE f[x - 1] \o seqs[x]
  <2>1. CASE x = j
    <3>1. i \in 1..j /\ i # j /\ x - 1 = i /\ x # 1
      BY <1>5, <1>6, <2>1
    <3>2. f[x - 1] = g[i]
      BY <1>9, <3>1
    <3>3. f[x] = z
      BY <1>9, <2>1
    <3> QED
      BY <1>8, <2>1, <3>1, <3>2, <3>3
  <2>2. CASE x # j
    <3>1. x \in 1..i
      BY <1>6, <2>2
    <3>2. g[x] = IF x = 1 THEN seqs[x] ELSE g[x - 1] \o seqs[x]
      BY <1>7, <3>1 DEF Flat
    <3>3. f[x] = g[x]
      BY <1>9, <2>2
    <3>4. x # 1 => f[x - 1] = g[x - 1]
      <4>1. SUFFICES ASSUME x # 1 PROVE f[x - 1] = g[x - 1]
        OBVIOUS
      <4>2. x - 1 \in 1..j /\ x - 1 # j
        BY <1>6, <3>1, <4>1
      <4> QED
        BY <1>9, <4>2
    <3> QED
      BY <3>2, <3>3, <3>4
  <2> QED
    BY <2>1, <2>2
<1>11. f = [x \in 1..j |-> IF x = 1 THEN seqs[x] ELSE f[x - 1] \o seqs[x]]
  BY <1>9, <1>10
<1> QED
  BY <1>4, <1>11 DEF Flat

\* A sequence has the elements of others one after the other, each behind as many as t says.
Spread(S, g, seqs, t, i) ==
  /\ g \in Seq(S) /\ Len(g) = t[i]
  /\ \A j \in 1..i : \A x \in 1..Len(seqs[j]) : t[j - 1] + x \in 1..t[i] /\ g[t[j - 1] + x] = seqs[j][x]

LEMMA Spreads ==
  ASSUME NEW S, NEW g, NEW seqs, NEW t, NEW m \in Nat, Spread(S, g, seqs, t, m), NEW i, i = m + 1,
         NEW b \in Seq(S), seqs[i] = b, t[i] = t[m] + Len(b), t[m] \in Nat
  PROVE  Spread(S, g \o b, seqs, t, i)
<1>1. g \in Seq(S) /\ Len(g) = t[m]
  BY DEF Spread
<1>2. PICK c \in Nat, d \in Nat : c = t[m] /\ d = Len(b) /\ t[i] = c + d /\ Len(g) = c
  BY <1>1, LenProperties
<1>3. PICK h : h = g \o b
  OBVIOUS
<1>4. h \in Seq(S) /\ Len(h) = t[i]
  <2>1. h \in Seq(S) /\ Len(h) = Len(g) + Len(b)
    BY <1>1, <1>3, ConcatProperties
  <2> QED
    BY <1>2, <2>1
<1>5. \A x \in 1..c : h[x] = g[x]
  BY <1>1, <1>2, <1>3, ConcatProperties
<1>6. \A x \in 1..d : h[c + x] = b[x]
  <2> TAKE x \in 1..d
  <2>1. c + x \in 1..(Len(g) + Len(b)) /\ c + x > Len(g) /\ (c + x) - Len(g) = x
    BY <1>2, SMTT(60)
  <2> QED
    BY <1>1, <1>3, <2>1, ConcatProperties, SMTT(60)
<1>7. ASSUME NEW j \in 1..i, NEW x \in 1..Len(seqs[j])
      PROVE  t[j - 1] + x \in 1..t[i] /\ h[t[j - 1] + x] = seqs[j][x]
  <2>1. CASE j = i
    <3>1. j - 1 = m /\ x \in 1..d
      BY <1>2, <1>7, <2>1
    <3> QED
      BY <1>2, <1>6, <2>1, <3>1, SMTT(60)
  <2>2. CASE j # i
    <3>1. j \in 1..m
      BY <1>7, <2>2
    <3>2. t[j - 1] + x \in 1..t[m] /\ g[t[j - 1] + x] = seqs[j][x]
      BY <1>7, <3>1 DEF Spread
    <3>3. PICK y : y = t[j - 1] + x
      OBVIOUS
    <3>4. y \in 1..c /\ g[y] = seqs[j][x]
      BY <1>2, <3>2, <3>3
    <3> QED
      BY <1>2, <1>5, <3>3, <3>4, SMTT(60)
  <2> QED
    BY <2>1, <2>2
<1> QED
  BY <1>3, <1>4, <1>7 DEF Spread

-----------------------------------------------------------------------------
(* An empty heap.                                                          *)

LEMMA NothingTaken == ASSUME NEW n \in Nat \ {0} PROVE Taken(NewHeap(n)) = {}
<1>1. \A s : ~IsTaken(NewHeap(n), s)
  BY NewHeapInv
<1> QED
  BY <1>1 DEF Taken, IsTaken
=============================================================================
