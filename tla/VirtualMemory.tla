---------------------------- MODULE VirtualMemory ----------------------------
(***************************************************************************)
(* MemoryManager and PageTableTraverseContext of                            *)
(* tinygrad/runtime/support/memory.py, with the page tables of the AMD and   *)
(* NV devices: valloc takes a virtual range and physical pieces from two     *)
(* TLSF heaps and maps them; vfree unmaps and gives them back.  Tables are   *)
(* pages of the physical heap (reserve_ptable is False).                     *)
(*                                                                         *)
(* One call is under way at a time.  An iteration of a loop of the code is a *)
(* step, so that the state in the middle of a call is checked too: pc names  *)
(* the loop, req holds the locals of valloc or vfree, walk those of the      *)
(* traversal.  Addresses are relative to va_base and to the base of          *)
(* pa_allocator.                                                             *)
(***************************************************************************)
EXTENDS TLSF, SequencesExt

CONSTANTS
  Page,        \* 0x1000
  LvlMsb,      \* lvl_msb from the root: va_bits + 1 and then va_shifts, the last first
  Physical,    \* size of pa_allocator
  Virtual,     \* size of va_allocator
  PallocRanges,\* palloc_ranges: <<size, alignment>>, the last a page
  HugeFrom,    \* the level from which entries may be pages (supports_huge_page)
  HugeAligned, \* they must then be aligned (NV) or need not be (AMD)
  Sizes,       \* the sizes of requests, multiples of a page
  MaxMaps      \* bound: ranges at a time, lost ones included

Levels == Len(LvlMsb) - 1
Root == -1  \* root_page_table, a page of boot memory

PteCnt    == [lv \in 1..Levels |-> 2^(LvlMsb[lv] - LvlMsb[lv + 1])]
PteCovers == [lv \in 1..Levels |-> 2^LvlMsb[lv + 1]]

\* The last level covers a page (va_shifts starts with 12); blocks, requests and ranges are
\* made of pages.
ASSUME VirtualMemoryAssumption ==
  /\ LvlMsb \in Seq(Nat) /\ Levels > 0 /\ Page = 2^LvlMsb[Levels + 1]
  /\ \A lv \in 1..Levels : LvlMsb[lv + 1] < LvlMsb[lv]
  /\ BlockSize <= Page /\ HugeFrom \in 1..Levels /\ HugeAligned \in BOOLEAN
  /\ \A size \in Sizes : size \in Nat \ {0} /\ size % Page = 0
  /\ PallocRanges \in Seq((Nat \ {0}) \X (Nat \ {0}))
  /\ \A i \in DOMAIN PallocRanges : PallocRanges[i][1] % Page = 0 /\ PallocRanges[i][2] % Page = 0
  /\ PallocRanges # <<>> /\ PallocRanges[Len(PallocRanges)] = <<Page, Page>>
  /\ Physical \in Nat \ {0} /\ Virtual \in Nat \ {0}
  \* A look at the last entry of the root would run off its end (IndexError).
  /\ Virtual <= PteCovers[1] * (PteCnt[1] - 1)

VARIABLES
  pc,      \* the loop a call is in, "idle" between calls
  req,     \* locals of valloc and vfree
  walk,    \* a PageTableTraverseContext and the arguments of its next
  tables,  \* the page tables in memory, by address
  pa, va,  \* pa_allocator, va_allocator
  maps,    \* the mappings handed out
  lost     \* history: what calls that raised MemoryError have not given back

vars == <<pc, req, walk, tables, pa, va, maps, lost>>

-----------------------------------------------------------------------------
None == [kind |-> "none", addr |-> 0]
PageAt(addr) == [kind |-> "page", addr |-> addr]
TableAt(addr) == [kind |-> "table", addr |-> addr]

NewTable(lv) == [lv |-> lv, pte |-> [i \in 0..(PteCnt[lv] - 1) |-> None]]

NoReq == [va |-> 0, size |-> 0, pieces |-> <<>>, rem |-> 0, range |-> 1]
NoWalk == [vaddr |-> 0, size |-> 0, off |-> 0, piece |-> 0, stack |-> <<>>, up |-> FALSE]

Init ==
  /\ pc = "idle" /\ req = NoReq /\ walk = NoWalk
  /\ tables = [t \in {Root} |-> NewTable(1)]
  /\ pa = NewHeap(Physical) /\ va = NewHeap(Virtual)
  /\ maps = {} /\ lost = {}

Ready(loop) == pc = loop /\ ~Busy(pa) /\ ~Busy(va)

\* The end of free.
MergePhysical == Busy(pa) /\ pa' = MergeStep(pa) /\ UNCHANGED <<pc, req, walk, tables, va, maps, lost>>
MergeVirtual == Busy(va) /\ va' = MergeStep(va) /\ UNCHANGED <<pc, req, walk, tables, pa, maps, lost>>

-----------------------------------------------------------------------------
(* valloc *)

\* alloc_vaddr: ranges are aligned to the power of two in them.
VaAlign(size) ==
  LET power == 2^(BitLength(size) - 1) IN IF power > Page THEN power ELSE Page

Valloc(size, contiguous) ==
  /\ Ready("idle") /\ Cardinality(maps \cup lost) < MaxMaps
  /\ \E at \in Chosen(va, size, VaAlign(size)) :
       LET start == AlignUp(at, VaAlign(size))
       IN  /\ va' = Alloc(va, at, start, Request(size))
           /\ req' = [va |-> start, size |-> size, pieces |-> <<>>, rem |-> size, range |-> 1]
  /\ pc' = IF contiguous THEN "contiguous" ELSE "palloc"
  /\ UNCHANGED <<walk, tables, pa, maps, lost>>

\* No call is made, or a valloc raises because there is no virtual range.
NoCall == Ready("idle") /\ UNCHANGED vars

\* A new traversal of the range, to look at it or to map or unmap it.
Traversal(start) ==
  [vaddr |-> start, size |-> 0, off |-> 0, piece |-> 0,
   stack |-> <<[pt |-> Root, idx |-> (start \div PteCovers[1]) % PteCnt[1]]>>, up |-> FALSE]

Inspection(r) == [Traversal(r.va) EXCEPT !.size = r.size]

\* What a call that raises leaves behind.
Lose(r) == lost' = lost \cup {[va |-> r.va, size |-> r.size, pieces |-> r.pieces]}

\* palloc of size bytes out of the heap, with the new heap and the address.
Palloc(size, align, address) ==
  \E at \in Chosen(pa, size, align) :
    /\ address = AlignUp(at, align)
    /\ pa' = Alloc(pa, at, address, Request(size))

PallocRaises(size, align) == Chosen(pa, size, align) = {}

\* The whole request as one piece.
AllocContiguous ==
  /\ Ready("contiguous")
  /\ \E address \in {AlignUp(at, Page) : at \in Chosen(pa, req.size, Page)} :
       /\ Palloc(req.size, Page, address)
       /\ req' = [req EXCEPT !.pieces = <<<<address, req.size>>>>]
  /\ pc' = "inspect" /\ walk' = Inspection(req)
  /\ UNCHANGED <<tables, va, maps, lost>>

ContiguousRaises ==
  /\ Ready("contiguous") /\ PallocRaises(req.size, Page)
  /\ Lose(req)
  /\ pc' = "idle" /\ req' = NoReq
  /\ UNCHANGED <<walk, tables, pa, va, maps>>

\* The first range from nxt_range on that is not larger than what remains.
Fitting(r) ==
  CHOOSE i \in r.range..Len(PallocRanges) :
    /\ PallocRanges[i][1] <= r.rem
    /\ \A j \in r.range..(i - 1) : PallocRanges[j][1] > r.rem

\* An iteration of the loop over the ranges takes a piece,
TakePiece ==
  /\ Ready("palloc") /\ req.rem > 0
  /\ \E i \in {Fitting(req)} : LET size == PallocRanges[i][1]  align == PallocRanges[i][2] IN
       \E address \in {AlignUp(at, align) : at \in Chosen(pa, size, align)} :
         /\ Palloc(size, align, address)
         /\ req' = [req EXCEPT !.range = i, !.rem = @ - size,
                               !.pieces = Append(@, <<address, size>>)]
  /\ UNCHANGED <<pc, walk, tables, va, maps, lost>>

\* or goes on to smaller ranges,
SmallerRange ==
  /\ Ready("palloc") /\ req.rem > 0
  /\ \E i \in {Fitting(req)} :
       /\ PallocRaises(PallocRanges[i][1], PallocRanges[i][2])
       /\ i < Len(PallocRanges)
       /\ req' = [req EXCEPT !.range = i + 1]
  /\ UNCHANGED <<pc, walk, tables, pa, va, maps, lost>>

\* or is out of memory: the pieces go back, the virtual range does not.
GiveUp ==
  /\ Ready("palloc") /\ req.rem > 0
  /\ \E i \in {Fitting(req)} :
       /\ PallocRaises(PallocRanges[i][1], PallocRanges[i][2])
       /\ i = Len(PallocRanges)
  /\ Lose([req EXCEPT !.pieces = <<>>])
  /\ pc' = "release"
  /\ UNCHANGED <<req, walk, tables, pa, va, maps>>

MapPieces ==
  /\ Ready("palloc") /\ req.rem = 0
  /\ pc' = "inspect" /\ walk' = Inspection(req)
  /\ UNCHANGED <<req, tables, pa, va, maps, lost>>

-----------------------------------------------------------------------------
(* The traversal of the page tables: next, level_down, level_up *)

Top == walk.stack[Len(walk.stack)]
Below(stack) == SubSeq(stack, 1, Len(stack) - 1)
Level == tables[Top.pt].lv
Covers == PteCovers[Level]
Entry == tables[Top.pt].pte[Top.idx]

Valid(entry) == entry.kind # "none"
IsPage(lv, entry) == lv = Levels \/ entry.kind = "page"

\* The physical address the mapping has reached.
Target == req.pieces[walk.piece][1] + walk.off

SupportsHugePage(lv, paddr) == lv >= HugeFrom /\ (HugeAligned => paddr % PteCovers[lv] = 0)

\* The condition of the loops around level_down, by what the traversal is for.
GoesDown ==
  CASE pc = "map"     -> \/ Covers > walk.size
                         \/ ~SupportsHugePage(Level, Target)
                         \/ walk.vaddr % Covers # 0
    [] pc = "unmap"   -> ~IsPage(Level, Entry)
    [] pc = "inspect" -> ~IsPage(Level, Entry) /\ Valid(Entry)

\* A traversal is at the head of the loop of next.
Walking == (Ready("map") \/ Ready("unmap") \/ Ready("inspect")) /\ ~walk.up /\ walk.size > 0

SetEntry(pt, idx, entry) == [tables EXCEPT ![pt].pte[idx] = entry]

Push(pt, lv) ==
  [walk EXCEPT !.stack =
     Append(@, [pt |-> pt, idx |-> (walk.vaddr \div PteCovers[lv]) % PteCnt[lv]])]

LevelDown ==
  /\ Walking /\ GoesDown
  /\ Valid(Entry) /\ ~IsPage(Level, Entry)
  /\ walk' = Push(Entry.addr, Level + 1)
  /\ UNCHANGED <<pc, req, tables, pa, va, maps, lost>>

\* create_pts: a table is missing.
CreateTable ==
  /\ Walking /\ GoesDown
  /\ pc = "map" /\ ~Valid(Entry)
  /\ \E address \in {AlignUp(at, Page) : at \in Chosen(pa, Page, Page)} :
       /\ Palloc(Page, Page, address)
       /\ tables' = [t \in DOMAIN tables \cup {address} |->
                       IF t = address THEN NewTable(Level + 1)
                       ELSE SetEntry(Top.pt, Top.idx, TableAt(address))[t]]
       /\ walk' = Push(address, Level + 1)
  /\ UNCHANGED <<pc, req, va, maps, lost>>

\* There is no memory for it: valloc raises in the middle of map_range.
CreateTableRaises ==
  /\ Walking /\ GoesDown
  /\ pc = "map" /\ ~Valid(Entry)
  /\ PallocRaises(Page, Page)
  /\ Lose(req)
  /\ pc' = "idle" /\ req' = NoReq /\ walk' = NoWalk
  /\ UNCHANGED <<tables, pa, va, maps>>

\* entries, the ones a visit takes at once.
EntryCount ==
  LET whole == walk.size \div Covers
      room  == PteCnt[Level] - Top.idx
      count == IF whole < room THEN whole ELSE room
  IN  IF pc = "inspect" /\ count < 1 THEN 1 ELSE count

Span == Top.idx..(Top.idx + EntryCount - 1)

\* What the loops of map_range and unmap_range assert of the entries they visit.
EntriesAsExpected ==
  /\ EntryCount > 0
  /\ \A i \in Span : IF pc = "unmap" THEN Valid(tables[Top.pt].pte[i])
                     ELSE pc = "inspect" => ~Valid(tables[Top.pt].pte[i])

\* The entries after the visit.
Visited ==
  CASE pc = "inspect" -> tables
    [] pc = "unmap" ->
         [tables EXCEPT ![Top.pt].pte = [i \in DOMAIN @ |-> IF i \in Span THEN None ELSE @[i]]]
    [] pc = "map" ->
         [tables EXCEPT ![Top.pt].pte =
            [i \in DOMAIN @ |-> IF i \in Span THEN PageAt(Target + (i - Top.idx) * Covers)
                                ELSE @[i]]]

\* An iteration of next up to level_up, with the body of the caller's loop.
Visit ==
  /\ Walking /\ ~GoesDown /\ EntriesAsExpected
  /\ tables' = Visited
  /\ LET bytes == EntryCount * Covers IN
     walk' = [walk EXCEPT !.size = @ - bytes, !.off = @ + bytes, !.vaddr = @ + bytes,
                          !.stack[Len(walk.stack)].idx = @ + EntryCount, !.up = TRUE]
  /\ UNCHANGED <<pc, req, pa, va, maps, lost>>

\* The condition of _try_free_pt: an unmapped table has no valid entry left.
Emptied ==
  /\ pc = "unmap" /\ Top.pt # Root
  /\ \A i \in DOMAIN tables[Top.pt].pte : ~Valid(tables[Top.pt].pte[i])

AtEnd == Top.idx = PteCnt[Level]

\* level_up leaves a table, and goes on in its parent if it was the last entry.
Climb ==
  LET left == Below(walk.stack) IN
  [walk EXCEPT !.stack = IF AtEnd THEN [left EXCEPT ![Len(left)].idx = @ + 1] ELSE left]

\* An iteration of the loop of level_up that frees the table
FreeTable ==
  /\ Ready("unmap") /\ walk.up /\ Emptied
  /\ pa' = FreeBlock(pa, Top.pt)
  /\ LET parent == walk.stack[Len(walk.stack) - 1] IN
     tables' = [t \in DOMAIN tables \ {Top.pt} |-> SetEntry(parent.pt, parent.idx, None)[t]]
  /\ walk' = Climb
  /\ UNCHANGED <<pc, req, va, maps, lost>>

\* or leaves it because it is at its end.
LevelUp ==
  /\ Ready(pc) /\ walk.up /\ ~Emptied /\ AtEnd
  /\ walk' = Climb
  /\ UNCHANGED <<pc, req, tables, pa, va, maps, lost>>

LevelUpEnds ==
  /\ Ready(pc) /\ walk.up /\ ~Emptied /\ ~AtEnd
  /\ walk' = [walk EXCEPT !.up = FALSE]
  /\ UNCHANGED <<pc, req, tables, pa, va, maps, lost>>

\* The traversal has passed its range.
Passed(loop) == Ready(loop) /\ ~walk.up /\ walk.size <= 0

-----------------------------------------------------------------------------
(* map_range and unmap_range around the traversal, vfree *)

\* The range is free: the pieces are mapped one after the other.
Inspected ==
  /\ Passed("inspect")
  /\ pc' = "map" /\ walk' = Traversal(req.va)
  /\ UNCHANGED <<req, tables, pa, va, maps, lost>>

NextPiece ==
  /\ Passed("map") /\ walk.piece < Len(req.pieces)
  /\ walk' = [walk EXCEPT !.piece = @ + 1, !.size = req.pieces[walk.piece + 1][2], !.off = 0]
  /\ UNCHANGED <<pc, req, tables, pa, va, maps, lost>>

VallocReturns ==
  /\ Passed("map") /\ walk.piece = Len(req.pieces)
  /\ maps' = maps \cup {[va |-> req.va, size |-> req.size, pieces |-> req.pieces]}
  /\ pc' = "idle" /\ req' = NoReq /\ walk' = NoWalk
  /\ UNCHANGED <<tables, pa, va, lost>>

VfreeMutant(m) ==
  /\ Ready("idle")
  /\ maps' = maps \ {m}
  /\ pc' = "release"
  /\ req' = [NoReq EXCEPT !.va = m.va, !.size = m.size, !.pieces = m.pieces]
  /\ UNCHANGED <<walk, tables, pa, va, lost>>
Vfree(m) ==
  /\ Ready("idle")
  /\ maps' = maps \ {m}
  /\ pc' = "unmap" /\ walk' = Inspection(m)
  /\ req' = [NoReq EXCEPT !.va = m.va, !.size = m.size, !.pieces = m.pieces]
  /\ UNCHANGED <<tables, pa, va, lost>>

UnmappedMutant ==
  /\ Passed("unmap")
  /\ pc' = "release" /\ walk' = NoWalk
  /\ UNCHANGED <<req, tables, pa, va, maps, lost>>
Unmapped ==
  /\ Passed("unmap")
  /\ va' = FreeBlock(va, req.va)
  /\ pc' = "release" /\ walk' = NoWalk
  /\ UNCHANGED <<req, tables, pa, maps, lost>>

\* An iteration of the loop over the pieces, of vfree or of a valloc that gives up.
Release ==
  /\ Ready("release") /\ req.pieces # <<>>
  /\ pa' = FreeBlock(pa, Head(req.pieces)[1])
  /\ req' = [req EXCEPT !.pieces = Tail(@)]
  /\ UNCHANGED <<pc, walk, tables, va, maps, lost>>

Released ==
  /\ Ready("release") /\ req.pieces = <<>>
  /\ pc' = "idle" /\ req' = NoReq
  /\ UNCHANGED <<walk, tables, pa, va, maps, lost>>

\* The loops of a call under way
Proceed ==
  \/ MergePhysical \/ MergeVirtual
  \/ AllocContiguous \/ ContiguousRaises
  \/ TakePiece \/ SmallerRange \/ GiveUp \/ MapPieces
  \/ LevelDown \/ CreateTable \/ CreateTableRaises
  \/ Visit \/ FreeTable \/ LevelUp \/ LevelUpEnds
  \/ Inspected \/ NextPiece \/ VallocReturns
  \/ Unmapped \/ Release \/ Released

Next ==
  \/ \E size \in Sizes, contiguous \in BOOLEAN : Valloc(size, contiguous)
  \/ \E m \in maps : Vfree(m)
  \/ NoCall
  \/ Proceed

Spec == Init /\ [][Next]_vars

-----------------------------------------------------------------------------
Pages(r) == {r.va + i * Page : i \in 0..((r.size \div Page) - 1)}

\* The address of each page of a list of pieces.
Frames(pieces) ==
  FlattenSeq([i \in 1..Len(pieces) |->
                [k \in 1..(pieces[i][2] \div Page) |-> pieces[i][1] + (k - 1) * Page]])

\* The entries the device finds for a virtual page, level by level, each with its level
Found(v) ==
  LET found[lv \in 1..Levels] ==
        IF lv = 1 THEN [entry |-> tables[Root].pte[(v \div PteCovers[1]) % PteCnt[1]], lv |-> 1]
        ELSE LET up == found[lv - 1] IN
             IF up.entry.kind = "table" /\ up.entry.addr \in DOMAIN tables
             THEN [entry |-> tables[up.entry.addr].pte[(v \div PteCovers[lv]) % PteCnt[lv]], lv |-> lv]
             ELSE up
  IN  found

\* What it makes of the last: a physical page, or -1.
Translation(v) ==
  LET last == Found(v)[Levels]
  IN  IF last.entry.kind = "page" THEN last.entry.addr + (v % PteCovers[last.lv]) ELSE -1

AllPages == {v \in 0..(Virtual - 1) : v % Page = 0}

\* No assertion fails, whatever is allocated and freed in whatever order: a traversal
\* never meets a page where it needs a table, a missing table it may not create, an
\* entry that is mapped already or not mapped, and alloc never chooses too small a block
\* (memory.py:94, 130, 133, 167, 208, 226).  Its stack names tables of the right levels
\* that were not freed, and entries they have.
AssertionsHold ==
  /\ \A i \in DOMAIN walk.stack :
       LET frame == walk.stack[i]
       IN  frame.pt \in DOMAIN tables /\ tables[frame.pt].lv = i /\ frame.idx \in 0..PteCnt[i]
  /\ Walking /\ GoesDown => IF Valid(Entry) THEN ~IsPage(Level, Entry) ELSE pc = "map"
  /\ Walking /\ ~GoesDown => EntriesAsExpected
  /\ \A size \in Sizes \cup {Page} :
       /\ \A at \in Chosen(va, size, VaAlign(size)) : BlockFits(va, at, size, VaAlign(size))
       /\ \A at \in Chosen(pa, size, Page) : BlockFits(pa, at, size, Page)

\* Between calls a device finds the right physical page for every page of every
\* mapping, and nothing at the addresses of no mapping (but for calls that raised).
TranslatesRight ==
  pc = "idle" =>
    \A v \in AllPages :
      IF \E m \in maps : v \in Pages(m)
      THEN \A m \in maps : v \in Pages(m) =>
             Translation(v) = Frames(m.pieces)[((v - m.va) \div Page) + 1]
      ELSE (\A r \in lost : v \notin Pages(r)) => Translation(v) = -1

TakenPages(h) ==
  UNION {{i[1] + k * Page : k \in 0..((i[2] \div Page) - 1)} : i \in Taken(h)}

\* At every step, also in the middle of a call, a device can only reach memory that is
\* allocated: no translation leads to a freed page, to a page that is a page table, or
\* to the page of another address, and tables themselves are never in free memory.
NothingReachesFreedMemory ==
  /\ DOMAIN tables \ {Root} \subseteq TakenPages(pa)
  /\ \E found \in {[v \in AllPages |-> Translation(v)]} :
       \A v \in AllPages : found[v] # -1 =>
         /\ found[v] \in TakenPages(pa) \ DOMAIN tables
         /\ \A u \in AllPages \ {v} : found[u] # found[v]

\* A device reaches what it should (map_range) and nothing else (unmap_range), between calls
\* and within, and no assertion of the traversals fails (memory.py:130-230).
ReachesOnlyItsOwn == TranslatesRight /\ NothingReachesFreedMemory /\ AssertionsHold

PieceSet(pieces) == {pieces[i] : i \in DOMAIN pieces}

\* Between calls everything the allocators have handed out belongs to a mapping, is a
\* page table, or was lost by a call that raised: vfree gives back exactly what valloc
\* took, whatever pieces it was made of.
EverythingAccountedFor ==
  Ready("idle") =>
    /\ Taken(va) = {<<r.va, r.size>> : r \in maps \cup lost}
    /\ Taken(pa) = (UNION {PieceSet(r.pieces) : r \in maps \cup lost})
                     \cup {<<t, Page>> : t \in DOMAIN tables \ {Root}}

\* Each page table is reached from an entry of another and holds a valid entry: the
\* tables unmap_range goes through are freed when they are empty (_try_free_pt).  Not
\* so: README, section 4.
TablesReachable ==
  pc = "idle" =>
    \A t \in DOMAIN tables \ {Root} :
      \E u \in DOMAIN tables : \E i \in DOMAIN tables[u].pte : tables[u].pte[i] = TableAt(t)

Frame == INSTANCE IntervalAllocator WITH Total <- Physical, taken <- Taken(pa)

\* The physical heap implements the abstract allocator: splits, merges and the choice
\* of a bucket never show.
PhysicalIsIntervals == Frame!Spec
=============================================================================
