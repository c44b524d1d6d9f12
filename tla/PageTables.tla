----------------------------- MODULE PageTables -----------------------------
(***************************************************************************)
(* What the inductive invariants of VirtualMemory say: who owns what the   *)
(* two heaps have handed out, how the page tables hang together, where a   *)
(* traversal is in them, and what a device finds there.                    *)
(***************************************************************************)
EXTENDS VirtualMemory, TLSF_proofs

-----------------------------------------------------------------------------
(* Tables, and the stack of a traversal.                                   *)

\* A number of whole pages
Paged(n) == \E k \in Nat : n = Page * k

EntryType == [kind : {"none", "page", "table"}, addr : Int]
TableType == UNION {[lv : {l}, pte : [0..(PteCnt[l] - 1) -> EntryType]] : l \in 1..Levels}

\* An entry that leads to the table at an address
Points(T, t, i, a) == t \in DOMAIN T /\ i \in DOMAIN T[t].pte /\ T[t].pte[i] = TableAt(a)

\* An entry leads to a table of the next level that is there, and no other entry does.
TablesOK(T) ==
  /\ T \in [DOMAIN T -> TableType] /\ DOMAIN T \ {Root} \subseteq Nat
  /\ Root \in DOMAIN T /\ T[Root].lv = 1
  /\ \A t, i, a : Points(T, t, i, a) => a \in DOMAIN T \ {Root} /\ T[a].lv = T[t].lv + 1
  /\ \A t, i, u, j, a : Points(T, t, i, a) /\ Points(T, u, j, a) => t = u /\ i = j

\* A place in a table on the way from the root
Frame0 == [pt : Int, idx : Nat]

\* A frame of a stack has a table of its level and an entry of it, the one that leads to the
\* next frame; only on the way up the last one may be behind the last entry.
FrameOK(T, stack, up, i) ==
  /\ stack[i].pt \in DOMAIN T /\ T[stack[i].pt].lv = i
  /\ stack[i].idx <= PteCnt[i]
  /\ (i < Len(stack) \/ ~up) => stack[i].idx < PteCnt[i]
  /\ i < Len(stack) => T[stack[i].pt].pte[stack[i].idx] = TableAt(stack[i + 1].pt)

StackOK(T, stack, up) ==
  /\ stack \in Seq(Frame0) /\ Len(stack) > 0 /\ stack[1].pt = Root
  /\ \A i \in 1..Len(stack) : FrameOK(T, stack, up, i)

\* The entries of a stack, as numbers of entries of their level from the first address,
\* do not lie behind an address.
Counts(q, stack, v) ==
  /\ q \in [0..Len(stack) -> Nat] /\ q[0] = 0
  /\ \A i \in 1..Len(stack) :
       q[i] = q[i - 1] * PteCnt[i] + stack[i].idx /\ q[i] * PteCovers[i] <= v

Position(stack, v) == \E q : Counts(q, stack, v)

-----------------------------------------------------------------------------
(* Who owns what is handed out.                                            *)

RangeType == [va : Nat, size : Nat \ {0}, pieces : Seq(PieceType)]

\* Pieces of whole pages, each at another address
PiecesOK(pieces) ==
  /\ pieces \in Seq(PieceType)
  /\ \A i \in DOMAIN pieces : Paged(pieces[i][1]) /\ Paged(pieces[i][2])
  /\ \A i, j \in DOMAIN pieces : pieces[i][1] = pieces[j][1] => i = j

Starts(pieces) == {p[1] : p \in PieceSet(pieces)}
TablePieces(T) == {<<t, Page>> : t \in DOMAIN T \ {Root}}
OwnedPieces(own) == UNION {PieceSet(r.pieces) : r \in own}

\* What the physical heap has handed out are the pieces of the owners, those of the call that
\* is under way and the page tables, and no two of these are the same.
PiecesApart(own, mine, T) ==
  /\ \A r \in own : PiecesOK(r.pieces) /\ Starts(r.pieces) \cap Starts(mine) = {}
                    /\ Starts(r.pieces) \cap DOMAIN T = {}
  /\ \A r, s \in own : r # s => Starts(r.pieces) \cap Starts(s.pieces) = {}
  /\ PiecesOK(mine) /\ Starts(mine) \cap DOMAIN T = {}

PiecesOwned(own, mine, T, h) ==
  /\ PiecesApart(own, mine, T)
  /\ Taken(h) = OwnedPieces(own) \cup PieceSet(mine) \cup TablePieces(T)

Claimed(claims, r) == IF claims THEN {<<r.va, r.size>>} ELSE {}
Extents(own) == {<<r.va, r.size>> : r \in own}

\* What the virtual heap has handed out are the ranges of the owners and of the call.
RangesOwned(own, claims, r, h) ==
  /\ own \subseteq RangeType
  /\ \A s, t \in own : s.va = t.va => s = t
  /\ claims => \A s \in own : s.va # r.va
  /\ Taken(h) = Extents(own) \cup Claimed(claims, r)

-----------------------------------------------------------------------------
(* The first invariant: the state of heaps, tables and traversals.         *)

Loops == {"idle", "contiguous", "palloc", "inspect", "map", "unmap", "release"}
\* The loops in which a call has its virtual range, in which it is a valloc, and in which
\* the page tables are traversed
Claiming == {"contiguous", "palloc", "inspect", "map", "unmap"}
Providing == {"contiguous", "palloc", "inspect", "map"}
Traversing == {"inspect", "map", "unmap"}

ReqType == [va : Nat, size : Nat, pieces : Seq(PieceType), rem : Nat, range : Nat]
WalkType == [vaddr : Nat, size : Int, off : Nat, piece : Nat, stack : Seq(Frame0), up : BOOLEAN]

TypeOK ==
  /\ pc \in Loops /\ req \in ReqType /\ walk \in WalkType
  /\ maps \cap lost = {}

HeapsOK == HeapInv(pa) /\ HeapInv(va) /\ pa.total = Physical /\ va.total = Virtual

\* The pieces valloc has taken make up what does not remain.
Taking(r) ==
  /\ Paged(r.rem) /\ r.range \in 1..Len(PallocRanges)
  /\ \E d \in Nat : r.size = r.rem + d /\ SumsTo(r.pieces, d)

ReqOK(p, r) ==
  /\ p = "idle" => r = NoReq
  /\ p = "contiguous" => r.pieces = <<>>
  /\ p \in Claiming => r.size # 0 /\ r.va + r.size <= Virtual
  /\ p \in Providing => Paged(r.va) /\ Paged(r.size)
  /\ p = "palloc" => Taking(r)
  /\ p \in {"inspect", "map"} => SumsTo(r.pieces, r.size)

\* A traversal stays in its range but for what a visit of an inspection covers.
Traverses(w, T, r) ==
  /\ StackOK(T, w.stack, w.up) /\ Position(w.stack, w.vaddr)
  /\ w.vaddr < Virtual + PteCovers[1] /\ w.vaddr + w.size <= r.va + r.size

\* The mapping of pages has reached the place of the pieces before in the range.
Reached(w, r) ==
  \E s : Sums(s, r.pieces, r.size) /\ w.vaddr + w.size = r.va + s[w.piece]

Mapping(w, r) ==
  /\ w.size \in Nat /\ Paged(w.size) /\ Paged(w.vaddr) /\ Paged(w.off)
  /\ w.piece \in 0..Len(r.pieces) /\ (w.size > 0 => w.piece > 0)
  /\ Reached(w, r)

WalkOK(p, w, T, r) ==
  /\ p \in Traversing => Traverses(w, T, r)
  /\ p \notin Traversing => ~w.up
  /\ p = "map" => Mapping(w, r)

\* Heaps, owners, tables and traversal together
IInv ==
  /\ TypeOK /\ HeapsOK
  /\ RangesOwned(maps \cup lost, pc \in Claiming, req, va)
  /\ PiecesOwned(maps \cup lost, req.pieces, tables, pa)
  /\ TablesOK(tables)
  /\ ReqOK(pc, req)
  /\ WalkOK(pc, walk, tables, req)

-----------------------------------------------------------------------------
(* The tree of the tables that are reached from the root.                  *)

\* The entry of a level an address is under, counted from the first address, its place in its
\* table and the number of the table
At(l, v) == v \div PteCovers[l]
Place(l, v) == At(l, v) % PteCnt[l]
Above(l, v) == At(l, v) \div PteCnt[l]

\* Tables and entries are counted in their level from the first address.
Number(n, T, t, i) == n[t] * PteCnt[T[t].lv] + i

\* An address is under a table, or under an entry of it.
On(n, T, t, v) == Above(T[t].lv, v) = n[t]
Under(n, T, t, i, v) == At(T[t].lv, v) = Number(n, T, t, i)

PageEntry(T, t, i) == i \in DOMAIN T[t].pte /\ T[t].pte[i].kind = "page"

\* The tables of L are the root and those that entries of tables of L lead to, n their numbers.
Tree(L, n, T) ==
  /\ Root \in L /\ L \subseteq DOMAIN T /\ n \in [L -> Nat] /\ n[Root] = 0
  /\ \A t, i, a : t \in L /\ Points(T, t, i, a) => a \in L /\ n[a] = Number(n, T, t, i)
  /\ \A a \in L \ {Root} : \E t \in L : \E i : Points(T, t, i, a)
  /\ \A t, u \in L : T[t].lv = T[u].lv /\ n[t] = n[u] => t = u

-----------------------------------------------------------------------------
(* The second: what is mapped.                                             *)

\* The addresses of a range that are mapped: all of them, or those a call has come to or has
\* not come to yet
Part(r, from, to) == [va |-> r.va, size |-> r.size, pieces |-> r.pieces, from |-> from, to |-> to]
Whole(r) == Part(r, r.va, r.va + r.size)
Current(p, w, r) == IF p = "map" THEN Part(r, r.va, w.vaddr) ELSE Part(r, w.vaddr, r.va + r.size)
PartsOf(own, p, w, r) ==
  {Whole(o) : o \in own} \cup (IF p \in {"map", "unmap"} THEN {Current(p, w, r)} ELSE {})

InPart(p, v) == p.from <= v /\ v < p.to
Used(P) == {v \in Nat : \E p \in P : InPart(p, v)}

\* An address of a range is that of an address in its pieces.
Phys(p, v, y) ==
  \E s : /\ Sums(s, p.pieces, p.size)
         /\ \E k \in 1..Len(p.pieces), d \in Nat :
              d < p.pieces[k][2] /\ v = p.va + s[k - 1] + d /\ y = p.pieces[k][1] + d

\* A page entry maps addresses of one part, each to its own.
Backed(n, T, t, i, p) ==
  \A v \in Nat : Under(n, T, t, i, v) =>
    InPart(p, v) /\ Phys(p, v, T[t].pte[i].addr + (v % PteCovers[T[t].lv]))

Right(L, n, T, P) == \A t \in L : \A i : PageEntry(T, t, i) => \E p \in P : Backed(n, T, t, i, p)

\* Addresses that are mapped, and tables that are on the way of some address or need not be yet
Covered(L, n, T, V) == \A v \in V : \E t \in L : \E i : PageEntry(T, t, i) /\ Under(n, T, t, i, v)
Met(L, n, T, X, V) == \A t \in L \ {Root} : t \in X \/ \E v \in V : On(n, T, t, v)

\* A traversal is in tables of the tree, at the entry of its address.
Follows(L, n, T, stack, v) ==
  /\ \A i \in 1..Len(stack) : stack[i].pt \in L
  /\ At(Len(stack), v) = Number(n, T, stack[Len(stack)].pt, stack[Len(stack)].idx)

\* The tables of the stack are not on the way of a mapped address before the first entry is
\* written, and after the last one is.
StackTables(stack) == {stack[i].pt : i \in 1..Len(stack)}
Excused(p, w) ==
  IF (p = "map" /\ ~w.up /\ w.size > 0) \/ (p = "unmap" /\ w.up) THEN StackTables(w.stack) ELSE {}

\* The tables of L map the parts of the ranges in use (ms) and of those lost (ls).
Maps(L, n, T, p, w, r, ms, ls) ==
  /\ Tree(L, n, T)
  /\ Right(L, n, T, PartsOf(ms \cup ls, p, w, r))
  /\ Covered(L, n, T, Used(PartsOf(ms, p, w, r)))
  /\ Met(L, n, T, Excused(p, w), Used(PartsOf(ms \cup ls, p, w, r)))
  /\ p \in Traversing => Follows(L, n, T, w.stack, w.vaddr)

\* Where a traversal is in its range and in a piece
Straight(p, w, r) ==
  /\ p \notin Traversing => w = NoWalk
  /\ p \in Traversing => r.va <= w.vaddr
  /\ p = "map" /\ w.piece > 0 => w.off + w.size = r.pieces[w.piece][2]
  /\ p = "unmap" => w.vaddr + w.size = r.va + r.size /\ w.size >= 0

PagedRanges(own) == \A r \in own : Paged(r.va) /\ Paged(r.size)

Steady ==
  /\ PagedRanges(maps \cup lost) /\ Straight(pc, walk, req)
  /\ \E L, n : Maps(L, n, tables, pc, walk, req, maps, lost)

TInv == IInv /\ Steady

\* The range of a call that unmaps starts at a page, too.
Aligned == pc = "unmap" => Paged(req.va)
=============================================================================
