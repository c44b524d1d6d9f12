----------------------------- MODULE MemoryPlan -----------------------------
(***************************************************************************)
(* memory_plan_rewrite of tinygrad/schedule/memory.py: the buffers of a      *)
(* linear schedule are given offsets in one arena per lane, a lane being a   *)
(* device and whether a copy touches the buffer.  The first loop reads one   *)
(* call at a time; then a step handles one event of the sorted list, the     *)
(* opening or closing of a buffer's lifetime, in the TLSF heap of its lane.  *)
(*                                                                         *)
(* Events of one time and kind are handled in any order: the code's order is *)
(* that of the operands of the calls, which the model leaves out.            *)
(***************************************************************************)
EXTENDS TLSF, FiniteSetsExt

CONSTANTS
  Buffer,     \* the buffers that can be planned (_can_plan)
  Device,
  Bytes,      \* the sizes a buffer may have
  NumCalls,   \* calls of a schedule
  MaxBufs     \* bound: planned buffers of a call

ASSUME MemoryPlanAssumption ==
  /\ NumCalls \in Nat /\ IsFiniteSet(Buffer)
  /\ Bytes \subseteq Nat \ {0}

NBytes(n) == AlignUp(n, BlockSize)

\* The bytes of the buffers of a set whose sizes are w.
SumBytes(S, w) == MapThenSumSet(LAMBDA b : NBytes(w[b]), S)

VARIABLES
  scanned,  \* calls read, or NumCalls + 1 once the events are sorted
  first,    \* first: the call a planned buffer is first used by
  last,     \* last
  copied,   \* copy_bufs
  bytes,    \* the size of each planned buffer
  device,   \* and its device
  events,   \* the events that are not handled yet
  offsets,  \* offsets
  heaps,    \* the allocator of each lane
  peaks     \* the peak of each lane

buffers == <<scanned, first, last, copied, bytes, device>>
vars == <<scanned, first, last, copied, bytes, device, events, offsets, heaps, peaks>>

-----------------------------------------------------------------------------
Planned == DOMAIN first

\* hold: a buffer of a copy rests as long again as it was in use.
Hold(b) == IF b \in copied THEN last[b] - first[b] + 1 ELSE 0

CloseTimeMutant(b) == last[b] + 1
\* When the lifetime of b ends.
CloseTime(b) == last[b] + 1 + Hold(b)

\* key
Lane(b) == <<device[b], b \in copied>>
Lanes == {Lane(b) : b \in Planned}

OpenEvent(b)  == [time |-> first[b], opening |-> TRUE, buf |-> b]
CloseEvent(b) == [time |-> CloseTime(b), opening |-> FALSE, buf |-> b]

\* The order of the sorted events: by time, closings before openings.
Before(e, f) == e.time < f.time \/ (e.time = f.time /\ (~e.opening \/ f.opening))

TotalMemoryMutant == SumBytes(Planned, bytes)
\* total_memory
TotalMemory == SumBytes(Planned, bytes) * 2

Empty == [b \in {} |-> 0]

Init ==
  /\ scanned = 0
  /\ first = Empty /\ last = Empty /\ copied = {}
  /\ bytes = Empty /\ device = Empty
  /\ events = {} /\ offsets = Empty /\ heaps = Empty /\ peaks = Empty

-----------------------------------------------------------------------------
\* The value of a dict after an assignment, or setdefault, of val to the keys.
Assign(dict, keys, val) ==
  [b \in DOMAIN dict \cup keys |-> IF b \in keys THEN val ELSE dict[b]]
SetDefault(dict, keys, val) ==
  [b \in DOMAIN dict \cup keys |-> IF b \in DOMAIN dict THEN dict[b] ELSE val]

\* last[b] = i
LastAfter(bufs) == Assign(last, bufs, scanned + 1)

\* An iteration of the first loop, for a call with these buffers.
ReadCall(bufs, copy) ==
  /\ scanned < NumCalls /\ Cardinality(bufs) <= MaxBufs
  /\ scanned' = scanned + 1
  /\ first' = SetDefault(first, bufs, scanned + 1)
  /\ last' = LastAfter(bufs)
  /\ copied' = IF copy THEN copied \cup bufs ELSE copied
  /\ \E sizes \in [bufs \ Planned -> Bytes], places \in [bufs \ Planned -> Device] :
       /\ bytes' = [b \in Planned \cup bufs |-> IF b \in Planned THEN bytes[b] ELSE sizes[b]]
       /\ device' = [b \in Planned \cup bufs |-> IF b \in Planned THEN device[b] ELSE places[b]]
  /\ UNCHANGED <<events, offsets, heaps, peaks>>

\* The list of events and, for every lane, its allocator.
SortEvents ==
  /\ scanned = NumCalls
  /\ scanned' = NumCalls + 1
  /\ events' = {OpenEvent(b) : b \in Planned} \cup {CloseEvent(b) : b \in Planned}
  /\ heaps' = [l \in Lanes |-> NewHeap(TotalMemory)]
  /\ peaks' = [l \in Lanes |-> 0]
  /\ UNCHANGED <<first, last, copied, bytes, device, offsets>>

\* e is the next event of the list; no merge is under way.
IsNext(e) ==
  /\ \A l \in DOMAIN heaps : ~Busy(heaps[l])
  /\ e \in events /\ \A f \in events : Before(e, f)

Open(b) ==
  /\ IsNext(OpenEvent(b))
  /\ \E h \in {heaps[Lane(b)]}, n \in {NBytes(bytes[b])} :
       \E at \in Chosen(h, n, 1) :
         LET end == at + bytes[b]
         IN  /\ BlockFits(h, at, n, 1)
             /\ heaps' = [heaps EXCEPT ![Lane(b)] = Alloc(h, at, at, Request(n))]
             /\ offsets' = [c \in DOMAIN offsets \cup {b} |->
                              IF c = b THEN at ELSE offsets[c]]
             /\ peaks' = [peaks EXCEPT ![Lane(b)] = IF end > @ THEN end ELSE @]
  /\ events' = events \ {OpenEvent(b)}
  /\ UNCHANGED buffers

Close(b) ==
  /\ IsNext(CloseEvent(b))
  /\ heaps' = [heaps EXCEPT ![Lane(b)] = FreeBlock(@, offsets[b])]
  /\ events' = events \ {CloseEvent(b)}
  /\ UNCHANGED <<buffers, offsets, peaks>>

\* The rest of free.
Merge(l) ==
  /\ Busy(heaps[l])
  /\ \E h \in {heaps[l]} : heaps' = [heaps EXCEPT ![l] = MergeStep(h)]
  /\ UNCHANGED <<buffers, events, offsets, peaks>>

\* The plan is returned.
Return ==
  /\ scanned > NumCalls /\ events = {}
  /\ \A l \in DOMAIN heaps : ~Busy(heaps[l])
  /\ UNCHANGED vars

Next ==
  \/ \E bufs \in SUBSET Buffer, copy \in BOOLEAN : ReadCall(bufs, copy)
  \/ SortEvents
  \/ \E b \in Planned : Open(b) \/ Close(b)
  \/ \E l \in DOMAIN heaps : Merge(l)
  \/ Return

Spec == Init /\ [][Next]_vars

-----------------------------------------------------------------------------
TypeOK ==
  /\ scanned \in 0..(NumCalls + 1)
  /\ Planned \subseteq Buffer /\ copied \subseteq Planned
  /\ first \in [Planned -> 1..NumCalls] /\ last \in [Planned -> 1..NumCalls]
  /\ bytes \in [Planned -> Bytes] /\ device \in [Planned -> Device]
  /\ events \subseteq {OpenEvent(b) : b \in Planned} \cup {CloseEvent(b) : b \in Planned}
  /\ DOMAIN offsets \subseteq Planned /\ \A b \in DOMAIN offsets : offsets[b] \in Nat
  /\ DOMAIN heaps = (IF scanned > NumCalls THEN Lanes ELSE {})
  /\ DOMAIN peaks = DOMAIN heaps /\ \A l \in DOMAIN peaks : peaks[l] \in Nat

ArenaRange(b) == offsets[b]..(offsets[b] + NBytes(bytes[b]) - 1)

\* The calls during which the memory of b must not be anybody else's: those from its
\* first to its last use and, for a buffer that is copied, as many after it, because
\* the copy queue runs behind.
InUse(b) == first[b]..(last[b] + Hold(b))

\* Two buffers of a lane that are in use at the same call never share a byte of the
\* arena, whatever was freed, merged and handed out again in between (memory.py:40-43).
LifetimesDisjoint ==
  \A b, c \in DOMAIN offsets :
    /\ b # c /\ Lane(b) = Lane(c)
    /\ InUse(b) \cap InUse(c) # {}
    => ArenaRange(b) \cap ArenaRange(c) = {}

\* Twice the bytes of all buffers are always enough: no alloc of the planner raises,
\* however the heap is fragmented (memory.py:37), and none of its assertions fails.
PlanSucceeds ==
  \A b \in Planned : IsNext(OpenEvent(b)) =>
    \E at \in Chosen(heaps[Lane(b)], NBytes(bytes[b]), 1) :
      BlockFits(heaps[Lane(b)], at, NBytes(bytes[b]), 1)

\* Planning never costs memory: the arena of a lane is no larger than its buffers are
\* together (what the message of memory.py:49 reports as reduced).
ArenaNeverGrows ==
  \A l \in DOMAIN peaks :
    peaks[l] <= SumBytes({b \in DOMAIN offsets : Lane(b) = l}, bytes)

\* No allocation of the planner fails, whatever the heap looks like, and its arenas take no
\* more memory than the buffers would (schedule/memory.py:33-60).
PlanPaysOff == PlanSucceeds /\ ArenaNeverGrows

\* The neighbour links and the bins of the allocators agree with the blocks: blocks
\* tile the space, a block's predecessor ends where it starts, no two neighbours are
\* free, a bin lists exactly the free blocks of its sizes, and the counts are right.
HeapsConsistent == \A l \in DOMAIN heaps : HeapOK(heaps[l])
=============================================================================
