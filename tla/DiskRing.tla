------------------------------ MODULE DiskRing ------------------------------
(***************************************************************************)
(* _copyout_sharded of tinygrad/runtime/ops_disk.py with its consumer        *)
(* copy_from_disk (tinygrad/runtime/support/hcq.py): a range of a file is     *)
(* read in pages, piece by piece, into staging buffers through the io_uring  *)
(* that all disk devices share, and each piece is copied to a device once    *)
(* its completion is found.  HCQDevice takes a read as reserving slots and   *)
(* submitting copies; this is what lies in between.                          *)
(*                                                                         *)
(* A byte is represented by its position in the file.  Reads complete, and    *)
(* copies run, at any time; reads in any order.                              *)
(***************************************************************************)
EXTENDS Integers, FiniteSetsExt, SequencesExt

CONSTANTS
  FileSize,   \* bytes of the file
  PageSize,   \* mmap.PAGESIZE
  SegLen,     \* bytes of a staging buffer
  NumSlots,   \* staging buffers
  Ranges,     \* the ranges that are read, by offset and size
  Faulty,     \* what may happen: "read" (an error), "wait" (a time-out), "signal"
  Cut,        \* by how many bytes a read may end early
  Again,      \* whether ranges are read after a call has raised
  MaxCalls    \* bound on the number of calls

ASSUME DiskAssumption ==
  /\ PageSize \in Nat \ {0} /\ SegLen \in Nat \ {0} /\ SegLen % PageSize = 0 /\ NumSlots \in Nat \ {0}
  /\ FileSize \in Nat /\ Ranges \subseteq [offset : Nat, size : Nat \ {0}]
  /\ \A r \in Ranges : r.offset + r.size <= FileSize
  /\ Faulty \subseteq {"read", "wait", "signal"} /\ Cut \subseteq Nat /\ 0 \in Cut /\ Again \in BOOLEAN /\ MaxCalls \in Nat

VARIABLES
  pc,         \* of the generator: "idle", "loop", "enter" (the system call), "reap", "piece",
              \* "returned", "raised"
  range,      \* what the call reads
  next_read_offset, copied_in, minor_offset, processed_reqs_cnt,
  reqs,       \* the requests of the call
  reserved,   \* the slots tagged 1 << 64
  b_next,     \* the slot reserved last
  contents,   \* of each slot, by byte
  reading,    \* the reads the kernel has under way
  cq,         \* completions from khead to ktail
  copies,     \* the copies the device has yet to run
  covered,    \* bytes of the range that were handed over (history)
  calls       \* how many calls were made

generator == <<range, next_read_offset, copied_in, minor_offset, processed_reqs_cnt, reqs>>
kernel == <<reading, cq>>
slots == <<reserved, b_next>>
vars == <<pc, generator, kernel, slots, contents, copies, covered, calls>>

Slot == 0..(NumSlots - 1)
Nothing == -1
\* A byte of the file that a read did not bring: the buffer keeps what it held.
Missed  == -2
RoundUp(num, amt) == ((num + amt - 1) \div amt) * amt

Init ==
  /\ pc = "idle" /\ range = [offset |-> 0, size |-> 0]
  /\ next_read_offset = 0 /\ copied_in = 0 /\ minor_offset = 0 /\ processed_reqs_cnt = 0 /\ reqs = <<>>
  /\ reserved = {} /\ b_next = 0 /\ contents = [s \in Slot |-> [i \in 0..(SegLen - 1) |-> Nothing]]
  /\ reading = {} /\ cq = <<>> /\ copies = <<>> /\ covered = {} /\ calls = 0

-----------------------------------------------------------------------------
fd_offset == range.offset - (range.offset % PageSize)
TotalMutant == RoundUp(range.size, PageSize)
\* total_copy_size
Total == RoundUp(range.size + (range.offset % PageSize), PageSize)

NextSlot == (b_next + 1) % NumSlots
\* _get_temp_buf: the next buffer has no tag and its copy is done.
Free == NextSlot \notin reserved /\ \A c \in Range(copies) : c.slot # NextSlot
Filled(bytes, off, len) == [i \in 0..(SegLen - 1) |-> IF i < len THEN off + i ELSE bytes[i]]
Without(bytes, from, to) == [i \in 0..(SegLen - 1) |-> IF i \in from..(to - 1) THEN Missed ELSE bytes[i]]

\* The piece of the range in a read of len bytes, and how it is copied.
Piece(slot, len) ==
  [slot |-> slot, src |-> minor_offset, dst |-> copied_in,
   size |-> Min({len - minor_offset, range.size - copied_in}), of |-> range.offset]

Ask(r) ==
  /\ pc = "idle" /\ calls < MaxCalls
  /\ range' = r /\ next_read_offset' = 0 /\ copied_in' = 0 /\ minor_offset' = r.offset % PageSize
  /\ processed_reqs_cnt' = 0 /\ reqs' = <<>> /\ covered' = {} /\ calls' = calls + 1
  /\ pc' \in {"loop", "piece"}
  /\ UNCHANGED <<kernel, slots, contents, copies>>

\* The loop goes on while something is left to read or to hand over.
More == next_read_offset < Total \/ Len(reqs) # processed_reqs_cnt

\* An entry is written and entered, and the request noted.
Enter ==
  /\ pc = "loop" /\ More /\ next_read_offset < Total /\ Free
  /\ LET len == Min({SegLen, Total - next_read_offset})
         piece == Piece(NextSlot, len)
     IN  /\ reading' = reading \cup {[user_data |-> Len(reqs) + 1, slot |-> NextSlot, len |-> len,
                                      off |-> fd_offset + next_read_offset]}
         /\ reqs' = Append(reqs, piece)
         /\ next_read_offset' = next_read_offset + len
         /\ copied_in' = copied_in + piece.size
  /\ minor_offset' = 0
  /\ reserved' = reserved \cup {NextSlot} /\ b_next' = NextSlot
  /\ pc' = "enter"
  /\ UNCHANGED <<range, processed_reqs_cnt, cq, contents, copies, covered, calls>>

\* IORING_ENTER_GETEVENTS waits for a completion, unless a signal interrupts it: then more
\* than one read is under way.
Entered ==
  /\ pc = "enter" /\ (cq # <<>> \/ "signal" \in Faulty) /\ pc' = "reap"
  /\ UNCHANGED <<generator, kernel, slots, contents, copies, covered, calls>>

NoEntry ==
  /\ pc = "loop" /\ More /\ ~(next_read_offset < Total /\ Free) /\ pc' = "reap"
  /\ UNCHANGED <<generator, kernel, slots, contents, copies, covered, calls>>

HandedMutant(cqe) == reqs[processed_reqs_cnt + 1]
\* The request a completion is of.
Handed(cqe) == reqs[cqe.user_data]

\* copy_from_disk: the copy is queued, and the tag of its buffer is its timeline value.
Submitted(piece) == /\ copies' = Append(copies, piece) /\ reserved' = reserved \ {piece.slot}

Covers(piece) == covered \cup {piece.dst + i : i \in 0..(piece.size - 1)}

Reap ==
  /\ pc = "reap" /\ cq # <<>> /\ Head(cq).res >= 0 /\ Head(cq).user_data \in DOMAIN reqs
  /\ Submitted(Handed(Head(cq))) /\ covered' = Covers(Handed(Head(cq)))
  /\ cq' = Tail(cq) /\ processed_reqs_cnt' = processed_reqs_cnt + 1
  /\ pc' = "loop"
  /\ UNCHANGED <<range, next_read_offset, copied_in, minor_offset, reqs, reading, b_next, contents, calls>>

ReapNothing ==
  /\ pc = "reap" /\ cq = <<>> /\ pc' = "loop"
  /\ UNCHANGED <<generator, kernel, slots, contents, copies, covered, calls>>

\* The assertion on a completion, or its index, raises; the completion stays.
ReapRaises ==
  /\ pc = "reap" /\ cq # <<>> /\ (Head(cq).res < 0 \/ Head(cq).user_data \notin DOMAIN reqs)
  /\ pc' = "raised"
  /\ UNCHANGED <<generator, kernel, slots, contents, copies, covered, calls>>

\* get_free_buf runs out of time.
WaitRaises ==
  /\ "wait" \in Faulty /\ next_read_offset < Total /\ ~Free
  /\ (pc = "loop" \/ pc = "piece") /\ pc' = "raised"
  /\ UNCHANGED <<generator, kernel, slots, contents, copies, covered, calls>>

\* Without io_uring: a piece is read through the mapping of the file.
PieceRead ==
  /\ pc = "piece" /\ next_read_offset < Total /\ copied_in < range.size /\ Free
  /\ LET len == Min({SegLen, Total - next_read_offset, FileSize - fd_offset - next_read_offset})
         piece == Piece(NextSlot, len)
     IN  /\ contents' = [contents EXCEPT ![NextSlot] = Filled(@, fd_offset + next_read_offset, len)]
         /\ copies' = Append(copies, piece) /\ covered' = Covers(piece)
         /\ copied_in' = copied_in + piece.size
  /\ next_read_offset' = next_read_offset + SegLen /\ minor_offset' = 0 /\ b_next' = NextSlot
  /\ UNCHANGED <<pc, range, processed_reqs_cnt, reqs, kernel, reserved, calls>>

Return ==
  /\ \/ pc = "loop" /\ ~More
     \/ pc = "piece" /\ (next_read_offset >= Total \/ copied_in >= range.size)
  /\ pc' = "returned"
  /\ UNCHANGED <<generator, kernel, slots, contents, copies, covered, calls>>

GoOn ==
  /\ pc \in {"returned"} \cup (IF Again THEN {"raised"} ELSE {}) /\ pc' = "idle"
  /\ UNCHANGED <<generator, kernel, slots, contents, copies, covered, calls>>

-----------------------------------------------------------------------------
\* The kernel completes a read.  However many bytes it brought, the code only looks at
\* res >= 0.
Complete(r) ==
  /\ LET all == Min({r.len, FileSize - r.off})
     IN  \E len \in {n \in 0..all : all - n \in Cut} :
           /\ contents' = [contents EXCEPT ![r.slot] = Without(Filled(@, r.off, len), len, all)]
           /\ cq' = Append(cq, [user_data |-> r.user_data, res |-> len])
  /\ reading' = reading \ {r}
  /\ UNCHANGED <<pc, generator, slots, copies, covered, calls>>

ReadFails(r) ==
  /\ "read" \in Faulty
  /\ cq' = Append(cq, [user_data |-> r.user_data, res |-> -1]) /\ reading' = reading \ {r}
  /\ UNCHANGED <<pc, generator, slots, contents, copies, covered, calls>>

\* The device runs the next copy.
Copy ==
  /\ copies # <<>> /\ copies' = Tail(copies)
  /\ UNCHANGED <<pc, generator, kernel, slots, contents, covered, calls>>

Host ==
  \/ Enter \/ Entered \/ NoEntry \/ Reap \/ ReapNothing \/ ReapRaises \/ PieceRead \/ Return \/ GoOn

Next ==
  \/ \E r \in Ranges : Ask(r)
  \/ Host \/ WaitRaises \/ Copy
  \/ \E r \in reading : Complete(r) \/ ReadFails(r)

\* The host runs, the device executes, and the kernel completes every read.
FairSpec ==
  /\ Init /\ [][Next]_vars
  /\ WF_vars(Host) /\ WF_vars(Copy) /\ WF_vars(\E r \in reading : Complete(r))

-----------------------------------------------------------------------------
\* A queued copy takes from its buffer the bytes of the file that belong where it puts
\* them, and they stay there until it has run (ops_disk.py:139-154, hcq.py:641-656).  The
\* bytes a short read did not bring are the exception, which nobody notices (153).
CopiesAreRight ==
  \A c \in Range(copies) : \A i \in 0..(c.size - 1) :
    contents[c.slot][c.src + i] \in {c.of + c.dst + i, Missed}

\* A call that returns has handed over the whole range (ops_disk.py:101, 133, 146).
RangeIsCovered == pc = "returned" => covered = 0..(range.size - 1)

\* A call that returns leaves nothing in the ring for the next one, nor a tagged buffer
\* (ops_disk.py:133): its request numbers start from 0 again.
RingIsClean == pc = "returned" => reading = {} /\ cq = <<>> /\ reserved = {}

\* Every read comes to an end although it needs more pieces than there are buffers.
ReadEnds == (pc # "idle") ~> (pc \in {"idle", "raised"})
=============================================================================
