------------------------------ MODULE NVQueues ------------------------------
(***************************************************************************)
(* The command queues of an NV device, tinygrad/runtime/ops_nv.py: a GPFIFO  *)
(* for each engine, whose entries name command lists, and one command memory *)
(* the lists of all engines live in.  The memory is drained when its         *)
(* allocator wraps; of a GPFIFO nothing is checked, and the device takes it  *)
(* for empty when gpput stands where it reads.                               *)
(*                                                                         *)
(* put and taken count entries from the start; the code and the device see  *)
(* them modulo the size of the GPFIFO.                                      *)
(***************************************************************************)
EXTENDS Integers, FiniteSetsExt, BumpAllocator

CONSTANTS
  Fifo,           \* the engines: compute and dma (of vid, see FifoGuarded)
  Entries,        \* entries_count of each GPFIFO
  Lists, Bound,   \* the submissions, by fifo and size of the command list; the bound ones
                  \* lie in memory of their own
  CmdqSize, CmdqAlign, \* of the command memory
  MaxSubmit       \* bound on the number of submissions

EntriesOf(f, queues) == Cardinality({q \in queues : q.fifo = f})

\* What a GPFIFO relies on: what fits in the command memory between two drains, with one
\* replay of each bound queue, leaves an entry free.  The sizes of compute and dma see to
\* it: 2 MB of command memory (ops_nv.py:630) hold no more than 43690 lists, of 48 bytes at
\* least, and they have 65536 entries (626-627), which leaves 21845 for bound queues.  The
\* 2048 entries of vid (726) do not see to it, and vid is not modelled.
FifoGuarded ==
  /\ \A f \in Fifo : EntriesOf(f, Bound) < Entries[f]
  /\ \A q \in Lists :
       RoundUp(CmdqSize, CmdqAlign) < RoundUp(q.size, CmdqAlign) * (Entries[q.fifo] - EntriesOf(q.fifo, Bound))

NVAssumption ==
  /\ Entries \in [Fifo -> Nat \ {0}] /\ CmdqAlign \in Nat \ {0} /\ MaxSubmit \in Nat
  /\ CmdqSize \in Nat \ {0} /\ IsFiniteSet(Bound)
  /\ \A q \in Lists \cup Bound : q.fifo \in Fifo /\ q.size \in 1..CmdqSize
  /\ FifoGuarded

VARIABLES
  timeline_value, signal,
  host,      \* "idle", "drain" (of its submission), "sync"
  job,       \* the submission the host is in
  ptr,       \* of cmdq_allocator
  cmdq,      \* the submission that wrote each unit of the command memory
  ring,      \* the entries of each GPFIFO
  gpput, put, taken, \* what the device is told, put_value, and what it has consumed
  replayed   \* the timeline value of the last replay of each bound queue

ring_vars == <<ring, gpput, put>>
vars == <<timeline_value, signal, host, job, ptr, cmdq, ring_vars, taken, replayed>>

NoEntry == [at |-> -1, value |-> 0, bound |-> TRUE, offset |-> 0, size |-> 0]
NoJob == [fifo |-> "none", size |-> 0, bound |-> TRUE, offset |-> 0, wrapped |-> FALSE]

Init ==
  /\ timeline_value = 1 /\ signal = 0 /\ host = "idle" /\ job = NoJob
  /\ ptr = 0 /\ cmdq = [i \in 0..(CmdqSize - 1) |-> 0]
  /\ ring = [f \in Fifo |-> [i \in 0..(Entries[f] - 1) |-> NoEntry]]
  /\ gpput = [f \in Fifo |-> 0] /\ put = [f \in Fifo |-> 0] /\ taken = [f \in Fifo |-> 0]
  /\ replayed = [q \in Bound |-> 0]

-----------------------------------------------------------------------------
\* Whether this allocation has wrapped, and the memory before it has to be drained.
WrappedMutant(q) == FALSE
Wrapped(q) == BumpWraps(ptr, q.size, CmdqAlign, CmdqSize)

\* signal(timeline_signal, next_timeline()).submit: the value is taken, then memory.
Exec(q) ==
  /\ host = "idle" /\ timeline_value <= MaxSubmit /\ timeline_value' = timeline_value + 1
  /\ host' = "drain"
  /\ job' = [fifo |-> q.fifo, size |-> q.size, bound |-> FALSE,
             offset |-> BumpOffset(ptr, q.size, CmdqAlign, CmdqSize), wrapped |-> Wrapped(q)]
  /\ ptr' = BumpPtr(ptr, q.size, CmdqAlign, CmdqSize)
  /\ UNCHANGED <<signal, cmdq, ring_vars, taken, replayed>>

\* A queue bound to the device is submitted again once its last replay is over.
Replay(q) ==
  /\ host = "idle" /\ timeline_value <= MaxSubmit /\ timeline_value' = timeline_value + 1
  /\ signal >= replayed[q] /\ replayed' = [replayed EXCEPT ![q] = timeline_value]
  /\ host' = "drain" /\ job' = [NoJob EXCEPT !.fifo = q.fifo, !.size = q.size]
  /\ UNCHANGED <<signal, ptr, cmdq, ring_vars, taken>>

\* What was submitted before the caller took its own value.
Drained == job.wrapped => signal >= timeline_value - 2

\* The command memory of a list, or of the entry that names it.
Written(list) == IF list.bound THEN {} ELSE list.offset..(list.offset + list.size - 1)

\* The index the device is told.
NextPut(f) == (put[f] + 1) % Entries[f]

\* _submit_to_gpfifo after its drain: the commands, the entry, gpput and the doorbell.
Submit ==
  /\ host = "drain" /\ Drained
  /\ cmdq' = [i \in DOMAIN cmdq |-> IF i \in Written(job) THEN timeline_value - 1 ELSE cmdq[i]]
  /\ LET f == job.fifo
     IN  /\ ring' = [ring EXCEPT ![f][put[f] % Entries[f]] =
                       [at |-> put[f], value |-> timeline_value - 1, bound |-> job.bound,
                        offset |-> job.offset, size |-> job.size]]
         /\ gpput' = [gpput EXCEPT ![f] = NextPut(f)]
         /\ put' = [put EXCEPT ![f] = @ + 1]
  /\ host' = "idle" /\ job' = NoJob
  /\ UNCHANGED <<timeline_value, signal, ptr, taken, replayed>>

Synchronize ==
  /\ host = "idle" /\ host' = "sync"
  /\ UNCHANGED <<timeline_value, signal, job, ptr, cmdq, ring_vars, taken, replayed>>

SyncReturn ==
  /\ host = "sync" /\ signal >= timeline_value - 1 /\ host' = "idle"
  /\ UNCHANGED <<timeline_value, signal, job, ptr, cmdq, ring_vars, taken, replayed>>

-----------------------------------------------------------------------------
Sees(f) == gpput[f] # taken[f] % Entries[f]
Entry(f) == ring[f][taken[f] % Entries[f]]

\* Commands begin with a wait for the value before their own, and end with their signal.
Runnable(f) == Sees(f) /\ signal >= Entry(f).value - 1

\* An engine runs the next entry.
Run(f) ==
  /\ Runnable(f) /\ signal' = Entry(f).value /\ taken' = [taken EXCEPT ![f] = @ + 1]
  /\ UNCHANGED <<timeline_value, host, job, ptr, cmdq, ring_vars, replayed>>

Next ==
  \/ \E q \in Lists : Exec(q)
  \/ \E q \in Bound : Replay(q)
  \/ Submit \/ Synchronize \/ SyncReturn
  \/ \E f \in Fifo : Run(f)

Spec == Init /\ [][Next]_vars

-----------------------------------------------------------------------------
\* An engine takes the entries that were written for it, each once, although nobody looks
\* whether it has taken the one an entry is written over (ops_nv.py:134), and never takes
\* a full GPFIFO for an empty one (135).
EntriesIntact ==
  \A f \in Fifo :
    /\ \A n \in taken[f]..(put[f] - 1) : ring[f][n % Entries[f]].at = n
    /\ Sees(f) <=> taken[f] < put[f]

\* The commands an entry names stay in memory until they have run, whichever engine they
\* are for (the drain of ops_nv.py:128-130).
CommandsIntact ==
  \A f \in Fifo : \A n \in taken[f]..(put[f] - 1) :
    \A i \in Written(ring[f][n % Entries[f]]) : cmdq[i] = ring[f][n % Entries[f]].value

\* The drain never waits for the submission it is part of (ops_nv.py:122-127).
NeverStuck ==
  (host = "sync" /\ signal < timeline_value - 1) \/ (host = "drain" /\ ~Drained) \/ put # taken
    => \E f \in Fifo : Runnable(f)
=============================================================================
