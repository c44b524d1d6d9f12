------------------------------ MODULE MCDevice ------------------------------
(***************************************************************************)
(* The queues of an AMD and of an NV device and a graph on three devices for *)
(* TLC.  They share nothing: a behaviour is one of CommandRings, one of      *)
(* NVQueues or one of DeviceGraph.                                           *)
(***************************************************************************)
EXTENDS CommandRings

CONSTANTS Fifo, Entries, Lists, Bound, CmdqSize, CmdqAlign,
          Device, Cpu, InOrder, Chaining, Buffer, Lane, Shared, MaxCalls, MaxReplays,
          gpu1, gpu2, cpu

VARIABLES part,
          timeline_value, nv_signal, host, nv_job, ptr, cmdq, ring, gpput, nv_put, taken, nv_replayed,
          calls, written, read, last_j, queue_access, dev_access, copy_to_devs,
          replays, ready, running, done, graph_signals, ended, busy

Kernel     == <<"pm4", "dispatch", "pm4">>
TwoKernels == <<"pm4", "dispatch", "dispatch", "pm4", "pm4">>

MCPrograms == {Kernel, TwoKernels}
MCGraphs   == {Kernel}

\* wait, copy, signal, and a copy in two parts
MCCopies == {<<2, 1, 1>>, <<1, 2, 1, 1>>}

List(f, size) == [fifo |-> f, size |-> size]

MCEntries == [f \in Fifo |-> IF f = "dma" THEN 4 ELSE 5]
MCLists   == {List("compute", 3), List("dma", 4), List("dma", 5)}
MCBound   == {List("compute", 1)}

NV == INSTANCE NVQueues WITH
  MaxSubmit <- MaxSubmit + 1,
  signal <- nv_signal, job <- nv_job, put <- nv_put, replayed <- nv_replayed

\* One allocation on each device of a graph, and a view into one of them.
Whole(d) == [dev |-> d, base |-> 0, from |-> 0, to |-> 2]
OneEach  == {Whole(gpu1), [Whole(gpu1) EXCEPT !.to = 1], Whole(gpu2), Whole(cpu)}

MCLane == [d \in Device |-> 0]

Graph == INSTANCE DeviceGraph WITH signals <- graph_signals

ASSUME MCAssumption == NV!NVAssumption /\ Graph!GraphAssumption

nv_vars == <<timeline_value, nv_signal, host, nv_job, ptr, cmdq, ring, gpput, nv_put, taken, nv_replayed>>
graph_vars == <<calls, written, read, last_j, queue_access, dev_access, copy_to_devs,
                replays, ready, running, done, graph_signals, ended, busy>>

MCInit == part \in {"amd", "nv", "graph"} /\ Init /\ NV!Init /\ Graph!Init

MCNext ==
  \/ part = "amd" /\ Next /\ UNCHANGED <<part, nv_vars, graph_vars>>
  \/ part = "nv" /\ NV!Next /\ UNCHANGED <<part, vars, graph_vars>>
  \/ part = "graph" /\ Graph!Next /\ UNCHANGED <<part, vars, nv_vars>>

MCSpec == MCInit /\ [][MCNext]_<<part, vars, nv_vars, graph_vars>>

-----------------------------------------------------------------------------
\* What an engine of an NV device has still to take from its GPFIFO is what was written for
\* it, and a full GPFIFO does not look empty (ops_nv.py:134-135).
EntriesIntact == NV!EntriesIntact

\* The commands it names are still in memory (ops_amd.py:503-511, ops_nv.py:122-130).
CommandsIntact == CommandMemoryIntact /\ NV!CommandsIntact

\* No drain waits for itself, and no engine for another for ever (ops_nv.py:128-130 and
\* ops_amd.py:511).
QueuesGoOn == NeverStuck /\ NV!NeverStuck

\* Calls in conflict run one after the other, on whatever queues they are
\* (graph/hcq.py:262-289, jit.py:118-134).
ConflictsInOrder == Graph!ConflictsInOrder

\* A graph touches no device that does other work (graph/hcq.py:63-65).  No pruning of three
\* calls over these views goes wrong; over others one does (MCDeviceGraph).
DevicesExclusive == Graph!DevicesExclusive

\* A replay ends, and ends whole (graph/hcq.py:252-259, 281-333).
ReplaysEnd == Graph!ReplaysEnd
=============================================================================
