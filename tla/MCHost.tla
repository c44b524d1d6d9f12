------------------------------- MODULE MCHost -------------------------------
(***************************************************************************)
(* What runs on the host beside its main thread, for TLC: reads from a disk, *)
(* the threads of the CPU device, an isolated process, the threads of the    *)
(* LLM server.  They share nothing: a behaviour is one of DiskRing, of       *)
(* CPUThreads, of Isolated or of LLMServer.                                  *)
(***************************************************************************)
EXTENDS DiskRing

CONSTANTS Threads, MayRaise, MaxTasks, Lengths, PipeSize, DiesWriting, Helpers, MayIgnore,
          Thread, NoThread, Model, NoModel, Limit, PromptLen, MaxNew, small, large

VARIABLES
  part,
  tasks, commands, worker, pool, busy, signal, timeline_value, error_state, host, target,
  parent, expired, row, verdict, state, leader, said, length, sent, received, code, signalled, ignores,
  model, tok, max_context, status, gen_lock, cancel_event, server_pc, want, prompt_len, gen, passed, asked

MCRanges == {r \in [offset : 0..(FileSize - 1), size : 1..FileSize] : r.offset + r.size <= FileSize}

\* a small and a large model
MCLimit == [m \in Model |-> IF m = small THEN 2 ELSE 4]

CPU    == INSTANCE CPUThreads
Call   == INSTANCE Isolated
Server == INSTANCE LLMServer WITH pc <- server_pc, len <- prompt_len, out <- passed

ASSUME MCAssumption == CPU!CPUAssumption /\ Call!IsolatedAssumption /\ Server!ServerAssumption

cpu_vars == <<tasks, commands, worker, pool, busy, signal, timeline_value, error_state, host, target>>
call_vars == <<parent, expired, row, verdict, state, leader, said, length, sent, received, code, signalled, ignores>>
server_vars == <<model, tok, max_context, status, gen_lock, cancel_event, server_pc, want, prompt_len, gen, passed, asked>>
all_vars == <<part, vars, cpu_vars, call_vars, server_vars>>

MCInit ==
  /\ part \in {"disk", "cpu", "call", "server"}
  /\ Init /\ CPU!Init /\ Call!Init /\ Server!Init
  /\ part = "call" \/ ignores = {}
  /\ part = "server" \/ model = NoModel

MCNext ==
  \/ part = "disk" /\ Next /\ UNCHANGED <<part, cpu_vars, call_vars, server_vars>>
  \/ part = "cpu" /\ CPU!Next /\ UNCHANGED <<part, vars, call_vars, server_vars>>
  \/ part = "call" /\ Call!Next /\ UNCHANGED <<part, vars, cpu_vars, server_vars>>
  \/ part = "server" /\ Server!Next /\ UNCHANGED <<part, vars, cpu_vars, call_vars>>

\* The fairness of each part, as in its FairSpec.
Fairness ==
  /\ WF_vars(part = "disk" /\ Host)
  /\ WF_vars(part = "disk" /\ Copy)
  /\ WF_vars(part = "disk" /\ \E r \in reading : Complete(r))
  /\ WF_cpu_vars(part = "cpu" /\ CPU!Host)
  /\ WF_cpu_vars(part = "cpu" /\ CPU!Worker)
  /\ \A th \in CPU!PoolThread : WF_cpu_vars(part = "cpu" /\ CPU!PoolRuns(th))
  /\ WF_call_vars(part = "call" /\ Call!Parent)
  /\ WF_call_vars(part = "call" /\ Call!Expire)
  /\ WF_call_vars(part = "call" /\ Call!Feed)
  /\ \A p \in Call!Process : WF_call_vars(part = "call" /\ Call!Deliver(p))
  /\ \A t \in Thread : WF_server_vars(part = "server" /\ Server!Work(t))

MCSpec == MCInit /\ [][MCNext]_all_vars /\ Fairness

-----------------------------------------------------------------------------
\* A call that returns has handed over its whole range and leaves the ring as it found it
\* (ops_disk.py:101, 133, 146).
ReadsAreWhole == RangeIsCovered /\ RingIsClean

\* Kernels of the CPU device run one after the other on all their threads, and their signal
\* comes after them (ops_cpu.py:37-48).
KernelsInOrder == CPU!OneKernelAtATime /\ CPU!SignalIsTrue

\* The verdict of run_isolated is that of its child (process_isolated.py:117-134).
VerdictIsTrue == Call!VerdictIsTrue

\* No child outlives run_isolated (process_isolated.py:51-75).
ChildIsGone == Call!ChildIsGone

\* A shared model is never touched by two requests at once (cli.py:122, 209-211).
ModelIsMine == Server!ModelIsMine

\* Between requests the registry tells what is loaded (runtime_state.py:231-300).
RegistryTellsLoaded == Server!RegistryTellsLoaded

\* A cancellation stops only the generation it was meant for (cli.py:97, 124, 235-238).
CancelledWasAsked == Server!CancelledWasAsked

\* Every request gives the lock back (cli.py:172, 206, 220).
LockComesBack == Server!LockComesBack

\* Reads, synchronizes and isolated calls end (ops_disk.py:133, ops_cpu.py:14-17,
\* process_isolated.py:78).
CallsEnd ==
  /\ ReadEnds /\ CPU!SyncEnds
  /\ (part = "call") ~> (parent = "done")
=============================================================================
