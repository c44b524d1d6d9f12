# A verification model of the tinygrad runtime

TLA+ models of the parts of tinygrad (this fork) whose correctness depends on
ordering, reuse and failure rather than on arithmetic: the runtime that drives
asynchronous devices through hardware command queues, the rings, threads and command memory
those queues are made of, the graphs replayed on them, the allocators and page tables
of device memory, the buffers and their allocation cache, the planner that lays buffers over
one another, the isolation of a call in a process, and the LLM server with the key/value cache
it reuses between requests. TLC checks the
models on small instances, and TLAPS proves the most important properties for
every instance.

All paths below are relative to the repository's source tree.

## 1. The system

tinygrad turns tensor expressions into a linear list of kernels and copies
(`tinygrad/schedule`, `tinygrad/codegen`), and executes the list through device
runtimes (`tinygrad/engine`, `tinygrad/runtime`). The compiler half is pure term
rewriting. The runtime half keeps state that the host and several devices
share; that half is what is worth modelling.

| Part | State | Operations | Interacts with |
|---|---|---|---|
| Hardware command queue runtime, `runtime/support/hcq.py` | per device: `timeline_value`, two timeline signals, `error_state`, kernargs bump pointer, staging buffers with `b_timeline`/`b_next`; per buffer: the devices that map it | launch, synchronize, copyin, copyout, copy from disk, transfer, map, free, swap of the timeline signals | all device runtimes, the disk, the graph |
| CPU device, `runtime/ops_cpu.py` | task queue, thread pool, `error_state` | submit, run, fail | synchronized by every other device first |
| Disk, `runtime/ops_disk.py` | io_uring rings, requests under way | reserve a buffer, read, hand over, time out | staging buffers of the target device |
| AMD device, `runtime/ops_amd.py` | AQL ring, PM4 indirect buffers, SDMA ring, interrupt and recovery state | publish packets, ring the doorbell, recover, invalidate caches | HCQ timeline |
| NV device, `runtime/ops_nv.py` | command buffer, GPFIFO rings | submit, bind | HCQ timeline |
| Device graph, `runtime/graph/hcq.py` | virtual timelines, kick-off signals, recorded queues | build (resolve dependencies), replay | HCQ timeline, JIT |
| JIT, `engine/jit.py` | capture counter, captured list, dependency tracker | warm up, capture, batch into graphs, replay, free | graph, memory planner |
| Allocators, `runtime/support/memory.py` | bump pointer; TLSF blocks and buckets; page tables | alloc, free, split, merge, map, unmap | buffers, planner, HCQ |
| Buffers, `device.py` | base/view links, reference counts, allocation cache, audit counters | allocate, view, copy, deallocate | allocators, HCQ |
| Memory planner, `schedule/memory.py` | lifetimes, arena offsets | plan | TLSF, JIT |
| LLM server, `llm/cli.py`, `llm/runtime_state.py`, `llm/model.py` | loaded model, `gen_lock`, `cancel_event`, prefix cache | chat, load, unload, cancel, warm up | one thread per request |
| Process isolation, `runtime/process_isolated.py`, `runtime/bridge.py` | child process, result queue, deadline | run, time out, clean up | operating system |
| Collectives, `schedule/allreduce.py` | none (pure) | ring / naive reduction plans | scheduler |

What makes each correct, in one line:

* HCQ runtime: work takes effect in program order although the queues of a device
  and the devices run independently; memory is never recycled under work that
  still uses it; waits end; a synchronize is a barrier. (modelled)
* CPU device: a signal tells that the kernels before it have ended on all their threads, an
  exception in a task reaches the host, and no later wait trusts a dropped signal. (modelled)
* Disk: a buffer is handed over once, with the bytes of its own request, and a range as a
  whole. (modelled)
* Buffers: memory has one owner, a view lies in the memory its base has now, and an allocation
  fails only when nothing cached can be given back. (modelled)
* AMD/NV command memory: indirect buffers and ring entries are not
  overwritten before the device fetched them; a drain inside a submission does
  not wait for itself. (modelled; of the packets of the AQL ring it is not true, section 4)
* Device graph and dependency tracker: every read-after-write, write-after-read
  and write-after-write pair of a batch is ordered by signals or a queue. (modelled)
* TLSF and virtual memory: live blocks are disjoint, free neighbours are merged,
  a device never reaches memory that was freed, a failed allocation gives its memory
  back. (modelled)
* Memory planner: buffers that are in use at the same time share no byte. (modelled)
* LLM server: load, unload and generation exclude one another; the registry tells
  what is loaded; a cancellation stops the generation it was meant for; a new prompt
  reuses from the cache only what is there. (modelled)
* Process isolation: one verdict per call, which is true, and no child survives it. (modelled)

The hard behaviours are listed, each at its line, in `PROJECT.json` under
`hazards`; each names the properties that would catch it, or why none does.

## 2. Modules

| Module | Models |
|---|---|
| `BumpAllocator` | `BumpAllocator.alloc` of `runtime/support/memory.py`, as operators on `ptr` |
| `HCQDevice` | `runtime/support/hcq.py`: the host thread and the queues of all devices |
| `ProgramOrder` | the abstract specification `HCQDevice` implements |
| `MCHCQDevice` | symmetry of the buffers |
| `HCQDevice_proofs` | the invariants of single devices and between devices, program order and the refinement, with their TLAPS proofs |
| `PrefixCache` | `generate` of `llm/model.py`, its cache and what is done to it between generations |
| `FreshGeneration` | the abstract specification `PrefixCache` implements: nothing is ever reused |
| `MCPrefixCache` | an attention model and one with recurrent blocks side by side |
| `PrefixCache_proofs` | the invariants of the cache and their TLAPS proofs |
| `LLMServer` | `llm/cli.py` and `llm/runtime_state.py`: the threads of the server |
| `CommandRings` | the AQL and SDMA rings and the PM4 command memory of `runtime/ops_amd.py` |
| `DeviceGraph` | `runtime/graph/hcq.py` with `DepsTracker` of `engine/jit.py` |
| `MCDeviceGraph` | three GPUs, one with two allocations |
| `TLSF` | `TLSFAllocator` of `runtime/support/memory.py`, as operators on a heap |
| `IntervalAllocator` | the abstract specification a TLSF heap implements |
| `TLSF_proofs` | what each operation keeps of a heap, and the arithmetic of sizes and pieces, for its users |
| `MemoryPlan` | `memory_plan_rewrite` of `schedule/memory.py`, over `TLSF` |
| `MCMemoryPlan` | symmetry of the buffers |
| `MemoryPlan_proofs` | the invariant of the planner and its TLAPS proof |
| `NVQueues` | the GPFIFOs of the compute and copy engines and the command memory of `runtime/ops_nv.py` |
| `MCDevice` | `CommandRings`, `NVQueues` and `DeviceGraph` side by side, with the lists that are submitted and the views of a graph |
| `Device_proofs` | the invariants of the queues of either device and of the graph, built and replayed, and their TLAPS proofs |
| `CPUThreads` | the worker and the pool of threads of `runtime/ops_cpu.py` |
| `DiskRing` | `_copyout_sharded` of `runtime/ops_disk.py` and its consumer in `hcq.py` |
| `DeviceBuffers` | `Buffer` and `LRUAllocator` of `device.py`, with `free_intermediates` of `engine/jit.py` |
| `Isolated` | `run_isolated` of `runtime/process_isolated.py`: parent, child and helper |
| `MCHost` | `DiskRing`, `CPUThreads`, `Isolated` and `LLMServer` side by side |
| `Host_proofs` | the invariants of the four and their TLAPS proofs |
| `VirtualMemory` | `MemoryManager` of `runtime/support/memory.py`, over two heaps of `TLSF` |
| `MCVirtualMemory` | page tables of three levels |
| `PageTables` | what the inductive invariants of virtual memory say of owners, tables, traversals and translations |
| `VirtualMemory_proofs` | the TLAPS proofs of these invariants and of what the device finds in the tables |
| `MCDeviceBuffers` | symmetry of buffers, memory and JITs |
| `DeviceBuffers_proofs` | the invariants of buffers, views and graphs and their TLAPS proofs |

`BumpAllocator` serves `HCQDevice` (kernargs), `CommandRings` (PM4 commands) and `NVQueues`
(command lists), as in the code. `CommandRings` and `NVQueues` open the submission that
`HCQDevice` takes as one step, `CPUThreads` the task of the CPU device, `DiskRing` the read from
a disk; `DeviceGraph` takes a replayed graph as what `HCQDevice` calls other work on the timelines.

### HCQDevice

**Host and devices.** Python runs on one host thread; the queues run on their own.
Host code between two blocking points is one action, so the interleavings are those
the program really has: device steps between any two blocking points, and nothing
inside a stretch of host code. `pc` is the blocking point: the `synchronize` of a
wrapped launch (`drain`), of the user (`sync`), of a memmove copy (`direct`), of a
read-back (`readback`) or of a free (`free`); the staging wait of `_copyin`
(`stage`); the wait of a read-back chunk (`out`); the disk loop (`disk`); and the
gap between the two submissions of a transfer (`join`). `todo` is the set of devices
still to be synchronized; the CPU devices come first, as in `synchronize`.

**Timeline.** `timeline_value` and the two signals (`signal_value[d][0..1]`, the live
one is `timeline_signal[d]`) are those of `HCQCompiled`. A submission carries its
value, the signal object it sets, and the list of waits it starts with, so that a
swap of the signals leaves old submissions pointing at the old signal as in the code.

**Queues.** A device has a compute queue and, unless it is a CPU device, a copy queue;
each is first in, first out and independent of the other. `Start` needs the waits of
the head, `Finish` sets the signal. A CPU task may raise (`CpuFault`), which drops its
signal and sets `error_state`.

**Memory.** Buffers have no contents; a submission names the kernarg bytes and staging
slots it reads, the slots it writes and the buffers it refers to. `clobbered` collects
the submissions whose operands somebody overwrote after they were queued: the host
filling kernargs or a staging slot, the disk writing a reserved slot, or a device
writing slot 0 for a read-back. Tags `1 << 64` of slots under a disk read are the set
`reserved`; a failed read leaves them behind in `leaked`.

**Abstractions.** A launch names one buffer and a `kernargs_alloc_size`. The base
address of kernargs is 0. A range of a wrapped allocation that does not even fit the
buffer is excluded by `KernargsAssumption` (kernargs are 16 MiB). The guard flags
`KERNARGS_WRAP_DRAIN` etc. have their default 1. `clock`, `no`, `touch`, `clobbered`
and `gave_up` are history variables.

### PrefixCache

**Texts.** A token's key and value depend on all tokens before it, so the content of a
slot of `cache_kv` is modelled by the text (sequence of tokens) whose last position the
entry is of, and `<<>>` for an entry that belongs to no text. `recurrent` is the text the
recurrent blocks consumed. A call of the model (`Write`) stores good entries only if all
positions it attends to hold entries of the generation's own text (`Continues`). The
sampled token is any token; what matters is `out`, the text it was computed from.

**Generation.** `Generate` is `generate` up to its loop, with the comparison with
`_cached_tokens`; `FeedBatch`, `FeedTail`, `FeedRing` and `FeedChunk` are the four branches
of the loop, each with the common end (`Emit`: append the token, assign
`_cached_tokens`, yield); `Resume` and `Finish` are the consumer's choice at a yield. A
generator that is dropped at its yield leaves the cache as it is. `prefill_v2` off is
`Ubatch > Context`. `Faulty` lets a call of the model raise, before or after its kernels
ran. `Warmup` is one action because it runs under the lock and leaves nothing but its
result; `MaxTokens` bounds a streaming text for TLC.

### LLMServer

**Threads.** Each request is a thread whose `pc` names its next access to shared state, so
two requests interleave wherever the code reads or writes `RuntimeState`, `gen_lock` or
`cancel_event`. `Check`, `Encode` and `Guard` are a chat's unlocked reads; `Acquire` and
`Clear` are `_acquire_gen`; `Stream`, `Token` and `Cancelled` are `_stream_tokens`; `Mutate`
and what follows are `_runtime_mutation`; `Reply`, `Release` and `Refuse` keep the order of
the answer and of the `finally` clause. A load changes the state in six steps, as `unload`,
`load`, `adopt` and `_register_loaded` do, and may fail between them.

**Abstractions.** A model, its tokenizer, its context and its registry row are named by one
model value; a prompt is its length. Rows are those of the registry (a load by path adds
one; not modelled). What generation does to the cache is `PrefixCache`, which the lock makes
sequential: that is what `ModelIsMine` justifies. `asked` is a history variable.

### CommandRings

**Rings.** `put` and `get` count what the host wrote and the device consumed since the
start; the code reduces them modulo the ring where it indexes, and so does the model. A slot
records the count it was written at, so a slot that was overwritten before it was read is
one whose count is not the one the device reads it at.

**Submissions.** The code takes the timeline value, then its command memory, and only then
drains or waits for room: `Exec`, `Copy`, `Replay` and `InvalidateCaches` do the first,
`SubmitCompute` and `SubmitCopy` the rest, and the device runs in between. `PrepAql` is
`_prep_aql`: runs of PM4 commands become packets that name the memory they are fetched
from, a dispatch is a packet of its own. `Laid` is `AMDCopyQueue._submit`: whole commands
up to the end of the ring, a zero fill, the rest from offset 0. A replayed graph is a queue
that was bound before: it needs ring slots and no command memory.

**The device** takes the next packet and the next command whenever its wait allows. A packet
or command has no effect but the timeline. When the host has written over a slot the device had
still to take, it takes what it finds there.

**History.** `lapped` says that this has happened, `overtaken` that caches were invalidated while a
copy was in flight. The code prevents neither (section 4), and what it promises is claimed while it
is `Orderly`: neither has happened yet.

### NVQueues

A submission takes its timeline value, then memory for its list (`Exec`; a bound queue has its
own, `Replay`), then drains if the allocator wrapped and writes list, entry and `gpput`
(`Submit`). The engines share one command memory. `put` and `taken` count from the start; `gpput`
and the device see them modulo the size of the GPFIFO, so that a full one looks empty. Lists are
their fifo and size; each begins with a wait for the value before its own.

### CPUThreads

A queue keeps a task until `task_done`, so that `join` is a guard on an empty queue. `Take`,
`Push`, `Run`, `Join` and `TaskDone` are `CPUWorker.run` on the worker; a thread of the pool takes
its share (`PoolTake`) and ends it (`PoolDone`); `Synchronize`, `Wait` and `Sleep` are the host. A
task is a wait for the value before, one or two kernels and the signal. `Raise` is a kernel that
raises or a wait that runs out of time because the signal it waits for was dropped.

### DiskRing

A byte is its position in the file. `Enter` prepares and enters a read, `Entered` is the system
call, which waits for one completion unless a signal interrupts it; `Reap` hands a completion
over and queues its copy; `ReapRaises` and `WaitRaises` are the assertion and the time-out;
`PieceRead` is the loop without io_uring. The kernel completes reads in any order (`Complete`,
`ReadFails`), the device runs copies in order. A read may bring fewer bytes than it was asked for
(`Cut`, by how many), in the middle of the file too; the buffer then keeps what it held, marked
`Missed`. Since `min_complete` is 1, more than one read is
under way only after an interrupted call. `covered` is a history variable.

### DeviceBuffers

The host is one thread. `NewBase`, `NewView`, `Allocate`, `GetBuf` (with a peer: the mapping) and
`Collect` (`__del__`) are operations on single buffers; `Ensure` is an allocation with its retry
after `FreeCache`. `Capture` and `Discard` are a JIT that keeps or drops the buffers it writes; a
replay builds its graph buffer by buffer (`Replay`, `BuildNext`, `BuildEnd`) and may fail in
between (`EnsureFails`); `FreeIntermediates` and `FreeNext` give the buffers back in the order of a
set. `_alloc` succeeds exactly when the bytes fit. `Shared = FALSE` says that `free_intermediates`
is only called when nothing else refers to the intermediates (section 4).

### Isolated

A row goes through the queue's pipe in pieces, `PipeSize` of which fit; the feeder thread writes
them (`Feed`). `parent` is where `run_isolated` is: `Loop`, `Get`, `Receive` (with no deadline),
`Join`, `Judge` and `Late` up to a verdict, `Term`, `Grace`, `Killing` and `Last` in `_stop_group`.
The child may return, raise, fail to serialize its row, exit, die, or go on for ever. It may start
a helper, which is in its process group; any process in `MayIgnore` may ignore SIGTERM. A process
that was sent SIGKILL is gone within the grace. `DiesWriting` says whether the child may die with
a part of its row in the pipe.

### DeviceGraph

**Building.** `Kernel` and `Copy` are an iteration of the loop of `HCQGraph.__init__`:
`WaitNodes` and `Access` are `DepsTracker.access_resources` with its splitting of views;
`News` drops the dependencies the queue is known to have waited for (`queue_access`),
`Known` the devices (`dev_access`), `LeftToHardware` the waits a queue keeps by itself. The
value `j + 1` in the code is the call's number here.

**Replay.** `Launch` is the host's part of `__call__`: wait for the previous replay, reset
the signals, kick. `DeviceReady`, `Start`, `Finish` and `End` are the queues: the compute
queue announces its device, calls run in the order of their queue but may overlap unless
`chained`, and `End` sets the timeline of a device after its `FinalQueues`. `OtherWork` is
what a device does between replays.

### TLSF, MemoryPlan, VirtualMemory

**Heap.** A heap is a record of the allocator's fields. `alloc` is one operator on it
(`Chosen`, `BlockFits`, `Alloc`); `free` inserts the block and merges it with its
neighbours, one iteration of a loop at a time (`MergeStep`), so that an invariant has to
hold, or to say what it excludes, in the middle. `next` of a block is left out: every
assignment in the code sets it to start + size.

**Planner.** `ReadCall` is the loop over the calls, `SortEvents` the list of events and the
heap of each lane, `Open` and `Close` an event, `Merge` the rest of a `free`. Events of the
same time and kind come in any order. `Buffer` is what `_can_plan` admits.

**Virtual memory.** `pc` names the loop a call is in: `contiguous` and `palloc` (pieces of
`valloc`), `inspect` (the look at a range before it is mapped), `map`, `unmap` and `release`.
`walk` is `PageTableTraverseContext`: `LevelDown`, `CreateTable`, `Visit`, `FreeTable`,
`LevelUp` and `LevelUpEnds` are its steps. A page table is a page of the physical heap, so
that a table freed too early shows as memory a device reaches. Memory may run out at any
`palloc`, also for a table; `lost` (history) is what a call that raised did not give back.
The shape of the tables is the code's `lvl_msb` (`LvlMsb`): entries and what they cover are powers
of two, and `VirtualMemoryAssumption` asks of it only that the last level covers a page.

## 3. Runs

| Run | Instance | Question |
|---|---|---|
| `single` | 1 device, 2 slots, 4 kernarg bytes aligned to 2, sizes 1 and 3, swap above 2, 6 submissions | is memory recycled only after its last reader, are tags right; does every operation return and all work finish |
| `groups` | 2 GPUs and the CPU device, 2 buffers, transfers, 1 slot, 3 submissions; waits of one GPU and of the CPU may expire, tasks and reads may fail | do the devices together implement program order, is freeing safe, is synchronize a barrier; what survives a failure |
| `prefix_reuse` | context 5, two tokens; micro-batch 3, chunk 2 and any prompt; or recurrent blocks and prompts of at least one token | is what is reused valid, are tokens those of a fresh computation, does the loop advance; is state that can only be reused whole reused rightly |
| `prefix_ring` | ring of 4 with 1 sink, texts up to 7, failing calls | does a generation keep its window across wraps |
| `memory_plan` | 5 buffers of sizes 3 and 10, schedules of 3 calls of up to 2 buffers, one device (two lanes) | do buffers in use together share memory, is the heap ever too fragmented, does the plan cost memory |
| `device_buffers` | 2 base buffers, 2 views, sizes 1 and 2, cached and uncached, 2 bytes of memory, 2 JITs, a peer | has memory one owner, are views, counts, mappings and graphs true to it |
| `device` | command memory of 12 dwords aligned to 4, 8 packets, 10 SDMA dwords, 5 submissions; or 2 engines with GPFIFOs of 5 and 4 entries, a command memory of 11 units aligned to 2, lists of 3 to 5 units, one bound queue, 6 submissions; or two GPUs (one in order, one chaining) and a CPU, 4 views, graphs of 3 calls, 2 replays | is an entry, a command or an SDMA dword overwritten before the device read it, is a full GPFIFO taken for empty, can a drain or a wait for room block for ever, is the timeline in order; are conflicting calls in order, devices exclusive, replays complete; do the waits form a cycle |
| `pages` | tables of 4, 2 and 2 entries over pages of 4, physical memory of 9 pages, virtual of 12, ranges of 1, 2 and 4 pages, 2 at a time | are translations right at every step, is everything given back, does the heap implement disjoint intervals |
| `host` | file of 9 bytes, pages of 2, 2 buffers of 4, every range, 2 calls, with errors, reads that end 2 bytes early, time-outs and interrupted calls; or kernels on 1 or 3 threads, two at most per task, 3 tasks, all of which may raise; or rows of 1 and 3 pieces, a pipe of 2, a helper, both may ignore SIGTERM; or a server with 2 threads, contexts 2 and 4, prompts 1 and 3, 2 tokens | is what is copied what was asked for, and all of it, and the ring clean after; does a kernel begin or a signal come before all shares have ended; is the verdict true and the child gone; exclusion, registry and cancellation of the server; does each call end and the lock come back |
| `isolated_deadline` | the same isolated process, and a child that may die while it writes | a violation: the call does not return |
| `packet_ring` | the AMD device of `device` without copies | a violation: synchronize returns with packets still queued |
| `graph_ready` | three GPUs, two allocations on one, graphs of 3 calls, one replay | a violation: a call on a device that does other work |

**Side by side.** Where "or" stands between instances they share no state: every behaviour is one
of the first or one of the second, chosen in the initial state (`part`),
and the variables of the other keep their initial values. It saves runs, and no interleaving is
lost. Properties of such a run are those of the module the MC module extends, under their own
names, or a definition of the MC module that names those of the other. A definition that joins two
properties holds when both do.

**Bounds.** `MaxSubmit` bounds the submissions of a behaviour. Kernargs wrap after two
launches, staging after `NumSlots` copies, and the timeline signals are swapped after
`WrapAt` submissions, so six submissions reach two swaps with tagged slots and a
recycled kernargs range. Transfers need two submissions each, so the three of `groups` cover a
transfer and whatever comes before it or after it; with four and waits of the CPU alone that
expire, which has two transfers, TLC finds no violation either. In `groups`, `WrapAt = 2` keeps a
signal from being swapped twice while a submission of the other device waits for it;
with `WrapAt = 1` TLC finds a deadlock, which in the code takes 2^32 submissions.

A context of 5 with micro-batches of 3 has prompts that take a whole micro-batch, a shifted
last one (`FeedTail`), or chunks; two tokens suffice for two texts to agree or differ at
each position. A ring of 4 with one sink wraps twice within 7 tokens. Two threads are a
holder of the lock and one that is refused, cancels, or reads while a load is under way (the
proofs cover any number); prompts of length 3 fit the large model and not the small one.

Five submissions wrap the command memory of 12 dwords (two or three allocations) and both rings,
with commands of two lengths so that the end of a ring cuts them differently. Three programs of three
packets overrun the 8 slots of the ring before the command memory wraps, as small kernels do in the
code; `device` follows every behaviour up to there, and `packet_ring` beyond.
Three calls are the least in which a wait is implied by another queue's wait and pruned; the
views of the graph in `device` overlap in part, so that records are split. Three calls with two
buffers each let five buffers live side by side, end together, and be reused; the sizes 3 and
10 fall into different buckets and are not multiples of a block. Nine pages of physical
memory run out after each number of pieces and tables; two ranges of up to 4 pages share
tables and cover a whole one.

Six submissions wrap the NV command memory two or three times and come round a GPFIFO;
`FifoGuarded` holds as it does for the compute and copy engines in the code (2 MB of command memory
hold at most 43690 lists, a GPFIFO has 65536 entries). Three tasks are one
that raises, one that waits for its dropped signal and one more; three threads are two of the
pool, which may lag by different amounts. A file of five pages has ranges of up to three pieces
for two buffers, with every alignment of both ends, the last piece cut by the end of the file; any
read may be short.
Two bytes are filled by one buffer of two or two of one, so that the cache has to be given up;
two JITs share buffers. A row of three pieces does not fit a pipe of two.

**Fairness.** In `HCQDevice` (`FairSpec`) the host thread goes on when it can (weak fairness of
`HostContinue`), and each device executes (weak fairness of its steps). Waits are
assumed not to expire in `single`, so a hang would be a real one. Nothing forces the
program to begin an operation. `PrefixCache` assumes weak fairness of the loop's
iterations, which wait for nobody. `LLMServer` assumes weak fairness of every thread that
serves a request: the operating system schedules it and a call of the model returns or
raises. No request needs to arrive, and fairness of `Acquire` is no assumption about the
lock, because a refused request is answered at once. `CPUThreads` lets every thread run, and shares
end or raise. `DiskRing` lets the host run, the device copy and the kernel complete each read.
`Isolated` lets the parent run, time pass, signals arrive and a feeder thread go on; nothing makes
the callback end. The other modules claim safety only; that nothing can hang is the invariant
`NeverStuck` of `CommandRings`, `NVQueues` and `DeviceGraph` (where there is something to wait for, somebody can take a step), which needs no fairness.

**Properties.**

* `OperandsIntact`, `TagTellsSafe`, `NoUseAfterUnmap`: memory of the runtime is recycled only
  after its last reader. `SyncIsBarrier` and the refinement `InProgramOrder`: order. `WorkEnds`:
  progress (`HostReturns`, `WorkDrains`). `RunsInProgramOrder` and `TimelineStepsByOne` are proved
  and not spent a run on.
* `ReuseIsValid` (`RecurrentReuseIsValid` of the model with recurrent blocks), `WindowKept` and the refinement `GeneratesFresh`: what a
  generation skips is in the cache. `TokenComes`: its loop advances.
* `ModelIsMine`, `RegistryTellsLoaded`, `CancelledWasAsked`, `LockComesBack`: the server.
* `LifetimesDisjoint`, `PlanPaysOff` (`PlanSucceeds`, `ArenaNeverGrows`), `HeapsConsistent`: the
  planner and its heaps.
* `ReachesOnlyItsOwn` (`TranslatesRight`, `NothingReachesFreedMemory`, `AssertionsHold`),
  `EverythingAccountedFor` and the refinement `PhysicalIsIntervals`: virtual memory.
* `EachHasOneOwner` (`MemoryHasOneOwner`, `OnlyOwnersAreMapped`), `ViewsFollowBases` (`ViewsAreFresh`,
  `ViewsAreCounted`), `FailsOnlyWhenFull`, `GraphsAreFresh`: buffers, their cache and the graphs that
  remember them.
* `EntriesIntact` (NV), `CommandsIntact` (of both, with `CommandMemoryIntact`), `CopyCommandsIntact`
  (AMD): what a device reads is what was written for it.
  `TimelineInOrder`: two queues, one timeline. `QueuesGoOn` (`NeverStuck` of both): the host never
  waits for itself.
* `ConflictsInOrder`, `DevicesExclusive`, `ReplaysEnd` (`ReplayWhole`, `NeverStuck`): the graph.
* `CopiesAreRight`, `ReadsAreWhole` (`RangeIsCovered`, `RingIsClean`): reads from a disk.
  `KernelsInOrder` (`OneKernelAtATime`, `SignalIsTrue`): threads of the CPU device keep the order of
  commands, also after a task that raised. `VerdictIsTrue`, `ChildIsGone`: process isolation.
  `CallsEnd` (`ReadEnds`, `SyncEnds`, and that an isolated call returns): nobody waits for ever.

Each has a mutant, a definition `...Mutant` in front of the one it changes: for instance a
free that synchronizes one of two devices, a swap that keeps the old signal value, a token
recorded before it was fed, a refused request that releases the lock, a drain of the command
memory that waits for the submission itself, a dependency on the call after the last, a
table freed while it has entries behind the ones just cleared, a merge that does not tell
the block behind it.

## 4. What does not hold

Three disagreements of the code with its own comments are runs, and findings in `PROJECT.json`:

* **A graph runs on a device that is not ready** (`graph_ready`). A queue that waits for a call
  of another queue takes over everything `dev_access` says of that queue (hcq.py:279), also the
  devices it waited for only after that call (hcq.py:286), and then leaves out its own wait. The
  comment at hcq.py:63-65 promises exclusive access. With the views of `device` and three
  calls it does not happen; it needs a queue with two calls of which only the second waits.
* **Packets are overwritten in the AQL ring** (`packet_ring`). No code looks at how far the device has
  come; `ops_amd.py:515` only asserts that one submission is smaller than the ring. What holds the
  host back is the drain of the command memory, and it comes too late for small kernels: the 16 MB
  of commands hold some 104857 programs of about 160 bytes, with three packets each, and the ring has
  262144 packets. The drain of the kernargs (hcq.py:369) comes too late as well: a kernel of up to
  eight buffers has 64 bytes of them (renderer/amd/elf.py:129, ops_amd.py:668), so that 262144 fit in
  16 MB; at the 256 bytes that the comment at hcq.py:367 counts with it would come in time. A host
  87382 small kernels ahead writes over packets the device has not taken, the device takes the later
  ones in their place, and the timeline reaches its last value early: `synchronize` returns with work
  still queued, against `device.py:613`.
* **A hard deadline that a row can outlast** (`isolated_deadline`). The time-out of `queue.get`
  covers the wait for a row's first bytes only. A child that dies while the thread behind its queue
  writes a large row leaves a part of it in the pipe. The parent, which holds the pipe's writing end
  itself, then waits for the rest past its deadline, for ever. Reproduced with the program: a child
  killed in the middle of its row kept its parent far beyond `timeout_seconds`.

The following show in the models and are not among the runs. Each is found by TLC with the
change of a `.cfg` that is named.

Runtime (`HCQDevice`: one device that is in `Expires`, `NumSlots = 2`, `KernargsCap = 2`,
`KernargsAlign = 1`, `KernargsSizes = {1}`, `WrapAt = 8`, `MaxSubmit = 4`):

* **A drain that raises disarms the guard of its own wrap** (`KernargsNeverRecycledInFlight`).
  `fill_kernargs` advances the bump pointer before it drains. If the drain times out the
  exception leaves `__call__`, but the pointer already stands at the start of the buffer. The
  next launch does not wrap, so it neither drains nor is audited, and it fills bytes that a
  dispatch in flight still reads. `OperandsIntact` therefore excludes devices on which a wait
  was given up (`gave_up`).
* **A slot of a failed disk read stays reserved** (`leaked`). Its tag `1 << 64` is reached by no
  submission, so each later staging wait for it runs out of time, until a swap of the timeline signals
  resets the tags. `WorkEnds` is checked where no read fails.
* **A read-back that is given up is still in flight** (`TagTellsSafe`). `_copyout` never tags
  staging buffer 0. After its wait raises, the tag says the buffer is safe, and the next copy
  through it races the device's write.

Prefix cache and server:

* **A wrapped ring is reused as if it were whole** (`PrefixRing.cfg` with `Faulty = FALSE`,
  `ReuseIsValid`). `_cached_tokens` names the whole text of a streaming generation, the evicted part
  included; a prompt that shares its beginning skips positions whose slots were overwritten.
* **A call that raises leaves a wrong `_cached_tokens`** (`PrefixReuse.cfg` with `Context = 4`,
  `Ubatch = 2`, `Faulty = TRUE`, `ReuseIsValid`). It wrote into the cache, but the assignment
  comes after the token; the server answers the error and keeps the model.
* **An empty prompt** makes `generate` reset the recurrent state and then raise (`toks` cannot
  be bound to 0), while `_cached_tokens` keeps the old text (`PrefixReuse.cfg` with
  `RecurrentMinPrompt = 0`, `RecurrentReuseIsValid`).
* **The context guard is not under the lock** (`Host.cfg`, `PromptFits` of `LLMServer`). A load in between
  changes the model, and with it context and tokenizer.
* **A cancellation between `acquire` and `clear`** is answered `busy` and lost; the other
  direction is safe (`CancelledWasAsked`).

AMD queues:

* **`invalidate_caches` overtakes copies** (`Device.cfg` with `AqlSlots = 100`, `SyncIsBarrier`; without
  `Orderly`, `TimelineInOrder` and `NeverStuck` fail too). Its submission has no wait
  (ops_amd.py:1220), so it sets its value before the copy queue has reached the one before, and a
  signal goes back later. `time_call` (realize.py:271) calls it without a synchronize. Programs in
  flight it cannot overtake, since it is in the same ring: nothing fails as long as no copy is in
  flight.
* **A copy submission longer than half the ring** may pass `ops_amd.py:602` or not, by where it
  begins; `CopyAssumption` excludes it.
* **A drain that raises** has taken its timeline value, which no submission will signal: as
  above in `HCQDevice`, and why `CommandRings` has no waits that run out of time.

NV queues:

* **The GPFIFO of the video engine is not guarded.** As in the AQL ring, an entry is written
  without a look at the device. For the compute and copy engines the drain of the command memory
  comes round first (`FifoGuarded`): a list of a kernel takes at least 48 bytes of 2 MB, so at most 43690 entries of
  65536 are in use. The GPFIFO of the video engine has 2048 entries (ops_nv.py:726), while the list
  of a frame takes some 150 to 400 bytes, so that more than 5000 fit in the command memory, and a host
  that gets 2048 frames ahead makes the GPFIFO look empty. That engine is not modelled. When the size of the
  memory is no multiple of the alignment one more list may begin at its end, so the bound counts the
  rounded size; the proof needs it. The sizes of the code are multiples.

Process isolation:

* **A group that is not cleaned up** (`IsolatedDeadline.cfg` with `DiesWriting = FALSE` and
  `MayIgnore = {"helper"}`, `GroupIsGone`). process_isolated.py:4 promises "process group cleanup", but
  `_stop_group` sends SIGKILL to the group only if the child itself survives the grace of SIGTERM
  (69). A helper that ignores SIGTERM runs on when the child does not; the program was seen to do the
  same. Nor does a signal reach a child that has not yet called `setsid`, but that one is killed by
  name (72).

CPU device:

* **An error of a thread of the pool is lost.** `CPUWorker.run` stores it on `self.dev`, which for
  a thread of the pool is the worker and not the device (ops_cpu.py:27, 40). The worker goes on, the
  task signals, and no synchronize raises; `CPUThreads` counts such a share as ended.

Disk:

* **What a call that raised leaves in the ring** (`Host.cfg` with `Again = TRUE`). The entry
  of a failed read is not consumed, so every later read through the ring raises (`ReadsAreWhole`). A
  call that ran out of time may leave a read under way, whose completion the next call takes for
  its own request of the same number (`MaxCalls = 3`, `CopiesAreRight`).
* **A short read passes as complete.** The code looks at `res >= 0` only (ops_disk.py:153), so that a
  read the kernel cuts short in the middle of the file leaves old bytes in the buffer, which are
  copied to the device. `CopiesAreRight` excuses exactly these bytes (`Missed`); with `Cut = {0, 2}`
  and without the excuse it fails at the first such read.

Buffers:

* **`free_intermediates` on buffers somebody still uses** (`DeviceBuffers.cfg` with
  `Shared = TRUE`: `ViewsFollowBases` and `GraphsAreFresh` fail). A view of
  a base that is given back passes `is_initialized` once the base is allocated again, with the
  memory the base had before; a graph of another JIT keeps the old addresses.
* **`deallocate` does not synchronize peers.** It unmaps the buffer from them (device.py:177-179)
  while their queued kernels may still use it; `HCQAllocatorBase._free` synchronizes before it
  unmaps, and with the allocation cache it is not even called.

Device graph:

* **A copy from a CPU's memory** is enqueued on the destination's queue, and the CPU's final
  signal waits only for queues of devices that copy to it or are it: `End` of the CPU may come
  while the copy still reads its memory (`Device.cfg` with `Shared = {cpu}`,
  `DevicesExclusive`). `ReplayWhole` holds because the destination waits.

Virtual memory:

* **Tables are left behind** (`Pages.cfg`, `TablesReachable`). A range of 16 bytes in
  pages of 4, mapped as pieces of 8, 4 and 4, has a page entry and a table entry in the same
  parent. `unmap_range` goes down only while the first entry is a table (memory.py:164); at the
  page entry it takes both entries in one visit (166) and clears them (227), so the child table
  is neither visited nor freed. Translations stay correct; the page is lost.
* **A failed `valloc` loses its virtual range** when it runs out of physical memory
  (memory.py:241), and its pieces as well when there is no contiguous block or no page for a
  table. `EverythingAccountedFor` counts these in `lost`.

## 5. Proofs

`HCQDevice_proofs` proves, from the named assumptions of `HCQDevice` alone:

* `TypeCorrect`: `Spec => []TypeOK`, with `HostOK` (what the host remembers at each
  blocking point) as strengthening.
* `OperandsStayIntact`: `Spec => []OperandsIntact`.
* `NeverUsedAfterUnmap`: `Spec => []NoUseAfterUnmap`.
* `TimelineCounts`: `Spec => TimelineStepsByOne`.
* `TagsTellSafe`: `Spec => [](Expires = {} => TagTellsSafe)`; without the condition it
  is false (section 4).
* `ProgramOrderKept`: `Spec => []RunsInProgramOrder`.
* `SynchronizeIsBarrier`: `Spec => []SyncIsBarrier`.
* `ImplementsProgramOrder`: `Spec => InProgramOrder`, the refinement.

None of these properties is inductive. `IInv` speaks of one
device at a time and has five parts besides the types. `QueueInv` is the heart: the
values queued on a device are distinct, lie between its signal and `timeline_value`, use
the live signal, and each waits for its predecessor's value; hence only the next value
can be running, and a signal that has reached `timeline_value - 1` means an idle device
(`DrainedIdle`). `BlockInv` carries that fact from the synchronize to the end of the
operation. `SlotInv` says a slot's tag is at least the value of every queued reader, so a
slot that looks free is unused (`FreeSlotUnused`). `OperandInv` says kernarg bytes in use
lie below the bump pointer except while a wrapped launch drains, and that only a
read-back under way writes a slot. `MapInv` is `NoUseAfterUnmap` with what the host needs
to keep it.

`OInv` relates two devices. `NumberInv`: program order agrees with
the values of each device. `JoinInv`: while the copy of a transfer is queued at its
source, the join is queued at its destination and cannot have started, or is the next
thing the host submits; this is why a synchronize of the destination covers the copy.
`WaitInv`: a transfer waits for everything submitted earlier to its destination, on the
signal object that work will set. `CpuInv`: a CPU device has one queue, so a task that
raises is the oldest. Swaps of the signals keep all of them because a device is swapped
only when idle. `RunsLast` puts them together, and the refinement needs nothing more:
a submission leaves a queue only as the oldest of all that share a device with it
(`LeavesLast`).

There is one lemma per action or kind of step (`StepKinds`). TLC checked `IInv` and
`OInv` on the instances of the runs before they were proved.

`PrefixCache_proofs` proves, for every context length, chunk, micro-batch and ring size:

* `TypeCorrect`: `Spec => []TypeOK`.
* `ReuseIsSound`: `Spec => [](Lossless => ReuseIsValid)` and `ReuseIsInvisible`, the
  refinement `GeneratesFresh`, under `Lossless`: no streaming, no failing call, and no empty
  prompt for a recurrent model. Each condition is needed (section 4).
* `WindowIsKept`: `Spec => WindowKept`, with streaming and failing calls.

`TypeInv` adds how far a generation is (`Progress`): after a yield exactly the last token is
not fed. `CacheInv` is the reason for the first two: between generations the cache holds
`_cached_tokens`, during one the text before `start_pos`. `WindowKept` needs no
invariant beyond the types, but the arithmetic of the ring: positions of a window never share a
slot (`ModDistinct`).

`TLSF_proofs` is about the heap alone: what each operation of `TLSF` keeps. `HeapInv` says that blocks have a size of at
least 1 (`HeapType`), that they lie in the space and no two overlap (`Tiles`), that a bin lists
each free block of its bucket once and nothing else (`BinsOK`), that the block before another
ends where that one starts, but for the block behind a merge under way (`Links`), and that the
block being merged is free (`MergingFree`). `NewHeapInv`, `FreeKeeps`,
`MergeKeeps` and `AllocKeeps` are the operations (a merge gives nothing back that is handed
out, an allocation takes exactly the interval it returns), `ChosenFree` says what `alloc`
chooses is a free block, and `TakenApart` that blocks handed out are disjoint. What `alloc`
adds is any interval of the chosen block, so aligned requests are covered.

Its second part proves the other half, `HeapShape`: there is a block at 0 and behind every
block but the last (`Contiguous`), only the first has none before it (`Rooted`), `entries`
holds the number of free blocks of each first level (`Counted`), and two free neighbours exist
only around the block a merge is at (`Separated`). The last needs the path of the merge: it
goes left as far as it can, so the pairs left to join are behind the block it stands on, or in
front of it until it moves. Counts follow from how the sets of free blocks differ. `ShapeIsOK`
concludes the checked `HeapOK` from `HeapInv` and `HeapShape`.

Its third part is arithmetic. What a shift or `bit_length` does to a size is a matter of `2^k`, whose
rules need no induction: `2^k` is the number of subsets of `1..k` (`Powers`), and the least number
without a property does the rest (`LeastNat`, `PowersGrow`, `PowersDivide`). So the levels of a size
are its place (`LevelsAre`), the size `alloc` searches for is less than twice the request
(`SearchIs`), and a block is in a bucket from there on exactly if it is as large (`BucketsFit`).

`MemoryPlan_proofs` uses all that for schedules of any length, any buffers, sizes and lanes:
`TypeCorrect`, `LifetimesStayDisjoint` (`Spec => []LifetimesDisjoint`), `HeapsStayConsistent`
(`Spec => []HeapsConsistent`) and `PlanningPaysOff` (`Spec => []PlanPaysOff`). Their invariant is
`HeapInv` and `HeapShape` of every lane; that events are handled in order (`Sorted`), that a buffer has
an offset once its lifetime is open (`Opened`), and that each buffer whose lifetime is open has a
block of its own that is large enough (`LiveTaken`, `LiveDistinct`). That no allocation fails is
`SumInv`: no block of a lane starts, and none that is handed out ends, behind the bytes of the buffers
opened there so far. So the last block of the arena is free and, because the arena is twice the bytes
of all buffers, larger than twice any request still to come: `SomeBlockFits` finds it, or an earlier one,
where `alloc` looks. The theorems rest on nothing but the types of the constants, that the
buffers are finitely many, and that the size of a block has no fewer bits than `l2_cnt`. Sums over
sets of buffers are those of `DeviceBuffers_proofs` (`SumStep`, `SumGrows`).

`VirtualMemory_proofs` proves, for page tables of any shape, memories and ranges of any size, and any
`palloc_ranges`:

* `VirtualMemoryInvariant`: `Spec => []IInv`.
* `VirtualMemoryAccounted`: `Spec => []EverythingAccountedFor`.
* `PhysicalImplementsIntervals`: `Spec => PhysicalIsIntervals`, the refinement.
* `VirtualMemoryTables`: `Spec => []TInv`, and from it
* `DeviceReachesOnlyItsOwn`: `Spec => []ReachesOnlyItsOwn`, all three parts of it.

The invariants are in `PageTables`.

`IInv` has, besides types and the `HeapInv` and `HeapShape` of both heaps, an account and a tree. The
account: each range handed out of the virtual heap belongs to one mapping, one loss or the call under
way (`RangesOwned`), each block of the physical one to one piece of these or to one page table
(`PiecesOwned`), so a block is owned once and nothing that is freed is still named. The tree: an
entry leads to a table one level below it, no two entries lead to the same (`TablesOK`), and the stack
of a traversal is the way from the root to where it stands (`WalkOK`), with the indices that belong to
the address it has reached (`Position`) and with enough of the range left for what the loop is going to take. So a
traversal frees a table only when it has just left it, empty, and clears the entry that led there in
the same step. `PageIs` and `CoversAre` are the arithmetic of the levels.

`TInv` is `IInv` with `Steady`, which says what the tables lead to. A tree (`Tree`) has the root and the tables
that entries of its tables lead to, each with a number, the count of tables of its level before it in
the order of addresses; so two tables of a level with one number are the same, and an address is under
one entry of a level (`Under`) by dividing. Each range is mapped in part or as a whole (`PartsOf`): a call that
maps has come as far as its traversal, one that unmaps is left with what is in front of it. `Right`: every page
entry maps addresses of one part, each to its own place in the pieces of the range. `Covered`: every address of
a part in use is under a page entry. `Met`: every table but the root is on the way of a mapped address,
or in the stack of a traversal that is about to write its first entry or has cleared its last one (`Excused`).
`Covered` counts mappings only, the other two also what is `lost`, since its entries stay. No step is
easy on its own: a table created, a run of entries written or cleared, and a table given back each change
the tree, its numbers or both, and the parts at once.

From `TInv` follow the parts of `ReachesOnlyItsOwn`. `TranslatesStand`: the walk of the device goes down the tree by the
numbers and ends at the page entry that `Covered` promises and `Right` makes the right one; the pages of a
mapping are its pieces laid one after the other, which `FlattenSeq` builds by recursion and `Flat` and `Spread`
describe by position. `NothingFreedStands`: a table of the tree is a block its heap has handed out,
and so is each page an entry names, because its piece is. `AssertionsStand`: what a traversal has come to in front of
it is free when it maps, and mapped to the end of the run when it unmaps; that blocks are as large as asked,
and aligned, comes from `ChosenFits` of `TLSF_proofs`. The first two need that a range
that is unmapped starts at a page (`Aligned`), kept beside `TInv`.

`Host_proofs` proves, for every behaviour of `MCHost`, of its parts one by one (a step of one part leaves the variables of
the others alone):

* `VerdictsAreTrue` and `NoChildLeft` (`MCSpec => []VerdictIsTrue`, `[]ChildIsGone`) for rows and pipes
  of any size, any helpers and any processes that ignore SIGTERM.
* `KernelsStayInOrder` (`MCSpec => []KernelsInOrder`) for any number of threads and tasks, all of
  which may raise.
* `CopiesStayRight` and `ReadsStayWhole` (`MCSpec => []CopiesAreRight`, `[]ReadsAreWhole`) for any
  file, page size, buffers, ranges and short reads, under `Again = FALSE`: no call follows one that raised, which
  section 4 shows to be necessary.
* `ServerKeepsShape`, `ModelStaysMine`, `RegistryStaysTrue` and `CancelsOnlyAsked` (`MCSpec =>
  []Server!TypeOK`, `[]ModelIsMine`, `[]RegistryTellsLoaded`, and `CancelledWasAsked`) for any number of threads and
  models.

The verdict rests on the pipe: what was received and what is on its way are the beginning of the
row, so a whole row was sent by the child, whose exit code is then the one its callback chose. The
threads rest on `busy`: each share of the current kernel is counted once, by the thread that runs it or
has still to take it. The reads rest on the way of a piece: its bytes are those its request
asked for, a buffer belongs to one request from its reservation to its release, requests and completions
match one to one, and the pieces handed over cover the range from its beginning without a gap.

For the server `IInv` says that the lock is held exactly by the thread in the critical section (`LockInv`), what each
step of a load or unload finds (`Changing`; `Settled` otherwise), and that a cancellation a
generation can see was meant for it (`CancelInv`). Steps are proved by kind (`OutsideMoves`,
`QuietMoves`, `EnterMoves`, `LifecycleMoves`).

`Device_proofs` proves, for every behaviour of `MCDevice`:

* `EntriesStay` (`MCSpec => []EntriesIntact`), for the NV device.
* `CommandsStay` and `QueuesRunOn` (`MCSpec => []CommandsIntact`, `[]QueuesGoOn`), for both devices.
* `CopyCommandsStay` (`MCSpec => []CopyCommandsIntact`), `TimelineStaysInOrder`
  (`MCSpec => TimelineInOrder`) and `SyncStaysBarrier` (`SyncIsBarrier` as long as it is `Orderly`), for the AMD device.
* `NVCommandsStay` and `NVGoesOn` (`MCSpec => []NV!CommandsIntact`, `[]NV!NeverStuck`), the NV halves
  of two of them.
* `GraphKeepsShape`, `ConflictsOrdered` (`MCSpec => []ConflictsInOrder`), `WholeAtTheEnd` (`MCSpec =>
  []Graph!ReplayWhole`), `NoDeadlock` (`MCSpec => []Graph!NeverStuck`) and `ReplaysGoOn` (both at once, as the
  run checks them), for graphs of any length over any views on any devices. `DevicesExclusive` is not proved;
  it is false in general (section 4).

Of an AMD device, `CommandsIntact`, `QueuesGoOn`, `TimelineInOrder` and the barrier are claimed while
it is `Orderly`, after which they are false (section 4); `CopyCommandsIntact` always. The sizes are any
that satisfy `SizeAssumption` (a submission is smaller than the ring and fits the command memory) and
`CopyAssumption` for AMD and `NVAssumption` for NV. Programs, graphs and copies are any lists of
commands, and caches may be invalidated at any time.

`AMDInv` has three arguments. *Time*: `Timeline` says of the packets and SDMA commands still to be
taken that each value between the signal and the last is in one of the two queues and is
signalled there, that a queue holds its values in order, and that a command waits for the value before
its own or follows a command that does. So the first command of one of the queues is next
(`HeadIsNext`), whatever may run is next (`Ran`), and a new submission keeps this (`Joined`); order,
progress and the barrier follow. An invalidation does not wait, but it is behind every packet of its own
ring and finds no SDMA command in flight (`AMDWaits`). *Packets*: `AMDPackets` says that a packet still
to be taken is in the slot of its count. It is kept because the host has lapped the device exactly if it wrote
over such a slot. *Commands*: `AMDMemory` says that what a packet
fetches lies below `Low`, the end of what may still be fetched, and is still its own, `AMDCopies` that each dword of the SDMA ring still to
be read belongs to a command that is whole and does not cross the end, with zero fills only
in front of a command; that holds whatever becomes of the timeline (`AMDBase`), the rest while the device is
`Orderly` (`AMDOrder`).

`NVInv` says
that entries a GPFIFO has still to give are those of its lists with the values between
signal and `timeline_value`, each list with memory of its own below the bump pointer, unless the
host drains. `RoomInv` is the argument by which a GPFIFO nobody looks at has room: entries not taken name
disjoint aligned pieces of the command memory or a bound queue each, so there are no more of them than
pieces, and `FifoGuarded` leaves an entry free.

The invariant of the graph has two halves. While it is built: the records of the tracker are calls
that really wrote or read those bytes, and the last writer of every byte, with every reader
since, is still recorded however views were split; what `queue_access` says a queue has
waited for is implied by waits it has; hence every earlier call in conflict is waited for,
directly or through others (`ConflictsWaited`). During a replay: calls of a queue start in
order, a started call's waits are over, a signal holds a number only when that call is done,
and a device has ended only when its queues have (`InQueueOrder`, `WaitsOver`, `SignalsTrue`,
`EndedDone`). "Through others" is a chain of any length, for which one would use induction on
the number of the call. The induction theorems cannot be instantiated here, so the bounded
statement is itself a conjunct of the invariant and grows with each call added (`Bounded`).
`NoDeadlock` takes the first call that is not done, found as the least element of a set of
numbers.

`DeviceBuffers_proofs` proves, for any buffers, views, peers, memory and JITs:

* `MemoryKeepsOneOwner`: `Spec => []EachHasOneOwner`, whatever is freed when.
* `FailsWhenFullOnly`: `Spec => []FailsOnlyWhenFull`, whatever is freed when, if there are no fewer
  addresses than bytes.
* `ViewsStayWithBases` and `GraphsStayFresh`: `Spec => []ViewsFollowBases` and `[]GraphsAreFresh` under
  `Shared = FALSE`: intermediates are freed only while nothing else refers to them, without which
  both are false (section 4).

`MemoryInv` is types and `OwnerInv` (an allocated buffer or a slot of the cache is the only one to
name its memory, and all of it is held) with `MapsRight` (peers map what buffers that know them
have). It is kept by any sequence of allocations and frees that an action makes. `JitInv` says what a
captured list and its graphs name; `ViewInv` that a view that is initialized has the memory
of its base and is counted there once; `CallInv` what `free_intermediates` is about to free
(`Freed`) and what a call of a graph has built (`Built`). `SizeInv` says that the device has handed out
what the buffer or the slot that names it needs; the cache given back, what is handed out adds up to
the sizes of the buffers in use (`BytesInUse`). The induction theorems of the library take an operator,
which cannot be instantiated, but the well-foundedness of inclusion does not: the sums are those of a
function over the subsets of a finite set that exists, and is unique, because a smallest subset
without one would be a contradiction (`AddsExists`, `AddsUnique`), and likewise for what is said of
them (`SetInduction`).

The type invariants of `HCQDevice`, `LLMServer`, `DeviceGraph` and `MemoryPlan` are proved and
therefore not spent a run on.

Only model-checked: the liveness properties (`WorkEnds`, `TokenComes`, `LockComesBack`, `CallsEnd`),
which need fairness; `DevicesExclusive`, which is false in general (section 4); and everything of section 4.

## 6. Not modelled

`components` in `PROJECT.json` has the reason for each part. In the modelled files:

* `hcq.py`: profiling (extra submissions of the same shape), the signal pool, symbolic launch
  values, transfers between peer groups, `finalize`.
* `ops_amd.py`: USB devices (single stepped), the PM4 ring of devices without AQL, bound SDMA
  queues (off by default), several XCCs, the packets' contents. Recovery (967-977) is left out:
  what a copy queue finds in its ring after a reset is decided by the hardware.
* `ops_nv.py`: the video engine, chains of QMDs, bring-up, reports of faults; buffers that are reallocated for local
  memory or for the decoder are freed as `HCQDevice` frees any other.
* `graph/hcq.py` and `jit.py`: profiling and performance counters, values patched into
  commands, RDMA (disabled in this fork), a swap of a timeline between replays, how `TinyJit`
  cuts a list of calls into graphs.
* `memory.py`: boot memory and reserved page table memory, fragment sizes and cache attributes
  of entries, address spaces shared by several devices.
* `model.py` and `cli.py`: loading of weights, admission of memory, the choice of kernels,
  sampling, loading by path, metrics and usage counts, the read-only pages.
* `ops_disk.py` and `ops_cpu.py`: opening and mapping of files, the setup of the ring, the read
  loop of macOS; waits of a CPU task for other devices.
* `device.py` and `realize.py`: buffers over memory of somebody else, `MultiBuffer`, pickling, the
  counters and the trace of allocations.
* `process_isolated.py`: the output and the evidence of a row.

The compiler, the tensor library, collective schedules, generated bindings (nine tenths of the
lines under `runtime/`) and device bring-up are left out for good: term rewriting over unbounded
terms, pure functions, generated constants, or register sequences whose meaning is the
hardware's.

## 7. Where it could grow

1. Recovery of an AMD device together with its SDMA ring, once it is settled what the ring
   holds after a reset.
2. Waits that run out of time in `CommandRings`, as in `HCQDevice`.
3. The batching of calls into graphs by `TinyJit`, above `DeviceGraph` and `DeviceBuffers`.
