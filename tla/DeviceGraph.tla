---------------------------- MODULE DeviceGraph ----------------------------
(***************************************************************************)
(* A captured graph of kernels and copies on several devices,              *)
(* tinygrad/runtime/graph/hcq.py with the dependency tracker of            *)
(* tinygrad/engine/jit.py.                                                 *)
(*                                                                         *)
(* First the graph is built: each call is given a queue, the earlier calls *)
(* it has to wait for, less those it is known to have waited for already,  *)
(* and the devices that have to be ready for it.  Then it is replayed: the *)
(* queues run by themselves and only those waits keep them in order.       *)
(* Between replays the devices do other work, which the timelines order    *)
(* against the graph.                                                      *)
(*                                                                         *)
(* A queue is a device and a number, 0 for the compute queue and from 1    *)
(* for copy queues.  Calls are numbered from 1, so the value j + 1 of the  *)
(* source is the number of the call.                                       *)
(*                                                                         *)
(* A call writes one buffer and reads any number (a copy one).             *)
(*                                                                         *)
(* Not here: profiling, RDMA (removed from the code), the values patched   *)
(* into the commands.                                                      *)
(***************************************************************************)
EXTENDS Integers, FiniteSets, Sequences

CONSTANTS
  Device,
  Cpu,         \* devices without a copy queue
  InOrder,     \* those whose compute queue runs its calls one by one (AMD, QCOM)
  Chaining,    \* those that can chain a kernel to the one before (NV)
  Buffer,      \* views: [dev, base, from, to], from the offset to the end
  Lane,        \* queue_idx of the copies to a device: its index % num_copy_queues
  Shared,      \* devices that do other work between replays
  MaxCalls,    \* bound on the length of a graph
  MaxReplays   \* bound on the replays

\* Lanes are numbered from 0 and a view is not empty.
GraphAssumption ==
  /\ Lane \in [Device -> Nat]
  /\ Cpu \subseteq Device /\ Shared \subseteq Device
  /\ MaxCalls \in Nat /\ MaxReplays \in Nat
  /\ \A b \in Buffer : /\ b \in [dev : Device, base : {b.base}, from : Nat, to : Nat]
                       /\ b.from < b.to

Queue  == {<<d, 0>> : d \in Device} \cup {<<d, Lane[e] + 1>> : d \in Device \ Cpu, e \in Device}

VARIABLES
  \* the graph
  calls,        \* ji_schedule and calls: what each call does and waits for
  written,      \* w_dependency_map: [view, queue, no]
  read,         \* r_dependency_map
  last_j,       \* the last call of each queue, 0 if none
  queue_access, \* per queue: the last call of each queue it has waited for
  dev_access,   \* per queue: the devices it has waited for
  copy_to_devs, \* per device: the devices whose queues copy to it
  \* a replay
  replays,      \* kickoff_value
  ready,        \* devices whose compute queue has signalled the start
  running,      \* calls being executed
  done,         \* calls executed
  signals,      \* per queue: the number its signal holds
  ended,        \* devices whose timeline has the value of this replay
  busy          \* devices that do other work

build == <<calls, written, read, last_j, queue_access, dev_access, copy_to_devs>>
vars  == <<build, replays, ready, running, done, signals, ended, busy>>

----------------------------------------------------------------------------
(* DepsTracker.                                                            *)

Overlap(v, w) == v.dev = w.dev /\ v.base = w.base /\ v.from < w.to /\ w.from < v.to

WaitNodesMutant(out, ins) ==
  {[queue |-> x.queue, no |-> x.no] :
     x \in {x \in written : \E b \in {out} \cup ins : Overlap(x.view, b)}}

\* Earlier calls that wrote what a call accesses, or read what it writes.
WaitNodes(out, ins) ==
  {[queue |-> x.queue, no |-> x.no] :
     x \in {x \in written : \E b \in {out} \cup ins : Overlap(x.view, b)}
       \cup {x \in read : Overlap(x.view, out)}}

\* What a write leaves of an earlier record: the parts before and after it.
Kept(x, b) ==
  IF ~Overlap(x.view, b) THEN {x}
  ELSE {y \in {[x EXCEPT !.view.to = b.from], [x EXCEPT !.view.from = b.to]} :
          y.view.from < y.view.to}

\* A write hides what is older, a read is added (access_resources).
Hide(xs, b) == UNION {Kept(x, b) : x \in xs}

Access(out, ins, queue, no) ==
  /\ written' = Hide(written, out) \cup {[view |-> out, queue |-> queue, no |-> no]}
  /\ read' = Hide(read, out) \cup {[view |-> b, queue |-> queue, no |-> no] : b \in ins}

----------------------------------------------------------------------------
(* HCQGraph.__init__: one call after the other.                            *)

\* A copy is enqueued on the source, or on the destination if the source has no queue.
CopyQueue(out, in) == <<IF in.dev \in Cpu THEN out.dev ELSE in.dev, Lane[out.dev] + 1>>

DependenciesMutant(out, ins, q) ==
  WaitNodes(out, ins)
    \cup (IF last_j[q] = 0 THEN {} ELSE {[queue |-> q, no |-> last_j[q] + 1]})

\* The dependencies of a call and the previous call of its queue.
Dependencies(out, ins, q) ==
  WaitNodes(out, ins)
    \cup (IF last_j[q] = 0 THEN {} ELSE {[queue |-> q, no |-> last_j[q]]})

\* Latest first: what the queue has not waited for.
News(deps, q) ==
  {d \in deps : /\ queue_access[q][d.queue] < d.no
                /\ \A e \in deps : e.queue = d.queue => e.no <= d.no}

\* The devices a queue has waited for once it has waited for those dependencies.
Known(news, q) == dev_access[q] \cup UNION {dev_access[d.queue] : d \in news}

\* The wait for the previous call of the queue is left to the hardware.
LeftToHardware(q, copy, sync, news) ==
  \/ q[1] \in InOrder
  \/ copy
  \/ q[1] \in Chaining /\ sync = {} /\ Cardinality(news) = 1 /\ \A d \in news : d.queue = q

\* The call, with what _resolve_deps makes it wait for; a copy always signals.
NewCall(out, ins, q, copy, news, sync) ==
  LET hw == LeftToHardware(q, copy, sync, news)
  IN  [out |-> out, ins |-> ins, queue |-> q, sync |-> sync, chained |-> hw,
       waits |-> {d \in news : ~(hw /\ d.queue = q)}, signal |-> q[2] # 0]

\* Enqueue a call; the calls it waits for are made to signal.
Enqueue(out, ins, q, copy, news) ==
  LET devs == {b.dev : b \in {out} \cup ins}
      new  == NewCall(out, ins, q, copy, news, devs \ Known(news, q))
      old  == [j \in DOMAIN calls |-> IF \E d \in new.waits : d.no = j
                                    THEN [calls[j] EXCEPT !.signal = TRUE] ELSE calls[j]]
  IN  /\ calls' = Append(old, new)
      /\ Access(out, ins, q, Len(calls) + 1)
      /\ last_j' = [last_j EXCEPT ![q] = Len(calls) + 1]
      /\ queue_access' = [queue_access EXCEPT ![q] =
           [p \in Queue |-> IF \E d \in news : d.queue = p
                            THEN (CHOOSE d \in news : d.queue = p).no ELSE @[p]]]
      /\ dev_access' = [dev_access EXCEPT ![q] = Known(news, q) \cup devs]

AddCall(out, ins, q, copy) ==
  /\ replays = 0 /\ Len(calls) < MaxCalls
  /\ Enqueue(out, ins, q, copy, News(Dependencies(out, ins, q), q))

Kernel(out, ins) ==
  /\ \A b \in ins : b.dev = out.dev
  /\ AddCall(out, ins, <<out.dev, 0>>, FALSE)
  /\ UNCHANGED <<copy_to_devs, replays, ready, running, done, signals, ended, busy>>

Copy(out, in) ==
  /\ out.dev # in.dev /\ out.dev \notin Cpu
  /\ AddCall(out, {in}, CopyQueue(out, in), in.dev \notin Cpu)
  /\ copy_to_devs' = [copy_to_devs EXCEPT ![out.dev] = @ \cup {in.dev}]
  /\ UNCHANGED <<replays, ready, running, done, signals, ended, busy>>

----------------------------------------------------------------------------
(* HCQGraph.__call__ and the queues.                                       *)

FinalQueuesMutant(d) == {q \in Queue : q[2] # 0 /\ q[1] = d /\ last_j[q] # 0}

\* What the compute queue of a device waits for before it sets the timeline.
FinalQueues(d) == {q \in Queue : q[2] # 0 /\ q[1] \in copy_to_devs[d] \cup {d} /\ last_j[q] # 0}

OnQueue(q) == {j \in DOMAIN calls : calls[j].queue = q}

ResetSignals == signals' = [q \in Queue |-> 0]

\* The host waits for the previous replay, submits, resets the signals and kicks.
Launch ==
  /\ calls # <<>> /\ replays < MaxReplays
  /\ ended = Device
  /\ replays' = replays + 1
  /\ ResetSignals
  /\ ready' = {} /\ running' = {} /\ done' = {} /\ ended' = {}
  /\ UNCHANGED <<build, busy>>

\* The compute queue waits for the timeline and lets the others use the device.
DeviceReady(d) ==
  /\ replays > 0
  /\ d \in Device \ (ready \cup ended)
  /\ d \notin busy
  /\ ready' = ready \cup {d}
  /\ UNCHANGED <<build, replays, running, done, signals, ended, busy>>

CanStart(j) ==
  LET c == calls[j]
      before == {i \in OnQueue(c.queue) : i < j}
  IN  /\ j \notin running \cup done
      /\ before \subseteq running \cup done
      /\ c.chained => before \subseteq done
      /\ c.sync \cup (IF c.queue[2] = 0 THEN {c.queue[1]} ELSE {}) \subseteq ready
      /\ \A d \in c.waits : signals[d.queue] >= d.no

Start(j) ==
  /\ replays > 0
  /\ CanStart(j)
  /\ running' = running \cup {j}
  /\ UNCHANGED <<build, replays, ready, done, signals, ended, busy>>

Finish(j) ==
  /\ j \in running
  /\ running' = running \ {j} /\ done' = done \cup {j}
  /\ signals' = IF calls[j].signal THEN [signals EXCEPT ![calls[j].queue] = j] ELSE signals
  /\ UNCHANGED <<build, replays, ready, ended, busy>>

CanEnd(d) ==
  /\ d \in ready \ ended
  /\ OnQueue(<<d, 0>>) \subseteq done
  /\ \A q \in FinalQueues(d) : signals[q] >= last_j[q]

End(d) ==
  /\ CanEnd(d)
  /\ ended' = ended \cup {d}
  /\ UNCHANGED <<build, replays, ready, running, done, signals, busy>>

\* Work submitted to a device between replays starts when its timeline allows.
OtherWork(d) ==
  /\ d \in (Shared \cap ended) \ busy
  /\ replays > 0 => replays < MaxReplays
  /\ busy' = busy \cup {d}
  /\ UNCHANGED <<build, replays, ready, running, done, signals, ended>>

OtherWorkDone(d) ==
  /\ d \in busy
  /\ busy' = busy \ {d}
  /\ UNCHANGED <<build, replays, ready, running, done, signals, ended>>

Init ==
  /\ calls = <<>> /\ written = {} /\ read = {}
  /\ last_j = [q \in Queue |-> 0]
  /\ queue_access = [q \in Queue |-> [p \in Queue |-> 0]]
  /\ dev_access = [q \in Queue |-> IF q[2] = 0 THEN {q[1]} ELSE {}]
  /\ copy_to_devs = [d \in Device |-> {}]
  /\ replays = 0 /\ ready = {} /\ running = {} /\ done = {}
  /\ signals = [q \in Queue |-> 0]
  /\ ended = Device /\ busy = {}

Build ==
  \/ \E out \in Buffer, ins \in SUBSET Buffer : Kernel(out, ins)
  \/ \E out \in Buffer, in \in Buffer : Copy(out, in)

Next ==
  \/ Build
  \/ Launch
  \/ \E d \in Device : DeviceReady(d) \/ End(d) \/ OtherWork(d) \/ OtherWorkDone(d)
  \/ \E j \in DOMAIN calls : Start(j) \/ Finish(j)

Spec == Init /\ [][Next]_vars

----------------------------------------------------------------------------
(* Properties.                                                             *)

\* Numbers stay in range: a call waits only for earlier calls of the queue whose signal it
\* looks at, and a signal holds the number of a call of its own queue.
TypeOK ==
  /\ Len(calls) <= MaxCalls /\ replays \in 0..MaxReplays
  /\ \A j \in DOMAIN calls :
       \A d \in calls[j].waits : d.no < j /\ calls[d.no].queue = d.queue
  /\ ready \subseteq Device /\ ended \subseteq Device /\ busy \subseteq Shared
  /\ running \cup done \subseteq DOMAIN calls /\ running \cap done = {}
  /\ \A q \in Queue : signals[q] \in {0} \cup OnQueue(q)

\* Two calls touch the same bytes and one of them writes them.
Conflict(c, e) ==
  \/ \E b \in {e.out} \cup e.ins : Overlap(c.out, b)
  \/ \E b \in c.ins : Overlap(b, e.out)

\* Of two calls in conflict the later one starts after the earlier one is done, whatever
\* queues they are on: the waits that were pruned as already implied really are implied.
ConflictsInOrder ==
  \A j \in running \cup done : \A i \in DOMAIN calls :
    i < j /\ Conflict(calls[i], calls[j]) => i \in done

\* No call of the graph touches a device while the device does other work: "any queue
\* accessing a buffer from another device waits for this signal from the device's compute
\* queue to ensure exclusive access" (tinygrad/runtime/graph/hcq.py).
DevicesExclusive ==
  \A j \in running : \A b \in {calls[j].out} \cup calls[j].ins : b.dev \notin busy

\* When the timelines of all devices have their value the whole graph is done, also the
\* copies, which set no timeline: the next replay patches commands nobody reads.
ReplayWhole == ended = Device /\ replays > 0 => done = DOMAIN calls

\* A replay that has not ended can go on: no two queues wait for each other, and every
\* signal that is waited for is set by some call.
NeverStuck ==
  ended # Device /\ running = {} /\ busy = {} =>
    \/ \E j \in DOMAIN calls : CanStart(j)
    \/ ready # Device
    \/ \E d \in Device : CanEnd(d)

\* A replay gets to its end, with every call done: no cycle of waits, no signal that nobody
\* sets, no timeline set too soon (graph/hcq.py:252-259, 281-333).
ReplaysEnd == ReplayWhole /\ NeverStuck
=============================================================================
