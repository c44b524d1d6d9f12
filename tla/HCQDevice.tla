----------------------------- MODULE HCQDevice -----------------------------
(***************************************************************************)
(* The hardware command queue runtime, tinygrad/runtime/support/hcq.py.    *)
(*                                                                         *)
(* One host thread launches kernels, copies and transfers on devices that  *)
(* execute asynchronously.  Every submission of a device waits for its     *)
(* timeline to reach timeline_value - 1 and, when done, sets it to         *)
(* timeline_value; nothing else orders the compute queue against the copy  *)
(* queue, or a device against the memory the host is about to reuse.       *)
(*                                                                         *)
(* Host code that cannot block is one action.  Where it can block, pc says *)
(* where it is: in the synchronize of an operation (todo is the set of     *)
(* devices still to be synchronized), at the wait of a staging slot        *)
(* ("stage"), at the wait of a read-back ("out"), in a disk read ("disk"), *)
(* or between the two submissions of a transfer ("join").                  *)
(*                                                                         *)
(* Memory is represented by who uses it: a submission carries the kernarg  *)
(* bytes and staging slots its commands read (kargs, src), the staging     *)
(* slots they write (dst) and the buffers they access.  clobbered[d] holds *)
(* the timeline values of the submissions whose operands were overwritten  *)
(* after they were queued.                                                 *)
(*                                                                         *)
(* A definition whose name ends in Mutant is the one that follows it with  *)
(* a plausible bug; nothing refers to it.  They show which bug each of the *)
(* properties at the end would catch.                                      *)
(***************************************************************************)
EXTENDS Integers, FiniteSets, BumpAllocator

CONSTANTS
  Device,         \* every HCQCompiled instance
  NoDevice,       \* not a device
  CpuDevice,      \* those in HCQCompiled.cpu_devices: no copy queue, host memory
  Buffer,         \* handles of user buffers
  NoBuffer,       \* not a buffer
  NumSlots,       \* batch_cnt: number of staging buffers of an allocator
  KernargsCap,    \* kernargs_size: bytes of the kernargs buffer
  KernargsAlign,  \* kernargs_alignment of the programs
  KernargsSizes,  \* the kernargs_alloc_size of the programs
  WrapAt,         \* 1 << 31: a synchronize above it swaps the timeline signals
  Expires,        \* devices on which a bounded wait may run out of time
  MaxSubmit       \* bound on the number of submissions of a behaviour

ASSUME DeviceAssumption ==
  /\ NoDevice \notin Device /\ NoBuffer \notin Buffer
  /\ CpuDevice \subseteq Device
  /\ Expires \subseteq Device
ASSUME SlotAssumption   == NumSlots \in Nat \ {0}
ASSUME KernargsAssumption ==
  /\ KernargsCap \in Nat /\ KernargsAlign \in Nat \ {0}
  /\ KernargsSizes \subseteq 0..KernargsCap
ASSUME WrapAssumption   == WrapAt \in Nat
ASSUME BoundAssumption  == MaxSubmit \in Nat

Slot     == 0..(NumSlots - 1)
HasCopy  == Device \ CpuDevice

VARIABLES
  timeline_value,   \* [Device -> Nat]: the value of the next submission
  timeline_signal,  \* [Device -> 0..1]: which of the two signals is the timeline
  signal_value,     \* [Device -> [0..1 -> Nat]]: memory of the two signals
  error_state,      \* [Device -> BOOLEAN]
  pending,          \* [Device -> set of submissions in the device's queues]
  running,          \* [Device -> values of submissions whose commands run]
  clobbered,        \* [Device -> values of submissions with spoilt operands]
  kernargs_ptr,     \* [Device -> Nat]: kernargs_offset_allocator.ptr
  b_timeline,       \* [Device -> [Slot -> Nat]]
  b_next,           \* [Device -> Slot]
  reserved,         \* [Device -> slots tagged 1 << 64 by the running disk read]
  leaked,           \* [Device -> slots tagged 1 << 64 by a failed disk read]
  mapped,           \* [Buffer -> devices that map it]; {} when not allocated
  pc, dev, todo, args,  \* the host thread
  clock,            \* submissions so far, in program order
  gave_up           \* [Device -> BOOLEAN]: a drain or read-back was abandoned

devVars  == <<timeline_value, timeline_signal, signal_value, error_state>>
memVars  == <<kernargs_ptr, b_timeline, b_next, reserved, leaked, mapped>>
hostVars == <<pc, dev, todo, args>>
vars == <<devVars, pending, running, clobbered, memVars, hostVars, clock, gave_up>>

Wait == [dev : Device, sig : 0..1, val : Nat]
Work == [q : {"compute", "copy"}, val : Nat, sig : 0..1, waits : SUBSET Wait,
         kargs : SUBSET (0..(KernargsCap - 1)), src : SUBSET Slot,
         dst : SUBSET Slot, bufs : SUBSET Buffer, touch : SUBSET Device, no : Nat]

\* What the host operation under way remembers across its blocking points.
Args == [kargs : SUBSET (0..(KernargsCap - 1)), buf : Buffer \cup {NoBuffer},
         peer : Device \cup {NoDevice}]
NoArgs == [kargs |-> {}, buf |-> NoBuffer, peer |-> NoDevice]

-----------------------------------------------------------------------------
(* The timeline. *)

Timeline(d) == signal_value[d][timeline_signal[d]]

\* dev.timeline_signal, dev.timeline_value - 1: what every command list waits for
\* first, and what synchronize waits for.
LastIssued(d) == [dev |-> d, sig |-> timeline_signal[d], val |-> timeline_value[d] - 1]
Reached(w)    == signal_value[w.dev][w.sig] >= w.val

Drained(d)    == Reached(LastIssued(d))

\* The wait for the device's own timeline is missing.
SubmissionMutant(d, q, extra, kargs, src, dst, bufs, touch) ==
  [q |-> q, val |-> timeline_value[d], sig |-> timeline_signal[d], waits |-> extra,
   kargs |-> kargs, src |-> src, dst |-> dst, bufs |-> bufs, touch |-> touch, no |-> clock]

\* A command list that waits for its device's timeline (and for extra),
\* does its work and signals next_timeline().
Submission(d, q, extra, kargs, src, dst, bufs, touch) ==
  [q |-> q, val |-> timeline_value[d], sig |-> timeline_signal[d],
   waits |-> {LastIssued(d)} \cup extra, kargs |-> kargs, src |-> src, dst |-> dst,
   bufs |-> bufs, touch |-> touch, no |-> clock]

\* .signal(dev.timeline_signal, dev.next_timeline()).submit(dev)
Submit(d, w) ==
  /\ clock < MaxSubmit
  /\ pending'        = [pending EXCEPT ![d] = @ \cup {w}]
  /\ timeline_value' = [timeline_value EXCEPT ![d] = @ + 1]
  /\ clock'          = clock + 1
  /\ UNCHANGED <<timeline_signal, signal_value, error_state, running>>

\* The values of the queued submissions of d that read one of these bytes or slots.
Users(d, kargs, slots) ==
  {w.val : w \in {x \in pending[d] : x.kargs \cap kargs # {} \/ x.src \cap slots # {}}}
Overwrite(d, kargs, slots) ==
  clobbered' = [clobbered EXCEPT ![d] = @ \cup Users(d, kargs, slots)]

-----------------------------------------------------------------------------
(* The host thread. *)

\* synchronize of a device first synchronizes the CPU devices.
SyncSet(D) == D \cup (IF D \subseteq CpuDevice THEN {} ELSE CpuDevice)

Goto(l, d, T, a) == pc' = l /\ dev' = d /\ todo' = T /\ args' = a
Return           == Goto("idle", NoDevice, {}, NoArgs)
AtEnd(l)         == pc = l /\ todo = {}

\* HCQProgram.__call__ up to the possible drain of fill_kernargs.
LaunchSubmit(d, kargs, b) ==
  /\ Overwrite(d, kargs, {})
  /\ Submit(d, Submission(d, "compute", {}, kargs, {}, {}, {b}, {d}))
  /\ Return
  /\ UNCHANGED <<b_timeline, b_next, reserved, leaked, mapped, gave_up>>

Bytes(ptr, size) ==
  LET off == BumpOffset(ptr, size, KernargsAlign, KernargsCap)
  IN  {x \in 0..(KernargsCap - 1) : off <= x /\ x < off + size}

Launch(d, size, b) ==
  LET ptr == kernargs_ptr[d]
  IN  /\ pc = "idle" /\ d \in mapped[b]
      /\ ~BumpWraps(ptr, size, KernargsAlign, KernargsCap)
      /\ kernargs_ptr' = [kernargs_ptr EXCEPT ![d] = BumpPtr(ptr, size, KernargsAlign, KernargsCap)]
      /\ LaunchSubmit(d, Bytes(ptr, size), b)

\* The memory is handed out without the synchronize (KERNARGS_WRAP_DRAIN=0).
LaunchWrapMutant(d, size, b) ==
  LET ptr == kernargs_ptr[d]
  IN  /\ pc = "idle" /\ d \in mapped[b] /\ clock < MaxSubmit
      /\ BumpWraps(ptr, size, KernargsAlign, KernargsCap)
      /\ kernargs_ptr' = [kernargs_ptr EXCEPT ![d] = BumpPtr(ptr, size, KernargsAlign, KernargsCap)]
      /\ LaunchSubmit(d, Bytes(ptr, size), b)

\* The allocation wrapped: the pointer has moved, and the memory is handed out
\* only after a synchronize.
LaunchWrap(d, size, b) ==
  LET ptr == kernargs_ptr[d]
  IN  /\ pc = "idle" /\ d \in mapped[b] /\ clock < MaxSubmit
      /\ BumpWraps(ptr, size, KernargsAlign, KernargsCap)
      /\ kernargs_ptr' = [kernargs_ptr EXCEPT ![d] = BumpPtr(ptr, size, KernargsAlign, KernargsCap)]
      /\ Goto("drain", d, SyncSet({d}), [NoArgs EXCEPT !.kargs = Bytes(ptr, size), !.buf = b])
      /\ UNCHANGED <<devVars, pending, running, clobbered, b_timeline, b_next, reserved,
                     leaked, mapped, clock, gave_up>>

LaunchDrained ==
  /\ AtEnd("drain")
  /\ LaunchSubmit(dev, args.kargs, args.buf)
  /\ UNCHANGED kernargs_ptr

\* A user's synchronize, also the one that ends a launch with wait=True.
Synchronize(d) ==
  /\ pc = "idle"
  /\ Goto("sync", d, SyncSet({d}), NoArgs)
  /\ UNCHANGED <<devVars, pending, running, clobbered, memVars, clock, gave_up>>

SyncReturn ==
  /\ AtEnd("sync")
  /\ Return
  /\ UNCHANGED <<devVars, pending, running, clobbered, memVars, clock, gave_up>>

\* _wrap_timeline_signal
WrapTimeline(d) ==
  LET shadow == 1 - timeline_signal[d]
  IN  /\ timeline_signal' = [timeline_signal EXCEPT ![d] = shadow]
      /\ signal_value'    = [signal_value EXCEPT ![d][shadow] = 0]
      /\ timeline_value'  = [timeline_value EXCEPT ![d] = 1]
      /\ b_timeline'      = [b_timeline EXCEPT ![d] = [s \in Slot |-> 0]]
      /\ leaked'          = [leaked EXCEPT ![d] = {}]

\* The operation waits again for a device it has just synchronized.
SyncDeviceMutant(d) ==
  /\ d \in todo
  /\ ~error_state[d]
  /\ Drained(d)
  /\ UNCHANGED vars

\* One successful synchronize among those the operation makes.
SyncDevice(d) ==
  /\ d \in todo
  /\ d \in CpuDevice \/ todo \cap CpuDevice = {}
  /\ ~error_state[d]
  /\ Drained(d)
  /\ todo' = todo \ {d}
  /\ IF timeline_value[d] > WrapAt
     THEN WrapTimeline(d)
     ELSE UNCHANGED <<timeline_signal, signal_value, timeline_value, b_timeline, leaked>>
  /\ UNCHANGED <<error_state, pending, running, clobbered, kernargs_ptr, b_next, reserved,
                 mapped, pc, dev, args, clock, gave_up>>

\* It raises: the device failed before, or its wait runs out of time now.  The
\* exception leaves the operation; a launch has moved its kernargs pointer by then.
SyncRaise(d) ==
  /\ d \in todo
  /\ \/ error_state[d]
     \/ /\ d \in CpuDevice \/ todo \cap CpuDevice = {}
        /\ d \in Expires \ CpuDevice /\ ~Drained(d)
  /\ error_state' = [error_state EXCEPT ![d] = TRUE]
  /\ gave_up'     = IF pc = "drain" THEN [gave_up EXCEPT ![dev] = TRUE] ELSE gave_up
  /\ Return
  /\ UNCHANGED <<timeline_value, timeline_signal, signal_value, pending, running, clobbered,
                 memVars, clock>>

NextSlot(d) == (b_next[d] + 1) % NumSlots

\* Only the tag of a disk read is looked at.
SlotFreeMutant(d, s) == s \notin reserved[d] \cup leaked[d]

\* b_timeline[s] <= timeline: neither tagged 1 << 64 nor used by unfinished work.
SlotFree(d, s) == s \notin reserved[d] \cup leaked[d] /\ b_timeline[d][s] <= Timeline(d)

\* The slot is tagged with the value before its copy's.
CopySubmitMutant(d, s, b) ==
  /\ Submit(d, Submission(d, "copy", {}, {}, {s}, {}, {b}, {d}))
  /\ b_timeline' = [b_timeline EXCEPT ![d][s] = timeline_value[d] - 1]

\* The copy of a filled slot; the slot is tagged with its value.
CopySubmit(d, s, b) ==
  /\ Submit(d, Submission(d, "copy", {}, {}, {s}, {}, {b}, {d}))
  /\ b_timeline' = [b_timeline EXCEPT ![d][s] = timeline_value[d]]

\* _copyin: the loop takes the next slot, waits for it, fills it, queues its copy.
Copyin(d, b) ==
  /\ pc = "idle" /\ d \in HasCopy /\ d \in mapped[b] /\ clock < MaxSubmit
  /\ b_next' = [b_next EXCEPT ![d] = NextSlot(d)]
  /\ Goto("stage", d, {}, [NoArgs EXCEPT !.buf = b])
  /\ UNCHANGED <<devVars, pending, running, clobbered, kernargs_ptr, b_timeline, reserved,
                 leaked, mapped, clock, gave_up>>

CopyinChunk(more) ==
  LET s == b_next[dev]
  IN  /\ pc = "stage"
      /\ SlotFree(dev, s)
      /\ Overwrite(dev, {}, {s})
      /\ CopySubmit(dev, s, args.buf)
      /\ IF more /\ clock + 1 < MaxSubmit
         THEN b_next' = [b_next EXCEPT ![dev] = NextSlot(dev)] /\ UNCHANGED hostVars
         ELSE UNCHANGED b_next /\ Return
      /\ UNCHANGED <<kernargs_ptr, reserved, leaked, mapped, gave_up>>

\* The staging wait raises; the slot was advanced but nothing is reused.
CopyinRaise ==
  /\ pc = "stage" /\ dev \in Expires
  /\ ~SlotFree(dev, b_next[dev])
  /\ Return
  /\ UNCHANGED <<devVars, pending, running, clobbered, memVars, clock, gave_up>>

\* _copyin and _copyout of a device without a copy queue: the host touches the
\* buffer itself (memmove) after a synchronize.
DirectCopy(d, b) ==
  /\ pc = "idle" /\ d \notin HasCopy /\ d \in mapped[b]
  /\ Goto("direct", d, SyncSet({d}), [NoArgs EXCEPT !.buf = b])
  /\ UNCHANGED <<devVars, pending, running, clobbered, memVars, clock, gave_up>>

DirectReturn ==
  /\ AtEnd("direct")
  /\ Return
  /\ UNCHANGED <<devVars, pending, running, clobbered, memVars, clock, gave_up>>

\* copy_from_disk: reads are issued while the next slot is free, and the copy of a
\* slot is queued once its read has completed, in any order.
DiskRead(d, b) ==
  /\ pc = "idle" /\ d \in HasCopy /\ d \in mapped[b] /\ clock < MaxSubmit
  /\ Goto("disk", d, {}, [NoArgs EXCEPT !.buf = b])
  /\ UNCHANGED <<devVars, pending, running, clobbered, memVars, clock, gave_up>>

\* _get_temp_buf; the disk starts writing into the slot.
DiskReserve ==
  LET s == NextSlot(dev)
  IN  /\ pc = "disk"
      /\ SlotFree(dev, s)
      /\ clock + Cardinality(reserved[dev]) < MaxSubmit
      /\ reserved' = [reserved EXCEPT ![dev] = @ \cup {s}]
      /\ b_next'   = [b_next EXCEPT ![dev] = s]
      /\ Overwrite(dev, {}, {s})
      /\ UNCHANGED <<devVars, pending, running, kernargs_ptr, b_timeline, leaked, mapped,
                     hostVars, clock, gave_up>>

DiskSubmit(s) ==
  /\ pc = "disk" /\ s \in reserved[dev]
  /\ CopySubmit(dev, s, args.buf)
  /\ reserved' = [reserved EXCEPT ![dev] = @ \ {s}]
  /\ UNCHANGED <<clobbered, kernargs_ptr, b_next, leaked, mapped, hostVars, gave_up>>

DiskReturn ==
  /\ pc = "disk" /\ reserved[dev] = {}
  /\ Return
  /\ UNCHANGED <<devVars, pending, running, clobbered, memVars, clock, gave_up>>

\* The read raises (failed read, or no slot in time): the tags stay behind.
DiskRaise ==
  /\ pc = "disk" /\ dev \in Expires
  /\ leaked'   = [leaked EXCEPT ![dev] = @ \cup reserved[dev]]
  /\ reserved' = [reserved EXCEPT ![dev] = {}]
  /\ Return
  /\ UNCHANGED <<devVars, pending, running, clobbered, kernargs_ptr, b_timeline, b_next,
                 mapped, clock, gave_up>>

\* _copyout: after a synchronize, every chunk goes through slot 0.
Copyout(d, b) ==
  /\ pc = "idle" /\ d \in HasCopy /\ d \in mapped[b] /\ clock < MaxSubmit
  /\ Goto("readback", d, SyncSet({d}), [NoArgs EXCEPT !.buf = b])
  /\ UNCHANGED <<devVars, pending, running, clobbered, memVars, clock, gave_up>>

CopyoutChunk ==
  /\ AtEnd("readback")
  /\ Submit(dev, Submission(dev, "copy", {}, {}, {}, {0}, {args.buf}, {dev}))
  /\ Goto("out", dev, {}, args)
  /\ UNCHANGED <<clobbered, memVars, gave_up>>

CopyoutRead(more) ==
  /\ pc = "out"
  /\ Drained(dev)
  /\ IF more /\ clock < MaxSubmit THEN Goto("readback", dev, {}, args) ELSE Return
  /\ UNCHANGED <<devVars, pending, running, clobbered, memVars, clock, gave_up>>

\* The wait of a chunk raises: unlike synchronize it leaves error_state alone, and
\* the device may still write slot 0 later.
CopyoutRaise ==
  /\ pc = "out" /\ dev \in Expires
  /\ ~Drained(dev)
  /\ gave_up' = [gave_up EXCEPT ![dev] = TRUE]
  /\ Return
  /\ UNCHANGED <<devVars, pending, running, clobbered, memVars, clock>>

\* _transfer: the copy queue of the source waits for both timelines, then the
\* compute queue of the destination gets a list that waits for the copy.
Transfer(s, d, bs, bd) ==
  /\ pc = "idle" /\ s \in HasCopy /\ d \in HasCopy
  /\ s \in mapped[bs] /\ d \in mapped[bd]
  /\ clock + 1 < MaxSubmit
  /\ mapped' = [mapped EXCEPT ![bd] = @ \cup {s}]
  /\ Submit(s, Submission(s, "copy", {LastIssued(d)}, {}, {}, {}, {bs, bd}, {s, d}))
  /\ IF s = d THEN Return ELSE Goto("join", d, {}, [NoArgs EXCEPT !.peer = s])
  /\ UNCHANGED <<clobbered, kernargs_ptr, b_timeline, b_next, reserved, leaked, gave_up>>

\* The destination does not wait for the copy.
TransferJoinMutant ==
  /\ pc = "join"
  /\ Submit(dev, Submission(dev, "compute", {}, {}, {}, {}, {}, {dev}))
  /\ Return
  /\ UNCHANGED <<clobbered, memVars, gave_up>>

TransferJoin ==
  /\ pc = "join"
  /\ Submit(dev, Submission(dev, "compute", {LastIssued(args.peer)}, {}, {}, {}, {}, {dev}))
  /\ Return
  /\ UNCHANGED <<clobbered, memVars, gave_up>>

Alloc(d, b) ==
  /\ pc = "idle" /\ mapped[b] = {}
  /\ mapped' = [mapped EXCEPT ![b] = {d}]
  /\ UNCHANGED <<devVars, pending, running, clobbered, kernargs_ptr, b_timeline, b_next,
                 reserved, leaked, hostVars, clock, gave_up>>

\* Only one of the devices that map the buffer is synchronized.
FreeMutant(b) ==
  /\ pc = "idle" /\ mapped[b] # {}
  /\ \E d \in mapped[b] : Goto("free", NoDevice, SyncSet({d}), [NoArgs EXCEPT !.buf = b])
  /\ UNCHANGED <<devVars, pending, running, clobbered, memVars, clock, gave_up>>

\* _free: every device that maps the buffer is synchronized, then it is unmapped.
Free(b) ==
  /\ pc = "idle" /\ mapped[b] # {}
  /\ Goto("free", NoDevice, SyncSet(mapped[b]), [NoArgs EXCEPT !.buf = b])
  /\ UNCHANGED <<devVars, pending, running, clobbered, memVars, clock, gave_up>>

FreeUnmap ==
  /\ AtEnd("free")
  /\ mapped' = [mapped EXCEPT ![args.buf] = {}]
  /\ Return
  /\ UNCHANGED <<devVars, pending, running, clobbered, kernargs_ptr, b_timeline, b_next,
                 reserved, leaked, clock, gave_up>>

-----------------------------------------------------------------------------
(* The queues of a device: first in, first out, each on its own. *)

Head(d, w) == \A x \in pending[d] : x.q = w.q => w.val <= x.val

\* The head's waits are satisfied: its commands start reading their operands.
Start(d, w) ==
  /\ w \in pending[d] /\ w.val \notin running[d] /\ Head(d, w)
  /\ \A x \in w.waits : Reached(x)
  /\ running' = [running EXCEPT ![d] = @ \cup {w.val}]
  /\ UNCHANGED <<devVars, pending, clobbered, memVars, hostVars, clock, gave_up>>

\* They are done: the slots they write have changed, and the signal is set.
Finish(d, w) ==
  /\ w \in pending[d] /\ w.val \in running[d]
  /\ pending'      = [pending EXCEPT ![d] = @ \ {w}]
  /\ running'      = [running EXCEPT ![d] = @ \ {w.val}]
  /\ clobbered'    = [clobbered EXCEPT ![d] = (@ \cup Users(d, {}, w.dst)) \ {w.val}]
  /\ signal_value' = [signal_value EXCEPT ![d][w.sig] = w.val]
  /\ UNCHANGED <<timeline_value, timeline_signal, error_state, memVars, hostVars, clock, gave_up>>

\* CPUWorker.run: a command raises, the rest of the list is dropped with its
\* signal, and the exception is kept in error_state.
CpuFault(d, w) ==
  /\ d \in CpuDevice \cap Expires
  /\ w \in pending[d] /\ Head(d, w)
  /\ pending'     = [pending EXCEPT ![d] = @ \ {w}]
  /\ running'     = [running EXCEPT ![d] = @ \ {w.val}]
  /\ clobbered'   = [clobbered EXCEPT ![d] = @ \ {w.val}]
  /\ error_state' = [error_state EXCEPT ![d] = TRUE]
  /\ UNCHANGED <<timeline_value, timeline_signal, signal_value, memVars, hostVars, clock, gave_up>>

-----------------------------------------------------------------------------

Init ==
  /\ timeline_value  = [d \in Device |-> 1]
  /\ timeline_signal = [d \in Device |-> 0]
  /\ signal_value    = [d \in Device |-> [i \in 0..1 |-> 0]]
  /\ error_state     = [d \in Device |-> FALSE]
  /\ pending         = [d \in Device |-> {}]
  /\ running         = [d \in Device |-> {}]
  /\ clobbered       = [d \in Device |-> {}]
  /\ kernargs_ptr    = [d \in Device |-> 0]
  /\ b_timeline      = [d \in Device |-> [s \in Slot |-> 0]]
  /\ b_next          = [d \in Device |-> 0]
  /\ reserved        = [d \in Device |-> {}]
  /\ leaked          = [d \in Device |-> {}]
  /\ mapped          = [b \in Buffer |-> {}]
  /\ pc = "idle" /\ dev = NoDevice /\ todo = {} /\ args = NoArgs
  /\ clock = 0
  /\ gave_up         = [d \in Device |-> FALSE]

\* Steps that finish the host operation under way.
HostContinue ==
  \/ LaunchDrained
  \/ SyncReturn
  \/ \E d \in Device : SyncDevice(d) \/ SyncRaise(d)
  \/ \E more \in BOOLEAN : CopyinChunk(more)
  \/ CopyinRaise
  \/ DirectReturn
  \/ DiskReserve
  \/ \E s \in Slot : DiskSubmit(s)
  \/ DiskReturn
  \/ DiskRaise
  \/ CopyoutChunk
  \/ \E more \in BOOLEAN : CopyoutRead(more)
  \/ CopyoutRaise
  \/ TransferJoin
  \/ FreeUnmap

\* Steps that begin one.
HostBegin ==
  \/ \E d \in Device, size \in KernargsSizes, b \in Buffer :
       Launch(d, size, b) \/ LaunchWrap(d, size, b)
  \/ \E d \in Device : Synchronize(d)
  \/ \E d \in Device, b \in Buffer :
       Copyin(d, b) \/ DirectCopy(d, b) \/ DiskRead(d, b) \/ Copyout(d, b) \/ Alloc(d, b)
  \/ \E s, d \in Device, bs, bd \in Buffer : Transfer(s, d, bs, bd)
  \/ \E b \in Buffer : Free(b)

DeviceStep(d) == \E w \in pending[d] : Start(d, w) \/ Finish(d, w)
DeviceFault   == \E d \in Device : \E w \in pending[d] : CpuFault(d, w)

Next == HostContinue \/ HostBegin \/ (\E d \in Device : DeviceStep(d)) \/ DeviceFault

Spec == Init /\ [][Next]_vars
FairSpec == Spec /\ WF_vars(HostContinue) /\ \A d \in Device : WF_vars(DeviceStep(d))

-----------------------------------------------------------------------------
(* Properties. *)

TypeOK ==
  /\ timeline_value \in [Device -> Nat \ {0}]
  /\ timeline_signal \in [Device -> 0..1]
  /\ signal_value \in [Device -> [0..1 -> Nat]]
  /\ error_state \in [Device -> BOOLEAN]
  /\ pending \in [Device -> SUBSET Work]
  /\ running \in [Device -> SUBSET Nat]
  /\ clobbered \in [Device -> SUBSET Nat]
  /\ kernargs_ptr \in [Device -> 0..KernargsCap]
  /\ b_timeline \in [Device -> [Slot -> Nat]]
  /\ b_next \in [Device -> Slot]
  /\ reserved \in [Device -> SUBSET Slot]
  /\ leaked \in [Device -> SUBSET Slot]
  /\ mapped \in [Buffer -> SUBSET Device]
  /\ pc \in {"idle", "drain", "sync", "stage", "direct", "disk", "readback", "out",
             "join", "free"}
  /\ dev \in Device \cup {NoDevice}
  /\ todo \in SUBSET Device
  /\ args \in Args
  /\ clock \in Nat
  /\ gave_up \in [Device -> BOOLEAN]

\* Kernel arguments, staged data and data being read back are never overwritten
\* between the submission that uses them and its completion, by the host filling a
\* recycled kernargs range (fill_kernargs) or staging slot (_copyin, _get_temp_buf)
\* or by a device writing slot 0 (_copyout); unless a drain or read-back was abandoned.
OperandsIntact == \A d \in Device : ~gave_up[d] => clobbered[d] = {}

\* Kernel arguments are never recycled under an in-flight dispatch, abandoned drain
\* or not: what test_wrapping_allocator_invariant.py calls the invariant of every
\* wrapping BumpAllocator, and _audit_kernargs_wrap says must hold.  Where waits expire
\* it does not (README, section 4).
KernargsNeverRecycledInFlight ==
  \A d \in Device : \A w \in pending[d] : w.val \in clobbered[d] => w.kargs = {}

\* b_timeline tags a staging buffer with the timeline value at which it becomes safe:
\* between host operations, no queued command reads or writes a slot the tag frees.
TagTellsSafe ==
  pc = "idle" => \A d \in Device, s \in Slot :
    SlotFree(d, s) => \A w \in pending[d] : s \notin w.src \cup w.dst

\* A submission whose commands run has no unfinished predecessor, in program order,
\* on any of its devices: the timeline waits of __call__, _copyin, _copyout and
\* _transfer order compute against copy queues, and devices against each other.
RunsInProgramOrder ==
  \A d, e \in Device : \A w \in pending[d], v \in pending[e] :
    w.val \in running[d] /\ v.no < w.no => w.touch \cap v.touch = {}

\* The devices whose memory the operation may touch once it has synchronized them.
Synced == CASE pc \in {"drain", "sync", "direct"} -> {dev} \ todo
            [] pc = "free" -> mapped[args.buf] \ todo
            [] OTHER -> {}

\* synchronize is a barrier: until the operation that called it goes on, nothing
\* in flight on any device involves a device it has synchronized.
SyncIsBarrier ==
  \A d \in Device : \A w \in pending[d] : w.touch \cap Synced = {}

\* _free unmaps a buffer only when no queue of a device that maps it (its owner, or
\* a device that mapped it for a transfer) still refers to it.
NoUseAfterUnmap ==
  \A d \in Device : \A w \in pending[d] : \A b \in w.bufs : d \in mapped[b]

\* A timeline signal counts up by one per finished submission and is reset only by a
\* wrap: Finish never moves it backwards, and never over a submission in flight.
TimelineStepsByOne ==
  [][\A d \in Device :
       \/ Timeline(d)' = Timeline(d)
       \/ Timeline(d)' = Timeline(d) + 1
       \/ timeline_signal'[d] # timeline_signal[d] /\ pending[d] = {} /\ Timeline(d)' = 0]_vars

\* Every host operation ends: no drain, staging wait, read-back or free waits for
\* work that cannot finish, also when the timeline wraps in between.
HostReturns == pc # "idle" ~> pc = "idle"

\* Everything submitted finishes.
WorkDrains == \A n \in 0..(MaxSubmit - 1) :
  (\E d \in Device : \E w \in pending[d] : w.no = n)
    ~> ~(\E d \in Device : \E w \in pending[d] : w.no = n)

\* Waits for a device and work of a device both end, whatever swaps of the timeline lie in
\* between (synchronize, _wrap_timeline_signal and the tags of _get_temp_buf).
WorkEnds == HostReturns /\ WorkDrains

\* The devices implement program order.
Order == INSTANCE ProgramOrder WITH
  outstanding <- {[no |-> w.no, touch |-> w.touch] : w \in UNION {pending[d] : d \in Device}},
  issued <- clock
InProgramOrder == Order!Spec
=============================================================================
