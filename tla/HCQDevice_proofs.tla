-------------------------- MODULE HCQDevice_proofs --------------------------
(***************************************************************************)
(* Proofs about HCQDevice, for every set of devices and buffers, every     *)
(* number of staging slots, kernargs size, wrap threshold, and choice of   *)
(* the devices whose waits may expire.  The first half speaks of one device*)
(* at a time (IInv), the second of two (OInv).                             *)
(***************************************************************************)
EXTENDS HCQDevice, TLAPS

\* The host remembers a device, buffer or peer wherever it is about to use it,
\* and only synchronizes where an operation calls synchronize.
HostOK ==
  /\ pc \in {"drain", "sync", "stage", "direct", "disk", "readback", "out", "join"} => dev \in Device
  /\ pc \in {"drain", "stage", "disk", "readback", "out", "free"} => args.buf \in Buffer
  /\ pc = "join" => args.peer \in Device
  /\ todo # {} => pc \in {"drain", "sync", "direct", "readback", "free"}

\* BumpAllocator.alloc stays inside its buffer.
LEMMA BumpInside ==
  ASSUME NEW ptr \in 0..KernargsCap, NEW size \in KernargsSizes
  PROVE  /\ BumpOffset(ptr, size, KernargsAlign, KernargsCap) \in Nat
         /\ BumpPtr(ptr, size, KernargsAlign, KernargsCap) \in 0..KernargsCap
         /\ BumpPtr(ptr, size, KernargsAlign, KernargsCap)
              = BumpOffset(ptr, size, KernargsAlign, KernargsCap) + size
         /\ ~BumpWraps(ptr, size, KernargsAlign, KernargsCap)
              => BumpOffset(ptr, size, KernargsAlign, KernargsCap) >= ptr
  BY KernargsAssumption DEF BumpOffset, BumpPtr, BumpWraps, RoundUp

LEMMA SubmissionType ==
  ASSUME TypeOK, NEW d \in Device, NEW q \in {"compute", "copy"}, NEW extra \in SUBSET Wait,
         NEW kargs \in SUBSET (0..(KernargsCap - 1)), NEW src \in SUBSET Slot, NEW dst \in SUBSET Slot,
         NEW bufs \in SUBSET Buffer, NEW touch \in SUBSET Device
  PROVE  /\ LastIssued(d) \in Wait
         /\ Submission(d, q, extra, kargs, src, dst, bufs, touch) \in Work
<1>1. LastIssued(d) \in Wait
  BY DEF TypeOK, Wait, LastIssued
<1>2. {LastIssued(d)} \cup extra \in SUBSET Wait
  BY <1>1
<1>3. timeline_value[d] \in Nat /\ timeline_signal[d] \in 0..1 /\ clock \in Nat
  BY DEF TypeOK
<1> QED
  BY <1>1, <1>2, <1>3 DEF Submission, Work

LEMMA UsersType ==
  ASSUME TypeOK, NEW d \in Device, NEW kargs, NEW slots
  PROVE  Users(d, kargs, slots) \in SUBSET Nat
  BY DEF TypeOK, Users, Work

LEMMA NextSlotType == ASSUME TypeOK, NEW d \in Device PROVE NextSlot(d) \in Slot
<1>1. b_next[d] \in Nat
  BY SlotAssumption DEF TypeOK, Slot
<1>2. \A n \in Nat : (n + 1) % NumSlots \in 0..(NumSlots - 1)
  BY SlotAssumption
<1> QED
  BY <1>1, <1>2 DEF NextSlot, Slot

LEMMA TypeInit == Init => TypeOK /\ HostOK
  BY SlotAssumption, KernargsAssumption DEF Init, TypeOK, HostOK, Slot, Args, NoArgs

TypeInv == TypeOK /\ HostOK

\* Submitting a typed submission and noting what it overwrites keeps the types.
LEMMA SubmitType ==
  ASSUME TypeOK, NEW d \in Device, NEW w \in Work, Submit(d, w)
  PROVE  /\ timeline_value' \in [Device -> Nat \ {0}]
         /\ timeline_signal' \in [Device -> 0..1]
         /\ signal_value' \in [Device -> [0..1 -> Nat]]
         /\ error_state' \in [Device -> BOOLEAN]
         /\ pending' \in [Device -> SUBSET Work]
         /\ running' \in [Device -> SUBSET Nat]
         /\ clock' \in Nat
  BY DEF TypeOK, Submit

LEMMA OverwriteType ==
  ASSUME TypeOK, NEW d \in Device, NEW kargs, NEW slots, Overwrite(d, kargs, slots)
  PROVE  clobbered' \in [Device -> SUBSET Nat]
  BY UsersType DEF TypeOK, Overwrite

LEMMA BytesType ==
  ASSUME NEW ptr, NEW size
  PROVE  Bytes(ptr, size) \in SUBSET (0..(KernargsCap - 1))
  BY DEF Bytes

LEMMA TypeNext == TypeInv /\ [Next]_vars => TypeInv'
<1> SUFFICES ASSUME TypeInv, [Next]_vars PROVE TypeInv'
  OBVIOUS
<1> USE DEF TypeInv
<1>1. CASE LaunchDrained
  <2>1. dev \in Device /\ args.buf \in Buffer /\ args.kargs \in SUBSET (0..(KernargsCap - 1))
    BY <1>1 DEF LaunchDrained, AtEnd, HostOK, TypeOK, Args
  <2>2. Submission(dev, "compute", {}, args.kargs, {}, {}, {args.buf}, {dev}) \in Work
    BY <2>1, SubmissionType
  <2> QED
    BY <1>1, <2>1, <2>2, SubmitType, OverwriteType
    DEF LaunchDrained, LaunchSubmit, AtEnd, Return, Goto, NoArgs, Args, TypeOK, HostOK
<1>2. CASE SyncReturn
  BY <1>2 DEF SyncReturn, Return, Goto, NoArgs, Args, TypeOK, HostOK, devVars, memVars
<1>3. ASSUME NEW d \in Device, SyncDevice(d) PROVE TypeInv'
  <2>1. timeline_signal[d] \in 0..1
    BY DEF TypeOK
  <2>2. 1 - timeline_signal[d] \in 0..1
    BY <2>1
  <2>3. CASE WrapTimeline(d)
    BY <1>3, <2>2, <2>3 DEF SyncDevice, WrapTimeline, TypeOK, HostOK
  <2>4. CASE ~WrapTimeline(d)
    BY <1>3, <2>4 DEF SyncDevice, TypeOK, HostOK
  <2> QED
    BY <2>3, <2>4
<1>4. ASSUME NEW d \in Device, SyncRaise(d) PROVE TypeInv'
  BY <1>4 DEF SyncRaise, Return, Goto, NoArgs, Args, TypeOK, HostOK, memVars
<1>5. ASSUME NEW more \in BOOLEAN, CopyinChunk(more) PROVE TypeInv'
  <2>1. dev \in Device /\ args.buf \in Buffer /\ b_next[dev] \in Slot
    BY <1>5 DEF CopyinChunk, HostOK, TypeOK
  <2>2. Submission(dev, "copy", {}, {}, {b_next[dev]}, {}, {args.buf}, {dev}) \in Work
    BY <2>1, SubmissionType
  <2>3. b_timeline' \in [Device -> [Slot -> Nat]]
    BY <1>5, <2>1 DEF CopyinChunk, CopySubmit, TypeOK
  <2>4. \/ b_next' = [b_next EXCEPT ![dev] = NextSlot(dev)] /\ UNCHANGED hostVars
        \/ UNCHANGED b_next /\ Return
    BY <1>5 DEF CopyinChunk
  <2>5. b_next' \in [Device -> Slot]
    <3>1. b_next \in [Device -> Slot] /\ NextSlot(dev) \in Slot
      BY <2>1, NextSlotType DEF TypeOK
    <3> QED
      BY <2>1, <2>4, <3>1
  <2>6. /\ HostOK' /\ todo' \in SUBSET Device /\ args' \in Args
        /\ dev' \in Device \cup {NoDevice} /\ pc' \in {"idle", "stage"}
    BY <1>5, <2>1, <2>4 DEF CopyinChunk, Return, Goto, hostVars, HostOK, NoArgs, Args, TypeOK
  <2>7. /\ Submit(dev, Submission(dev, "copy", {}, {}, {b_next[dev]}, {}, {args.buf}, {dev}))
        /\ Overwrite(dev, {}, {b_next[dev]})
        /\ UNCHANGED <<kernargs_ptr, reserved, leaked, mapped, gave_up>>
    BY <1>5 DEF CopyinChunk, CopySubmit
  <2>8. clobbered' \in [Device -> SUBSET Nat]
    BY <2>1, <2>7, OverwriteType
  <2> QED
    BY <2>1, <2>2, <2>3, <2>5, <2>6, <2>7, <2>8, SubmitType DEF TypeOK
<1>6. CASE CopyinRaise
  BY <1>6 DEF CopyinRaise, Return, Goto, NoArgs, Args, TypeOK, HostOK, devVars, memVars
<1>7. CASE DirectReturn
  BY <1>7 DEF DirectReturn, Return, Goto, NoArgs, Args, TypeOK, HostOK, devVars, memVars
<1>8. CASE DiskReserve
  <2>1. dev \in Device
    BY <1>8 DEF DiskReserve, HostOK
  <2> QED
    BY <1>8, <2>1, NextSlotType, OverwriteType
    DEF DiskReserve, TypeOK, HostOK, devVars, hostVars
<1>9. ASSUME NEW s \in Slot, DiskSubmit(s) PROVE TypeInv'
  <2>1. dev \in Device /\ args.buf \in Buffer
    BY <1>9 DEF DiskSubmit, HostOK
  <2>2. Submission(dev, "copy", {}, {}, {s}, {}, {args.buf}, {dev}) \in Work
    BY <2>1, SubmissionType
  <2>3. b_timeline' \in [Device -> [Slot -> Nat]]
    BY <1>9, <2>1 DEF DiskSubmit, CopySubmit, TypeOK
  <2> QED
    BY <1>9, <2>1, <2>2, <2>3, SubmitType DEF DiskSubmit, CopySubmit, TypeOK, HostOK, hostVars
<1>10. CASE DiskReturn
  BY <1>10 DEF DiskReturn, Return, Goto, NoArgs, Args, TypeOK, HostOK, devVars, memVars
<1>11. CASE DiskRaise
  BY <1>11 DEF DiskRaise, Return, Goto, NoArgs, Args, TypeOK, HostOK, devVars
<1>12. CASE CopyoutChunk
  <2>1. dev \in Device /\ args.buf \in Buffer /\ 0 \in Slot
    BY <1>12, SlotAssumption DEF CopyoutChunk, AtEnd, HostOK, Slot
  <2>2. Submission(dev, "copy", {}, {}, {}, {0}, {args.buf}, {dev}) \in Work
    BY <2>1, SubmissionType
  <2> QED
    BY <1>12, <2>1, <2>2, SubmitType DEF CopyoutChunk, Goto, TypeOK, HostOK, memVars
<1>13. ASSUME NEW more \in BOOLEAN, CopyoutRead(more) PROVE TypeInv'
  <2>1. dev \in Device /\ args.buf \in Buffer
    BY <1>13 DEF CopyoutRead, HostOK
  <2> QED
    BY <1>13, <2>1 DEF CopyoutRead, Return, Goto, NoArgs, Args, TypeOK, HostOK, devVars, memVars
<1>14. CASE CopyoutRaise
  BY <1>14 DEF CopyoutRaise, Return, Goto, NoArgs, Args, TypeOK, HostOK, devVars, memVars
<1>15. CASE TransferJoin
  <2>1. dev \in Device /\ args.peer \in Device
    BY <1>15 DEF TransferJoin, HostOK
  <2>2. {LastIssued(args.peer)} \in SUBSET Wait
    BY <2>1, SubmissionType
  <2>3. Submission(dev, "compute", {LastIssued(args.peer)}, {}, {}, {}, {}, {dev}) \in Work
    BY <2>1, <2>2, SubmissionType
  <2> QED
    BY <1>15, <2>1, <2>3, SubmitType
    DEF TransferJoin, Return, Goto, NoArgs, Args, TypeOK, HostOK, memVars
<1>16. CASE FreeUnmap
  BY <1>16 DEF FreeUnmap, Return, Goto, NoArgs, Args, TypeOK, HostOK, devVars
<1>17. ASSUME NEW d \in Device, NEW size \in KernargsSizes, NEW b \in Buffer, Launch(d, size, b)
       PROVE  TypeInv'
  <2>1. Submission(d, "compute", {}, Bytes(kernargs_ptr[d], size), {}, {}, {b}, {d}) \in Work
    BY BytesType, SubmissionType
  <2>2. kernargs_ptr' \in [Device -> 0..KernargsCap]
    BY <1>17, BumpInside DEF Launch, TypeOK
  <2> QED
    BY <1>17, <2>1, <2>2, SubmitType, OverwriteType
    DEF Launch, LaunchSubmit, Return, Goto, NoArgs, Args, TypeOK, HostOK
<1>18. ASSUME NEW d \in Device, NEW size \in KernargsSizes, NEW b \in Buffer, LaunchWrap(d, size, b)
       PROVE  TypeInv'
  <2>1. kernargs_ptr' \in [Device -> 0..KernargsCap]
    BY <1>18, BumpInside DEF LaunchWrap, TypeOK
  <2>2. [NoArgs EXCEPT !.kargs = Bytes(kernargs_ptr[d], size), !.buf = b] \in Args
    BY BytesType DEF NoArgs, Args
  <2>3. [NoArgs EXCEPT !.kargs = Bytes(kernargs_ptr[d], size), !.buf = b].buf = b
    BY DEF NoArgs
  <2>4. SyncSet({d}) \in SUBSET Device
    BY DeviceAssumption DEF SyncSet
  <2> QED
    BY <1>18, <2>1, <2>2, <2>3, <2>4 DEF LaunchWrap, Goto, TypeOK, HostOK, devVars
<1>19. ASSUME NEW d \in Device, Synchronize(d) PROVE TypeInv'
  BY <1>19, DeviceAssumption
  DEF Synchronize, SyncSet, Goto, NoArgs, Args, TypeOK, HostOK, devVars, memVars
<1>20. ASSUME NEW d \in Device, NEW b \in Buffer, Copyin(d, b) PROVE TypeInv'
  BY <1>20, NextSlotType DEF Copyin, Goto, NoArgs, Args, TypeOK, HostOK, devVars
<1>21. ASSUME NEW d \in Device, NEW b \in Buffer, DirectCopy(d, b) PROVE TypeInv'
  BY <1>21, DeviceAssumption
  DEF DirectCopy, SyncSet, Goto, NoArgs, Args, TypeOK, HostOK, devVars, memVars
<1>22. ASSUME NEW d \in Device, NEW b \in Buffer, DiskRead(d, b) PROVE TypeInv'
  BY <1>22 DEF DiskRead, Goto, NoArgs, Args, TypeOK, HostOK, devVars, memVars
<1>23. ASSUME NEW d \in Device, NEW b \in Buffer, Copyout(d, b) PROVE TypeInv'
  BY <1>23, DeviceAssumption
  DEF Copyout, SyncSet, Goto, NoArgs, Args, TypeOK, HostOK, devVars, memVars
<1>24. ASSUME NEW d \in Device, NEW b \in Buffer, Alloc(d, b) PROVE TypeInv'
  BY <1>24 DEF Alloc, TypeOK, HostOK, devVars, hostVars
<1>25. ASSUME NEW s \in Device, NEW d \in Device, NEW bs \in Buffer, NEW bd \in Buffer,
              Transfer(s, d, bs, bd)
       PROVE  TypeInv'
  <2>1. {LastIssued(d)} \in SUBSET Wait
    BY SubmissionType
  <2>2. Submission(s, "copy", {LastIssued(d)}, {}, {}, {}, {bs, bd}, {s, d}) \in Work
    BY <2>1, SubmissionType
  <2>3. mapped' \in [Buffer -> SUBSET Device]
    BY <1>25 DEF Transfer, TypeOK
  <2>4. \/ Return
        \/ Goto("join", d, {}, [NoArgs EXCEPT !.peer = s])
    BY <1>25 DEF Transfer
  <2>5. HostOK' /\ todo' \in SUBSET Device /\ args' \in Args /\ dev' \in Device \cup {NoDevice}
    BY <2>4 DEF Return, Goto, NoArgs, Args, HostOK
  <2>6. pc' \in {"idle", "join"}
    BY <2>4 DEF Return, Goto
  <2> QED
    BY <1>25, <2>2, <2>3, <2>5, <2>6, SubmitType DEF Transfer, TypeOK
<1>26. ASSUME NEW b \in Buffer, Free(b) PROVE TypeInv'
  BY <1>26, DeviceAssumption
  DEF Free, SyncSet, Goto, NoArgs, Args, TypeOK, HostOK, devVars, memVars
<1>27. ASSUME NEW d \in Device, NEW w \in pending[d], Start(d, w) PROVE TypeInv'
  <2>1. w.val \in Nat
    BY DEF TypeOK, Work
  <2> QED
    BY <1>27, <2>1 DEF Start, TypeOK, HostOK, devVars, memVars, hostVars
<1>28. ASSUME NEW d \in Device, NEW w \in pending[d], Finish(d, w) PROVE TypeInv'
  <2>1. w.val \in Nat /\ w.sig \in 0..1
    BY DEF TypeOK, Work
  <2>2. clobbered' \in [Device -> SUBSET Nat]
    BY <1>28, UsersType DEF Finish, TypeOK
  <2> QED
    BY <1>28, <2>1, <2>2 DEF Finish, TypeOK, HostOK, memVars, hostVars
<1>29. ASSUME NEW d \in Device, NEW w \in pending[d], CpuFault(d, w) PROVE TypeInv'
  BY <1>29 DEF CpuFault, TypeOK, HostOK, memVars, hostVars
<1>30. CASE UNCHANGED vars
  BY <1>30 DEF vars, devVars, memVars, hostVars, TypeOK, HostOK
<1> QED
  BY <1>1, <1>2, <1>3, <1>4, <1>5, <1>6, <1>7, <1>8, <1>9, <1>10, <1>11, <1>12, <1>13, <1>14,
     <1>15, <1>16, <1>17, <1>18, <1>19, <1>20, <1>21, <1>22, <1>23, <1>24, <1>25, <1>26, <1>27,
     <1>28, <1>29, <1>30 DEF Next, HostContinue, HostBegin, DeviceStep, DeviceFault

\* Every variable keeps its type, and the host never dereferences a device, buffer or
\* peer it did not set: synchronize, _copyin, _copyout, _transfer, _free and the queues.
THEOREM TypeCorrect == Spec => []TypeOK
<1>1. Init => TypeInv
  BY TypeInit DEF TypeInv
<1>2. TypeInv => TypeOK
  BY DEF TypeInv
<1> QED
  BY <1>1, <1>2, TypeNext, PTL DEF Spec

-----------------------------------------------------------------------------
(* The timeline: the queued submissions of a device carry distinct values     *)
(* between its signal and timeline_value, each waits for its predecessor's    *)
(* value, and only the next one to signal can be running.                     *)

QueueInv ==
  \A d \in Device :
    /\ Timeline(d) < timeline_value[d]
    /\ \A w \in pending[d] :
         /\ w.sig = timeline_signal[d]
         /\ Timeline(d) < w.val /\ w.val < timeline_value[d]
         /\ [dev |-> d, sig |-> w.sig, val |-> w.val - 1] \in w.waits
    /\ \A w, x \in pending[d] : w.val = x.val => w = x
    /\ \A v \in running[d] : v = Timeline(d) + 1 /\ v < timeline_value[d]

\* A device the host has synchronized in this operation is idle.
BlockInv ==
  /\ pc \in {"drain", "sync", "direct", "readback"} /\ dev \notin todo => pending[dev] = {}
  /\ pc = "free" => \A d \in mapped[args.buf] \ todo : pending[d] = {}

LEMMA TimelineType ==
  ASSUME TypeOK, NEW d \in Device
  PROVE  Timeline(d) \in Nat
  BY DEF TypeOK, Timeline

\* The wait of synchronize succeeds only on an idle device.
LEMMA DrainedIdle ==
  ASSUME TypeOK, QueueInv, NEW d \in Device, Drained(d)
  PROVE  pending[d] = {} /\ running[d] = {} /\ Timeline(d) = timeline_value[d] - 1
<1>1. Timeline(d) \in Nat /\ timeline_value[d] \in Nat
  BY TimelineType DEF TypeOK
<1>2. Timeline(d) >= timeline_value[d] - 1
  BY DEF Drained, Reached, LastIssued, Timeline
<1>3. \A w \in pending[d] : w.val \in Nat
  BY DEF TypeOK, Work
<1>4. running[d] \in SUBSET Nat
  BY DEF TypeOK
<1>5. pending[d] = {}
  <2>1. \A w \in pending[d] : Timeline(d) < w.val /\ w.val < timeline_value[d]
    BY DEF QueueInv
  <2> QED
    BY <1>1, <1>2, <1>3, <2>1
<1>6. running[d] = {}
  <2>1. \A v \in running[d] : v = Timeline(d) + 1 /\ v < timeline_value[d]
    BY DEF QueueInv
  <2> QED
    BY <1>1, <1>2, <1>4, <2>1
<1>7. Timeline(d) < timeline_value[d]
  BY DEF QueueInv
<1> QED
  BY <1>1, <1>2, <1>5, <1>6, <1>7

LEMMA QueueSame ==
  ASSUME QueueInv, UNCHANGED <<timeline_value, timeline_signal, signal_value, pending, running>>
  PROVE  QueueInv'
  BY DEF QueueInv, Timeline

LEMMA QueueSubmit ==
  ASSUME TypeOK, QueueInv, NEW d \in Device, NEW q, NEW extra, NEW kargs, NEW src, NEW dst,
         NEW bufs, NEW touch, Submit(d, Submission(d, q, extra, kargs, src, dst, bufs, touch))
  PROVE  QueueInv'
<1> DEFINE n == Submission(d, q, extra, kargs, src, dst, bufs, touch)
<1>1. /\ n.val = timeline_value[d] /\ n.sig = timeline_signal[d]
      /\ [dev |-> d, sig |-> n.sig, val |-> n.val - 1] \in n.waits
  BY DEF Submission, LastIssued
<1> HIDE DEF n
<1> SUFFICES ASSUME NEW e \in Device
             PROVE  /\ Timeline(e)' < timeline_value'[e]
                    /\ \A w \in pending'[e] :
                         /\ w.sig = timeline_signal'[e]
                         /\ Timeline(e)' < w.val /\ w.val < timeline_value'[e]
                         /\ [dev |-> e, sig |-> w.sig, val |-> w.val - 1] \in w.waits
                    /\ \A w, x \in pending'[e] : w.val = x.val => w = x
                    /\ \A v \in running'[e] : v = Timeline(e)' + 1 /\ v < timeline_value'[e]
  BY DEF QueueInv
<1>2. /\ Timeline(e)' = Timeline(e) /\ timeline_signal' = timeline_signal /\ running' = running
      /\ Timeline(e) \in Nat /\ timeline_value[e] \in Nat
      /\ \A w \in pending[e] : w.val \in Nat
      /\ running[e] \in SUBSET Nat
  BY TimelineType DEF Submit, Timeline, TypeOK, Work
<1>3. /\ pending'[d] = pending[d] \cup {n} /\ timeline_value'[d] = timeline_value[d] + 1
      /\ \A x \in Device \ {d} : pending'[x] = pending[x] /\ timeline_value'[x] = timeline_value[x]
  BY DEF Submit, TypeOK, n
<1>4. CASE e = d
  <2>1. /\ Timeline(e) < timeline_value[e]
        /\ \A w \in pending[e] :
             /\ w.sig = timeline_signal[e]
             /\ Timeline(e) < w.val /\ w.val < timeline_value[e]
             /\ [dev |-> e, sig |-> w.sig, val |-> w.val - 1] \in w.waits
        /\ \A w, x \in pending[e] : w.val = x.val => w = x
        /\ \A v \in running[e] : v = Timeline(e) + 1 /\ v < timeline_value[e]
    BY DEF QueueInv
  <2>2. \A w \in pending'[e] :
          /\ w.sig = timeline_signal'[e]
          /\ Timeline(e)' < w.val /\ w.val < timeline_value'[e]
          /\ [dev |-> e, sig |-> w.sig, val |-> w.val - 1] \in w.waits
    BY <1>1, <1>2, <1>3, <1>4, <2>1
  <2>3. \A w, x \in pending'[e] : w.val = x.val => w = x
    <3>1. ASSUME NEW w \in pending[e] PROVE w.val # n.val
      <4>1. w.val \in Nat /\ timeline_value[e] \in Nat
        BY <1>2
      <4>2. w.val < timeline_value[e]
        BY <2>1
      <4>3. n.val = timeline_value[e]
        BY <1>1, <1>4
      <4> QED
        BY <4>1, <4>2, <4>3
    <3>2. pending'[e] = pending[e] \cup {n}
      BY <1>3, <1>4
    <3> QED
      BY <2>1, <3>1, <3>2
  <2> QED
    BY <1>2, <1>3, <1>4, <2>1, <2>2, <2>3
<1>5. CASE e # d
  BY <1>2, <1>3, <1>5 DEF QueueInv
<1> QED
  BY <1>4, <1>5

LEMMA QueueStart ==
  ASSUME TypeOK, QueueInv, NEW d \in Device, NEW w \in pending[d], Start(d, w)
  PROVE  QueueInv'
<1>1. Reached([dev |-> d, sig |-> w.sig, val |-> w.val - 1])
  BY DEF Start, QueueInv
<1>2. /\ Timeline(d) >= w.val - 1 /\ Timeline(d) < w.val
      /\ Timeline(d) \in Nat /\ w.val \in Nat /\ w.val < timeline_value[d]
  <2>1. w.sig = timeline_signal[d] /\ Timeline(d) < w.val /\ w.val < timeline_value[d]
    BY DEF QueueInv
  <2>2. signal_value[d][w.sig] >= w.val - 1
    BY <1>1 DEF Reached
  <2>3. w.val \in Nat
    BY DEF TypeOK, Work
  <2>4. Timeline(d) \in Nat
    BY TimelineType
  <2>5. Timeline(d) = signal_value[d][timeline_signal[d]]
    BY DEF Timeline
  <2> QED
    BY <2>1, <2>2, <2>3, <2>4, <2>5
<1>3. w.val = Timeline(d) + 1
  BY <1>2
<1>4. UNCHANGED <<timeline_value, timeline_signal, signal_value, pending>>
  BY DEF Start, devVars
<1>5. /\ running'[d] = running[d] \cup {w.val}
      /\ \A x \in Device \ {d} : running'[x] = running[x]
  BY DEF Start, TypeOK
<1> QED
  BY <1>2, <1>3, <1>4, <1>5 DEF QueueInv, Timeline

LEMMA QueueFinish ==
  ASSUME TypeOK, QueueInv, NEW d \in Device, NEW w \in pending[d], Finish(d, w)
  PROVE  /\ QueueInv'
         /\ Timeline(d)' = Timeline(d) + 1
         /\ \A x \in Device \ {d} : Timeline(x)' = Timeline(x)
<1>1. /\ Timeline(d) \in Nat /\ timeline_value[d] \in Nat
      /\ \A x \in pending[d] : x.val \in Nat
      /\ running[d] \in SUBSET Nat
  BY TimelineType DEF TypeOK, Work
<1>2. w.val = Timeline(d) + 1 /\ w.sig = timeline_signal[d] /\ w.val < timeline_value[d]
  BY DEF Finish, QueueInv
<1>3. UNCHANGED <<timeline_value, timeline_signal>>
  BY DEF Finish
<1>4. /\ pending'[d] = pending[d] \ {w} /\ running'[d] = running[d] \ {w.val}
      /\ \A x \in Device \ {d} : pending'[x] = pending[x] /\ running'[x] = running[x]
  BY DEF Finish, TypeOK
<1>5. /\ Timeline(d)' = w.val
      /\ \A x \in Device \ {d} : Timeline(x)' = Timeline(x)
  <2>1. timeline_signal[d] \in 0..1 /\ signal_value \in [Device -> [0..1 -> Nat]]
    BY DEF TypeOK
  <2> QED
    BY <1>2, <1>3, <2>1 DEF Finish, Timeline
<1>6. running'[d] = {}
  BY <1>2, <1>4 DEF QueueInv
<1>7. \A x \in pending'[d] : Timeline(d)' < x.val
  <2>1. \A x \in pending[d] : Timeline(d) < x.val /\ (x.val = w.val => x = w)
    BY DEF QueueInv
  <2> QED
    BY <1>1, <1>2, <1>4, <1>5, <2>1
<1> QED
  BY <1>1, <1>2, <1>3, <1>4, <1>5, <1>6, <1>7 DEF QueueInv

LEMMA QueueFault ==
  ASSUME TypeOK, QueueInv, NEW d \in Device, NEW w \in pending[d], CpuFault(d, w)
  PROVE  QueueInv'
<1>1. UNCHANGED <<timeline_value, timeline_signal, signal_value>>
  BY DEF CpuFault
<1>2. \A x \in Device : pending'[x] \subseteq pending[x] /\ running'[x] \subseteq running[x]
  BY DEF CpuFault, TypeOK
<1> QED
  BY <1>1, <1>2 DEF QueueInv, Timeline

LEMMA QueueSync ==
  ASSUME TypeOK, QueueInv, NEW d \in Device, SyncDevice(d)
  PROVE  QueueInv'
<1>1. pending[d] = {} /\ running[d] = {}
  BY DrainedIdle DEF SyncDevice
<1>2. CASE WrapTimeline(d)
  <2>1. timeline_signal[d] \in 0..1
    BY DEF TypeOK
  <2>2. 1 - timeline_signal[d] \in 0..1
    BY <2>1
  <2>3. Timeline(d)' = 0 /\ timeline_value'[d] = 1
    BY <1>2, <2>2 DEF WrapTimeline, Timeline, TypeOK
  <2>4. \A x \in Device \ {d} : /\ Timeline(x)' = Timeline(x)
                                /\ timeline_value'[x] = timeline_value[x]
                                /\ timeline_signal'[x] = timeline_signal[x]
    BY <1>2 DEF WrapTimeline, Timeline, TypeOK
  <2>5. pending' = pending /\ running' = running
    BY DEF SyncDevice
  <2> QED
    BY <1>1, <2>3, <2>4, <2>5 DEF QueueInv
<1>3. CASE ~WrapTimeline(d)
  BY <1>3, QueueSame DEF SyncDevice
<1> QED
  BY <1>2, <1>3

-----------------------------------------------------------------------------
(* Memory: who may still read the kernargs bytes and staging slots.           *)

\* A staging slot is tagged at least with the last submission that reads it.
SlotInv ==
  \A d \in Device : \A w \in pending[d] : \A s \in w.src : w.val <= b_timeline[d][s]

\* Unless a wait was abandoned: only the read-back under way writes a slot, and the
\* bytes in use lie below the bump pointer, except while a wrapped allocation drains.
OperandInv ==
  \A d \in Device :
    \/ gave_up[d]
    \/ /\ clobbered[d] = {}
       /\ \A w \in pending[d] : w.dst # {} => pc = "out" /\ dev = d
       /\ pc = "out" /\ dev = d => \A w \in pending[d] : w.src = {}
       /\ \/ pc = "drain" /\ dev = d /\ \A a \in args.kargs : a < kernargs_ptr[d]
          \/ ~(pc = "drain" /\ dev = d)
               /\ \A w \in pending[d] : \A a \in w.kargs : a < kernargs_ptr[d]

MapInv ==
  /\ NoUseAfterUnmap
  /\ pc \in {"drain", "stage", "disk", "readback", "out"} => dev \in mapped[args.buf]

IInv == TypeInv /\ QueueInv /\ BlockInv /\ SlotInv /\ OperandInv /\ MapInv

\* What Submit does to the queues.
LEMMA SubmitPending ==
  ASSUME TypeOK, NEW d \in Device, NEW w, Submit(d, w)
  PROVE  /\ pending'[d] = pending[d] \cup {w}
         /\ \A x \in Device \ {d} : pending'[x] = pending[x]
  BY DEF Submit, TypeOK

LEMMA SubmissionFields ==
  ASSUME NEW d, NEW q, NEW extra, NEW kargs, NEW src, NEW dst, NEW bufs, NEW touch
  PROVE  LET w == Submission(d, q, extra, kargs, src, dst, bufs, touch)
         IN  /\ w.val = timeline_value[d] /\ w.kargs = kargs /\ w.src = src
             /\ w.dst = dst /\ w.bufs = bufs /\ w.touch = touch /\ w.no = clock
  BY DEF Submission

\* A submission that reads no staging slot keeps SlotInv.
LEMMA SlotSubmit ==
  ASSUME TypeOK, SlotInv, NEW d \in Device, NEW w, w.src = {}, Submit(d, w),
         UNCHANGED b_timeline
  PROVE  SlotInv'
  BY SubmitPending DEF SlotInv

\* The copy of a slot tags it with its own value, the largest so far.
LEMMA SlotCopy ==
  ASSUME TypeOK, QueueInv, SlotInv, NEW d \in Device, NEW s \in Slot, NEW b, CopySubmit(d, s, b)
  PROVE  SlotInv'
<1> DEFINE n == Submission(d, "copy", {}, {}, {s}, {}, {b}, {d})
<1>1. n.val = timeline_value[d] /\ n.src = {s}
  BY SubmissionFields
<1>2. /\ pending'[d] = pending[d] \cup {n}
      /\ \A x \in Device \ {d} : pending'[x] = pending[x]
  BY SubmitPending DEF CopySubmit
<1> HIDE DEF n
<1>3. /\ b_timeline'[d] = [b_timeline[d] EXCEPT ![s] = timeline_value[d]]
      /\ \A x \in Device \ {d} : b_timeline'[x] = b_timeline[x]
      /\ b_timeline[d] \in [Slot -> Nat]
  BY DEF CopySubmit, TypeOK
<1>4. /\ \A w \in pending[d] : w.val < timeline_value[d] /\ w.val \in Nat /\ w.src \in SUBSET Slot
      /\ timeline_value[d] \in Nat
  <2>1. \A w \in pending[d] : w.val < timeline_value[d]
    BY DEF QueueInv
  <2>2. \A w \in pending[d] : w.val \in Nat /\ w.src \in SUBSET Slot
    BY DEF TypeOK, Work
  <2> QED
    BY <2>1, <2>2 DEF TypeOK
<1>5. ASSUME NEW w \in pending'[d], NEW t \in w.src PROVE w.val <= b_timeline'[d][t]
  <2>1. CASE w = n
    BY <1>1, <1>3, <1>4, <1>5, <2>1
  <2>2. CASE w \in pending[d]
    <3>1. w.val <= b_timeline[d][t] /\ t \in Slot
      BY <1>4, <1>5, <2>2 DEF SlotInv
    <3>2. CASE t = s
      BY <1>3, <1>4, <2>2, <3>2
    <3>3. CASE t # s
      BY <1>3, <3>1, <3>3
    <3> QED
      BY <3>2, <3>3
  <2> QED
    BY <1>2, <1>5, <2>1, <2>2
<1> QED
  BY <1>2, <1>3, <1>5 DEF SlotInv

\* Nobody queued reads a slot that its tag says is free.
LEMMA FreeSlotUnused ==
  ASSUME TypeOK, QueueInv, SlotInv, NEW d \in Device, NEW s \in Slot, SlotFree(d, s)
  PROVE  Users(d, {}, {s}) = {}
<1> SUFFICES ASSUME NEW w \in pending[d], s \in w.src PROVE FALSE
  BY DEF Users
<1>1. w.val <= b_timeline[d][s]
  BY DEF SlotInv
<1>2. b_timeline[d][s] <= Timeline(d)
  BY DEF SlotFree
<1>3. Timeline(d) < w.val
  BY DEF QueueInv
<1>4. w.val \in Nat /\ b_timeline[d][s] \in Nat /\ Timeline(d) \in Nat
  BY TimelineType DEF TypeOK, Work
<1> QED
  BY <1>1, <1>2, <1>3, <1>4

LEMMA OverwriteUnused ==
  ASSUME TypeOK, NEW d \in Device, NEW K, NEW S, Users(d, K, S) = {}, Overwrite(d, K, S)
  PROVE  clobbered' = clobbered
  BY DEF Overwrite, TypeOK

\* A submission whose buffers are mapped keeps NoUseAfterUnmap.
LEMMA MapSubmit ==
  ASSUME TypeOK, NoUseAfterUnmap, NEW d \in Device, NEW w, \A b \in w.bufs : d \in mapped[b],
         Submit(d, w), UNCHANGED mapped
  PROVE  NoUseAfterUnmap'
<1>1. /\ pending'[d] = pending[d] \cup {w}
      /\ \A x \in Device \ {d} : pending'[x] = pending[x]
  BY SubmitPending
<1> SUFFICES ASSUME NEW e \in Device, NEW v \in pending'[e], NEW b \in v.bufs
             PROVE  e \in mapped[b]
  BY DEF NoUseAfterUnmap
<1>2. CASE e = d /\ v = w
  BY <1>2
<1>3. CASE v \in pending[e]
  BY <1>3 DEF NoUseAfterUnmap
<1> QED
  BY <1>1, <1>2, <1>3

-----------------------------------------------------------------------------
(* One lemma per action that the memory invariants depend on.                 *)

\* The drain of a wrapped allocation leaves nothing queued that reads kernargs.
LEMMA StepLaunchDrained == ASSUME IInv, LaunchDrained PROVE SlotInv' /\ OperandInv' /\ MapInv' /\ BlockInv'
<1> DEFINE n == Submission(dev, "compute", {}, args.kargs, {}, {}, {args.buf}, {dev})
<1>1. pc = "drain" /\ todo = {} /\ dev \in Device /\ dev \in mapped[args.buf]
  BY DEF LaunchDrained, AtEnd, IInv, TypeInv, HostOK, MapInv
<1>2. pending[dev] = {}
  BY <1>1 DEF IInv, BlockInv
<1>3. /\ Submit(dev, n) /\ Overwrite(dev, args.kargs, {}) /\ Return
      /\ UNCHANGED <<b_timeline, mapped, gave_up, kernargs_ptr>>
  BY DEF LaunchDrained, LaunchSubmit
<1>4. n.src = {} /\ n.dst = {} /\ n.kargs = args.kargs /\ n.bufs = {args.buf}
  BY SubmissionFields
<1> HIDE DEF n
<1>5. clobbered' = clobbered
  <2>1. Users(dev, args.kargs, {}) = {}
    BY <1>2 DEF Users
  <2> QED
    BY <1>1, <1>3, <2>1, OverwriteUnused DEF IInv, TypeInv
<1>6. /\ pending'[dev] = {n}
      /\ \A x \in Device \ {dev} : pending'[x] = pending[x]
  BY <1>1, <1>2, <1>3, SubmitPending DEF IInv, TypeInv
<1>7. pc' = "idle"
  BY <1>3 DEF Return, Goto
<1>8. OperandInv'
  BY <1>1, <1>3, <1>4, <1>5, <1>6, <1>7 DEF IInv, OperandInv
<1>9. SlotInv'
  BY <1>1, <1>3, <1>4, SlotSubmit DEF IInv, TypeInv
<1>10. MapInv'
  BY <1>1, <1>3, <1>4, <1>7, MapSubmit DEF IInv, TypeInv, MapInv
<1> QED
  BY <1>7, <1>8, <1>9, <1>10 DEF BlockInv

\* Without a wrap the new bytes lie above every byte in use.
LEMMA StepLaunch ==
  ASSUME IInv, NEW d \in Device, NEW size \in KernargsSizes, NEW b \in Buffer, Launch(d, size, b)
  PROVE  SlotInv' /\ OperandInv' /\ MapInv' /\ BlockInv'
<1> DEFINE K == Bytes(kernargs_ptr[d], size)
           n == Submission(d, "compute", {}, K, {}, {}, {b}, {d})
<1>1. pc = "idle" /\ d \in mapped[b] /\ kernargs_ptr[d] \in 0..KernargsCap
  BY DEF Launch, IInv, TypeInv, TypeOK
<1>2. /\ Submit(d, n) /\ Overwrite(d, K, {}) /\ Return
      /\ UNCHANGED <<b_timeline, mapped, gave_up>>
  BY DEF Launch, LaunchSubmit
<1>3. n.src = {} /\ n.dst = {} /\ n.kargs = K /\ n.bufs = {b}
  BY SubmissionFields
<1>4. /\ \A a \in K : a \in Nat /\ a >= kernargs_ptr[d] /\ a < kernargs_ptr'[d]
      /\ kernargs_ptr'[d] \in Nat /\ kernargs_ptr'[d] >= kernargs_ptr[d]
      /\ \A x \in Device \ {d} : kernargs_ptr'[x] = kernargs_ptr[x]
  <2> DEFINE off == BumpOffset(kernargs_ptr[d], size, KernargsAlign, KernargsCap)
             nxt == BumpPtr(kernargs_ptr[d], size, KernargsAlign, KernargsCap)
  <2>1. /\ off \in Nat /\ nxt \in 0..KernargsCap /\ nxt = off + size
        /\ off >= kernargs_ptr[d]
    BY <1>1, BumpInside DEF Launch
  <2>2. kernargs_ptr' = [kernargs_ptr EXCEPT ![d] = nxt] /\ kernargs_ptr \in [Device -> 0..KernargsCap]
    BY DEF Launch, IInv, TypeInv, TypeOK
  <2>3. K = {x \in 0..(KernargsCap - 1) : off <= x /\ x < off + size}
    BY DEF Bytes
  <2> HIDE DEF off, nxt, K, n
  <2>4. size \in Nat /\ KernargsCap \in Nat
    BY KernargsAssumption
  <2> QED
    BY <1>1, <2>1, <2>2, <2>3, <2>4
<1> HIDE DEF n, K
<1>5. /\ pending'[d] = pending[d] \cup {n}
      /\ \A x \in Device \ {d} : pending'[x] = pending[x]
  BY <1>2, SubmitPending DEF IInv, TypeInv
<1>6. pc' = "idle"
  BY <1>2 DEF Return, Goto
<1>7. gave_up[d] \/ clobbered' = clobbered
  <2>1. SUFFICES ASSUME ~gave_up[d] PROVE clobbered' = clobbered
    OBVIOUS
  <2>2. \A w \in pending[d] : \A a \in w.kargs : a < kernargs_ptr[d] /\ a \in Nat
    BY <1>1, <2>1, KernargsAssumption DEF IInv, OperandInv, TypeInv, TypeOK, Work
  <2>3. Users(d, K, {}) = {}
    <3>1. SUFFICES ASSUME NEW w \in pending[d], NEW a \in w.kargs, a \in K PROVE FALSE
      BY DEF Users
    <3> QED
      BY <1>1, <1>4, <2>2, <3>1
  <2> QED
    BY <1>2, <2>3, OverwriteUnused DEF IInv, TypeInv
<1>8. \A x \in Device \ {d} : clobbered'[x] = clobbered[x]
  BY <1>2 DEF Overwrite, IInv, TypeInv, TypeOK
<1>9. OperandInv'
  <2> SUFFICES ASSUME NEW e \in Device, ~gave_up'[e]
               PROVE  /\ clobbered'[e] = {}
                      /\ \A w \in pending'[e] : w.dst = {}
                      /\ \A w \in pending'[e] : \A a \in w.kargs : a < kernargs_ptr'[e]
    BY <1>6 DEF OperandInv
  <2>1. /\ clobbered[e] = {}
        /\ \A w \in pending[e] : w.dst = {}
        /\ \A w \in pending[e] : \A a \in w.kargs : a < kernargs_ptr[e] /\ a \in Nat
    BY <1>1, <1>2, KernargsAssumption DEF IInv, OperandInv, TypeInv, TypeOK, Work
  <2>2. CASE e = d
    <3>1. clobbered'[e] = {}
      BY <1>2, <1>7, <2>1, <2>2
    <3>2. \A w \in pending[e] : \A a \in w.kargs : a < kernargs_ptr'[e]
      BY <1>1, <1>4, <2>1, <2>2
    <3> QED
      BY <1>3, <1>4, <1>5, <2>1, <2>2, <3>1, <3>2
  <2>3. CASE e # d
    BY <1>4, <1>5, <1>8, <2>1, <2>3
  <2> QED
    BY <2>2, <2>3
<1>10. SlotInv'
  BY <1>2, <1>3, SlotSubmit DEF IInv, TypeInv
<1>11. MapInv'
  BY <1>1, <1>2, <1>3, <1>6, MapSubmit DEF IInv, TypeInv, MapInv
<1> QED
  BY <1>6, <1>9, <1>10, <1>11 DEF BlockInv

MemInv == SlotInv /\ OperandInv /\ MapInv /\ BlockInv

\* Host steps that touch neither queues nor memory.
LEMMA MemQuiet ==
  ASSUME IInv, pc \notin {"drain", "out"}, pc' \notin {"drain", "out"},
         UNCHANGED <<pending, clobbered, kernargs_ptr, b_timeline, gave_up>>
  PROVE  SlotInv' /\ OperandInv'
  BY DEF IInv, SlotInv, OperandInv

LEMMA MapQuiet ==
  ASSUME IInv, UNCHANGED <<pending, mapped>>,
         pc' \in {"drain", "stage", "disk", "readback", "out"} => dev' \in mapped[args'.buf]
  PROVE  MapInv'
  BY DEF IInv, MapInv, NoUseAfterUnmap

LEMMA StepReturn ==
  ASSUME IInv, SyncReturn \/ CopyinRaise \/ DirectReturn \/ DiskReturn \/ DiskRaise
  PROVE  MemInv'
<1>1. /\ pc \notin {"drain", "out"} /\ pc' = "idle"
      /\ UNCHANGED <<pending, clobbered, kernargs_ptr, b_timeline, gave_up, mapped>>
  BY DEF SyncReturn, CopyinRaise, DirectReturn, DiskReturn, DiskRaise, Return, Goto, AtEnd, memVars
<1> QED
  BY <1>1, MemQuiet, MapQuiet DEF MemInv, BlockInv

LEMMA StepBeginCopy ==
  ASSUME IInv, NEW d \in Device, NEW b \in Buffer,
         DirectCopy(d, b) \/ Copyout(d, b)
  PROVE  MemInv'
<1>1. /\ pc = "idle" /\ pc' \in {"direct", "readback"} /\ dev' = d /\ d \in todo'
      /\ UNCHANGED <<pending, clobbered, kernargs_ptr, b_timeline, gave_up, mapped>>
  BY DEF DirectCopy, Copyout, Goto, SyncSet, memVars
<1>2. pc' = "readback" => args'.buf = b /\ d \in mapped[b]
  BY DEF DirectCopy, Copyout, Goto, NoArgs
<1> QED
  BY <1>1, <1>2, MemQuiet, MapQuiet DEF MemInv, BlockInv

LEMMA StepBeginStage ==
  ASSUME IInv, NEW d \in Device, NEW b \in Buffer, Copyin(d, b) \/ DiskRead(d, b)
  PROVE  MemInv'
<1>1. /\ pc = "idle" /\ pc' \in {"stage", "disk"} /\ dev' = d /\ args'.buf = b /\ d \in mapped[b]
      /\ UNCHANGED <<pending, clobbered, kernargs_ptr, b_timeline, gave_up, mapped>>
  BY DEF Copyin, DiskRead, Goto, NoArgs, memVars
<1> QED
  BY <1>1, MemQuiet, MapQuiet DEF MemInv, BlockInv

LEMMA StepFree == ASSUME IInv, NEW b \in Buffer, Free(b) PROVE MemInv'
<1>1. /\ pc = "idle" /\ pc' = "free" /\ args'.buf = b /\ mapped[b] \subseteq todo'
      /\ UNCHANGED <<pending, clobbered, kernargs_ptr, b_timeline, gave_up, mapped>>
  BY DEF Free, Goto, NoArgs, SyncSet, memVars
<1> QED
  BY <1>1, MemQuiet, MapQuiet DEF MemInv, BlockInv

\* Nothing queued on a device that maps the buffer: unmapping it is safe.
LEMMA StepFreeUnmap == ASSUME IInv, FreeUnmap PROVE MemInv'
<1>1. /\ pc = "free" /\ todo = {} /\ pc' = "idle" /\ args.buf \in Buffer
      /\ mapped' = [mapped EXCEPT ![args.buf] = {}]
      /\ UNCHANGED <<pending, clobbered, kernargs_ptr, b_timeline, gave_up>>
  BY DEF FreeUnmap, AtEnd, Return, Goto, IInv, TypeInv, HostOK
<1>2. \A d \in mapped[args.buf] : pending[d] = {}
  BY <1>1 DEF IInv, BlockInv
<1>3. NoUseAfterUnmap'
  <2> SUFFICES ASSUME NEW d \in Device, NEW w \in pending[d], NEW b \in w.bufs
               PROVE  d \in mapped'[b]
    BY <1>1 DEF NoUseAfterUnmap
  <2>1. d \in mapped[b] /\ b \in Buffer
    BY DEF IInv, MapInv, NoUseAfterUnmap, TypeInv, TypeOK, Work
  <2>2. b # args.buf
    BY <1>2, <2>1
  <2> QED
    BY <1>1, <2>1, <2>2 DEF IInv, TypeInv, TypeOK
<1> QED
  BY <1>1, <1>3, MemQuiet DEF MemInv, MapInv, BlockInv

LEMMA StepAlloc ==
  ASSUME IInv, NEW d \in Device, NEW b \in Buffer, Alloc(d, b)
  PROVE  MemInv'
<1>1. /\ pc = "idle" /\ pc' = "idle" /\ mapped[b] = {} /\ mapped' = [mapped EXCEPT ![b] = {d}]
      /\ UNCHANGED <<pending, clobbered, kernargs_ptr, b_timeline, gave_up>>
  BY DEF Alloc, hostVars
<1>2. NoUseAfterUnmap'
  <2> SUFFICES ASSUME NEW e \in Device, NEW w \in pending[e], NEW c \in w.bufs
               PROVE  e \in mapped'[c]
    BY <1>1 DEF NoUseAfterUnmap
  <2>1. e \in mapped[c] /\ c \in Buffer
    BY DEF IInv, MapInv, NoUseAfterUnmap, TypeInv, TypeOK, Work
  <2> QED
    BY <1>1, <2>1 DEF IInv, TypeInv, TypeOK
<1> QED
  BY <1>1, <1>2, MemQuiet DEF MemInv, MapInv, BlockInv

\* The pointer has moved below the bytes in use: the invariant waits for the drain.
LEMMA StepLaunchWrap ==
  ASSUME IInv, NEW d \in Device, NEW size \in KernargsSizes, NEW b \in Buffer, LaunchWrap(d, size, b)
  PROVE  MemInv'
<1> DEFINE K == Bytes(kernargs_ptr[d], size)
           off == BumpOffset(kernargs_ptr[d], size, KernargsAlign, KernargsCap)
           nxt == BumpPtr(kernargs_ptr[d], size, KernargsAlign, KernargsCap)
<1>1. /\ pc = "idle" /\ pc' = "drain" /\ dev' = d /\ d \in todo' /\ d \in mapped[b]
      /\ args' = [NoArgs EXCEPT !.kargs = K, !.buf = b]
      /\ UNCHANGED <<pending, clobbered, b_timeline, gave_up, mapped>>
      /\ kernargs_ptr' = [kernargs_ptr EXCEPT ![d] = nxt]
  BY DEF LaunchWrap, Goto, SyncSet
<1>2. args'.kargs = K /\ args'.buf = b
  BY <1>1 DEF NoArgs
<1>3. kernargs_ptr[d] \in 0..KernargsCap /\ kernargs_ptr \in [Device -> 0..KernargsCap]
  BY DEF IInv, TypeInv, TypeOK
<1>4. off \in Nat /\ nxt \in 0..KernargsCap /\ nxt = off + size
  BY <1>3, BumpInside
<1>5. K = {x \in 0..(KernargsCap - 1) : off <= x /\ x < off + size}
  BY DEF Bytes
<1> HIDE DEF off, nxt, K
<1>6. /\ \A a \in K : a < kernargs_ptr'[d]
      /\ \A x \in Device \ {d} : kernargs_ptr'[x] = kernargs_ptr[x]
  BY <1>1, <1>3, <1>4, <1>5, KernargsAssumption
<1>7. OperandInv'
  BY <1>1, <1>2, <1>6 DEF IInv, OperandInv
<1>8. SlotInv'
  BY <1>1 DEF IInv, SlotInv
<1>9. MapInv'
  BY <1>1, <1>2, MapQuiet
<1> QED
  BY <1>1, <1>7, <1>8, <1>9 DEF MemInv, BlockInv

LEMMA StepSyncDevice == ASSUME IInv, NEW d \in Device, SyncDevice(d) PROVE MemInv'
<1>1. pending[d] = {}
  BY DrainedIdle DEF SyncDevice, IInv, TypeInv
<1>2. /\ todo' = todo \ {d}
      /\ UNCHANGED <<pending, clobbered, kernargs_ptr, gave_up, mapped, pc, dev, args>>
  BY DEF SyncDevice
<1>3. \A x \in Device \ {d} : b_timeline'[x] = b_timeline[x]
  BY DEF SyncDevice, WrapTimeline, IInv, TypeInv, TypeOK
<1>4. SlotInv'
  BY <1>1, <1>2, <1>3 DEF IInv, SlotInv
<1>5. OperandInv'
  BY <1>2 DEF IInv, OperandInv
<1>6. MapInv'
  BY <1>2, MapQuiet DEF IInv, MapInv
<1>7. BlockInv'
  BY <1>1, <1>2 DEF IInv, BlockInv
<1> QED
  BY <1>4, <1>5, <1>6, <1>7 DEF MemInv

\* An abandoned drain gives up on its device; any other exception changes no memory.
LEMMA StepSyncRaise == ASSUME IInv, NEW d \in Device, SyncRaise(d) PROVE MemInv'
<1>1. /\ pc' = "idle" /\ todo # {}
      /\ UNCHANGED <<pending, clobbered, kernargs_ptr, b_timeline, mapped>>
      /\ gave_up' = IF pc = "drain" THEN [gave_up EXCEPT ![dev] = TRUE] ELSE gave_up
  BY DEF SyncRaise, Return, Goto, memVars
<1>2. \A e \in Device : ~gave_up'[e] => ~gave_up[e] /\ ~(pc = "drain" /\ dev = e)
  BY <1>1 DEF IInv, TypeInv, TypeOK
<1>3. pc # "out"
  BY <1>1 DEF IInv, TypeInv, HostOK
<1>4. OperandInv'
  BY <1>1, <1>2, <1>3 DEF IInv, OperandInv
<1>5. SlotInv'
  BY <1>1 DEF IInv, SlotInv
<1>6. MapInv'
  BY <1>1, MapQuiet
<1> QED
  BY <1>1, <1>4, <1>5, <1>6 DEF MemInv, BlockInv

LEMMA StepCopyinChunk == ASSUME IInv, NEW more \in BOOLEAN, CopyinChunk(more) PROVE MemInv'
<1> DEFINE s == b_next[dev]
           n == Submission(dev, "copy", {}, {}, {s}, {}, {args.buf}, {dev})
<1>1. /\ pc = "stage" /\ dev \in Device /\ dev \in mapped[args.buf] /\ s \in Slot
      /\ SlotFree(dev, s) /\ Overwrite(dev, {}, {s}) /\ CopySubmit(dev, s, args.buf)
      /\ UNCHANGED <<kernargs_ptr, mapped, gave_up>>
  BY DEF CopyinChunk, IInv, TypeInv, HostOK, TypeOK, MapInv
<1>2. \/ pc' = "stage" /\ dev' = dev /\ todo' = todo /\ args' = args
      \/ pc' = "idle"
  BY <1>1 DEF CopyinChunk, hostVars, Return, Goto
<1>3. Submit(dev, n)
  BY <1>1 DEF CopySubmit
<1>4. n.dst = {} /\ n.kargs = {} /\ n.bufs = {args.buf}
  BY SubmissionFields
<1>5. clobbered' = clobbered
  <2>1. Users(dev, {}, {s}) = {}
    BY <1>1, FreeSlotUnused DEF IInv, TypeInv
  <2> QED
    BY <1>1, <2>1, OverwriteUnused DEF IInv, TypeInv
<1>6. SlotInv'
  BY <1>1, SlotCopy DEF IInv, TypeInv
<1> HIDE DEF n, s
<1>7. /\ pending'[dev] = pending[dev] \cup {n}
      /\ \A x \in Device \ {dev} : pending'[x] = pending[x]
  BY <1>1, <1>3, SubmitPending DEF IInv, TypeInv
<1>8. OperandInv'
  BY <1>1, <1>2, <1>4, <1>5, <1>7 DEF IInv, OperandInv
<1>9. MapInv'
  <2>1. NoUseAfterUnmap'
    BY <1>1, <1>3, <1>4, MapSubmit DEF IInv, TypeInv, MapInv
  <2> QED
    BY <1>1, <1>2, <2>1 DEF MapInv
<1> QED
  BY <1>2, <1>6, <1>8, <1>9 DEF MemInv, BlockInv

LEMMA StepDiskReserve == ASSUME IInv, DiskReserve PROVE MemInv'
<1>1. /\ pc = "disk" /\ dev \in Device /\ SlotFree(dev, NextSlot(dev))
      /\ Overwrite(dev, {}, {NextSlot(dev)})
      /\ UNCHANGED <<pending, kernargs_ptr, b_timeline, mapped, gave_up, pc, dev, todo, args>>
  BY DEF DiskReserve, hostVars, IInv, TypeInv, HostOK
<1>2. Users(dev, {}, {NextSlot(dev)}) = {}
  BY <1>1, NextSlotType, FreeSlotUnused DEF IInv, TypeInv
<1>3. clobbered' = clobbered
  BY <1>1, <1>2, OverwriteUnused DEF IInv, TypeInv
<1> QED
  BY <1>1, <1>3, MemQuiet, MapQuiet DEF MemInv, BlockInv, IInv, MapInv

LEMMA StepDiskSubmit == ASSUME IInv, NEW s \in Slot, DiskSubmit(s) PROVE MemInv'
<1> DEFINE n == Submission(dev, "copy", {}, {}, {s}, {}, {args.buf}, {dev})
<1>1. /\ pc = "disk" /\ dev \in Device /\ dev \in mapped[args.buf] /\ CopySubmit(dev, s, args.buf)
      /\ UNCHANGED <<clobbered, kernargs_ptr, mapped, gave_up, pc, dev, todo, args>>
  BY DEF DiskSubmit, hostVars, IInv, TypeInv, HostOK, MapInv
<1>2. Submit(dev, n)
  BY <1>1 DEF CopySubmit
<1>3. n.dst = {} /\ n.kargs = {} /\ n.bufs = {args.buf}
  BY SubmissionFields
<1>4. SlotInv'
  BY <1>1, SlotCopy DEF IInv, TypeInv
<1> HIDE DEF n
<1>5. /\ pending'[dev] = pending[dev] \cup {n}
      /\ \A x \in Device \ {dev} : pending'[x] = pending[x]
  BY <1>1, <1>2, SubmitPending DEF IInv, TypeInv
<1>6. OperandInv'
  BY <1>1, <1>3, <1>5 DEF IInv, OperandInv
<1>7. MapInv'
  <2>1. NoUseAfterUnmap'
    BY <1>1, <1>2, <1>3, MapSubmit DEF IInv, TypeInv, MapInv
  <2> QED
    BY <1>1, <2>1 DEF MapInv
<1> QED
  BY <1>1, <1>4, <1>6, <1>7 DEF MemInv, BlockInv

\* The synchronize before a read-back leaves nothing queued that reads slot 0.
LEMMA StepCopyoutChunk == ASSUME IInv, CopyoutChunk PROVE MemInv'
<1> DEFINE n == Submission(dev, "copy", {}, {}, {}, {0}, {args.buf}, {dev})
<1>1. /\ pc = "readback" /\ todo = {} /\ dev \in Device /\ dev \in mapped[args.buf]
      /\ pc' = "out" /\ dev' = dev /\ args' = args
      /\ Submit(dev, n)
      /\ UNCHANGED <<clobbered, kernargs_ptr, b_timeline, mapped, gave_up>>
  BY DEF CopyoutChunk, AtEnd, Goto, memVars, IInv, TypeInv, HostOK, MapInv
<1>2. pending[dev] = {}
  BY <1>1 DEF IInv, BlockInv
<1>3. n.dst = {0} /\ n.src = {} /\ n.kargs = {} /\ n.bufs = {args.buf}
  BY SubmissionFields
<1> HIDE DEF n
<1>4. /\ pending'[dev] = {n}
      /\ \A x \in Device \ {dev} : pending'[x] = pending[x]
  BY <1>1, <1>2, SubmitPending DEF IInv, TypeInv
<1>5. OperandInv'
  BY <1>1, <1>3, <1>4 DEF IInv, OperandInv
<1>6. SlotInv'
  BY <1>1, <1>3, SlotSubmit DEF IInv, TypeInv
<1>7. MapInv'
  <2>1. NoUseAfterUnmap'
    BY <1>1, <1>3, MapSubmit DEF IInv, TypeInv, MapInv
  <2> QED
    BY <1>1, <2>1 DEF MapInv
<1> QED
  BY <1>1, <1>5, <1>6, <1>7 DEF MemInv, BlockInv

\* A completed read-back left its device idle.
LEMMA StepCopyoutRead == ASSUME IInv, NEW more \in BOOLEAN, CopyoutRead(more) PROVE MemInv'
<1>1. /\ pc = "out" /\ dev \in Device /\ Drained(dev) /\ dev \in mapped[args.buf]
      /\ \/ pc' = "readback" /\ dev' = dev /\ args' = args
         \/ pc' = "idle"
      /\ UNCHANGED <<pending, clobbered, kernargs_ptr, b_timeline, mapped, gave_up>>
  BY DEF CopyoutRead, Goto, Return, memVars, IInv, TypeInv, HostOK, MapInv
<1>2. pending[dev] = {}
  BY <1>1, DrainedIdle DEF IInv, TypeInv
<1>3. OperandInv'
  BY <1>1, <1>2 DEF IInv, OperandInv
<1>4. SlotInv'
  BY <1>1 DEF IInv, SlotInv
<1>5. MapInv'
  BY <1>1, MapQuiet
<1> QED
  BY <1>1, <1>2, <1>3, <1>4, <1>5 DEF MemInv, BlockInv

LEMMA StepCopyoutRaise == ASSUME IInv, CopyoutRaise PROVE MemInv'
<1>1. /\ pc = "out" /\ pc' = "idle" /\ dev \in Device
      /\ gave_up' = [gave_up EXCEPT ![dev] = TRUE]
      /\ UNCHANGED <<pending, clobbered, kernargs_ptr, b_timeline, mapped>>
  BY DEF CopyoutRaise, Return, Goto, memVars, IInv, TypeInv, HostOK
<1>2. \A e \in Device : ~gave_up'[e] => ~gave_up[e] /\ e # dev
  BY <1>1 DEF IInv, TypeInv, TypeOK
<1>3. OperandInv'
  BY <1>1, <1>2 DEF IInv, OperandInv
<1>4. SlotInv'
  BY <1>1 DEF IInv, SlotInv
<1>5. MapInv'
  BY <1>1, MapQuiet
<1> QED
  BY <1>1, <1>3, <1>4, <1>5 DEF MemInv, BlockInv

LEMMA StepTransfer ==
  ASSUME IInv, NEW s \in Device, NEW d \in Device, NEW bs \in Buffer, NEW bd \in Buffer,
         Transfer(s, d, bs, bd)
  PROVE  MemInv'
<1> DEFINE n == Submission(s, "copy", {LastIssued(d)}, {}, {}, {}, {bs, bd}, {s, d})
<1>1. /\ pc = "idle" /\ s \in mapped[bs] /\ Submit(s, n)
      /\ mapped' = [mapped EXCEPT ![bd] = @ \cup {s}]
      /\ UNCHANGED <<clobbered, kernargs_ptr, b_timeline, gave_up>>
  BY DEF Transfer
<1>2. pc' \in {"idle", "join"}
  BY DEF Transfer, Return, Goto
<1>3. n.dst = {} /\ n.src = {} /\ n.kargs = {} /\ n.bufs = {bs, bd}
  BY SubmissionFields
<1> HIDE DEF n
<1>4. /\ pending'[s] = pending[s] \cup {n}
      /\ \A x \in Device \ {s} : pending'[x] = pending[x]
  BY <1>1, SubmitPending DEF IInv, TypeInv
<1>5. OperandInv'
  BY <1>1, <1>2, <1>3, <1>4 DEF IInv, OperandInv
<1>6. SlotInv'
  BY <1>1, <1>3, SlotSubmit DEF IInv, TypeInv
<1>7. NoUseAfterUnmap'
  <2> SUFFICES ASSUME NEW e \in Device, NEW v \in pending'[e], NEW b \in v.bufs
               PROVE  e \in mapped'[b]
    BY DEF NoUseAfterUnmap
  <2>1. /\ mapped \in [Buffer -> SUBSET Device]
        /\ \A c \in Buffer : mapped[c] \subseteq mapped'[c]
        /\ s \in mapped'[bs] /\ s \in mapped'[bd]
    BY <1>1 DEF IInv, TypeInv, TypeOK
  <2>2. CASE e = s /\ v = n
    BY <1>3, <2>1, <2>2
  <2>3. CASE v \in pending[e]
    <3>1. e \in mapped[b] /\ b \in Buffer
      BY <2>3 DEF IInv, MapInv, NoUseAfterUnmap, TypeInv, TypeOK, Work
    <3> QED
      BY <2>1, <3>1
  <2> QED
    BY <1>4, <2>2, <2>3
<1> QED
  BY <1>2, <1>5, <1>6, <1>7 DEF MemInv, MapInv, BlockInv

LEMMA StepTransferJoin == ASSUME IInv, TransferJoin PROVE MemInv'
<1> DEFINE n == Submission(dev, "compute", {LastIssued(args.peer)}, {}, {}, {}, {}, {dev})
<1>1. /\ pc = "join" /\ pc' = "idle" /\ dev \in Device /\ Submit(dev, n)
      /\ UNCHANGED <<clobbered, kernargs_ptr, b_timeline, mapped, gave_up>>
  BY DEF TransferJoin, Return, Goto, memVars, IInv, TypeInv, HostOK
<1>2. n.dst = {} /\ n.src = {} /\ n.kargs = {} /\ n.bufs = {}
  BY SubmissionFields
<1> HIDE DEF n
<1>3. /\ pending'[dev] = pending[dev] \cup {n}
      /\ \A x \in Device \ {dev} : pending'[x] = pending[x]
  BY <1>1, SubmitPending DEF IInv, TypeInv
<1>4. OperandInv'
  BY <1>1, <1>2, <1>3 DEF IInv, OperandInv
<1>5. SlotInv'
  BY <1>1, <1>2, SlotSubmit DEF IInv, TypeInv
<1>6. MapInv'
  BY <1>1, <1>2, MapSubmit DEF IInv, TypeInv, MapInv
<1> QED
  BY <1>1, <1>4, <1>5, <1>6 DEF MemInv, BlockInv

\* Steps of the devices only take submissions away, and spoil nothing.
LEMMA MemShrink ==
  ASSUME IInv, UNCHANGED <<memVars, hostVars, gave_up>>,
         \A e \in Device : pending'[e] \subseteq pending[e],
         \A e \in Device : gave_up[e] \/ clobbered'[e] \subseteq clobbered[e]
  PROVE  MemInv'
<1>1. UNCHANGED <<kernargs_ptr, b_timeline, mapped, pc, dev, todo, args, gave_up>>
  BY DEF memVars, hostVars
<1>2. SlotInv' /\ OperandInv'
  BY <1>1 DEF IInv, SlotInv, OperandInv
<1>3. MapInv'
  BY <1>1 DEF IInv, MapInv, NoUseAfterUnmap
<1>4. BlockInv'
  <2>1. /\ pc \in {"drain", "sync", "direct", "readback"} => dev \in Device
        /\ pc = "free" => mapped[args.buf] \subseteq Device
    BY DEF IInv, TypeInv, HostOK, TypeOK
  <2> QED
    BY <1>1, <2>1 DEF IInv, BlockInv
<1> QED
  BY <1>2, <1>3, <1>4 DEF MemInv

LEMMA StepFinish ==
  ASSUME IInv, NEW d \in Device, NEW w \in pending[d], Finish(d, w)
  PROVE  MemInv'
<1>1. /\ UNCHANGED <<memVars, hostVars, gave_up>>
      /\ \A e \in Device : pending'[e] \subseteq pending[e]
      /\ clobbered'[d] = (clobbered[d] \cup Users(d, {}, w.dst)) \ {w.val}
      /\ \A e \in Device \ {d} : clobbered'[e] = clobbered[e]
  BY DEF Finish, IInv, TypeInv, TypeOK
<1>2. gave_up[d] \/ Users(d, {}, w.dst) = {}
  BY DEF IInv, OperandInv, Users
<1> QED
  BY <1>1, <1>2, MemShrink

-----------------------------------------------------------------------------
(* The inductive invariant.                                                   *)

LEMMA InitIInv == Init => IInv
<1> SUFFICES ASSUME Init PROVE IInv
  OBVIOUS
<1>1. TypeInv
  BY TypeInit DEF TypeInv
<1>2. QueueInv
  BY DEF Init, QueueInv, Timeline
<1>3. BlockInv /\ SlotInv /\ OperandInv /\ MapInv
  BY DEF Init, BlockInv, SlotInv, OperandInv, MapInv, NoUseAfterUnmap
<1> QED
  BY <1>1, <1>2, <1>3 DEF IInv

LEMMA QueueNext == IInv /\ [Next]_vars => QueueInv'
<1> SUFFICES ASSUME IInv, [Next]_vars PROVE QueueInv'
  OBVIOUS
<1>1. TypeOK /\ HostOK /\ QueueInv
  BY DEF IInv, TypeInv
<1> DEFINE Same == UNCHANGED <<timeline_value, timeline_signal, signal_value, pending, running>>
<1>2. CASE LaunchDrained \/ TransferJoin \/ CopyoutChunk
  <2>1. dev \in Device
    BY <1>1, <1>2 DEF LaunchDrained, TransferJoin, CopyoutChunk, AtEnd, HostOK
  <2> QED
    BY <1>1, <1>2, <2>1, QueueSubmit DEF LaunchDrained, LaunchSubmit, TransferJoin, CopyoutChunk
<1>3. CASE (\E more \in BOOLEAN : CopyinChunk(more)) \/ (\E s \in Slot : DiskSubmit(s))
  <2>1. dev \in Device
    BY <1>1, <1>3 DEF CopyinChunk, DiskSubmit, HostOK
  <2> QED
    BY <1>1, <1>3, <2>1, QueueSubmit DEF CopyinChunk, DiskSubmit, CopySubmit
<1>4. CASE \E d \in Device, size \in KernargsSizes, b \in Buffer : Launch(d, size, b)
  BY <1>1, <1>4, QueueSubmit DEF Launch, LaunchSubmit
<1>5. CASE \E s, d \in Device, bs, bd \in Buffer : Transfer(s, d, bs, bd)
  BY <1>1, <1>5, QueueSubmit DEF Transfer
<1>6. CASE \E d \in Device : SyncDevice(d)
  BY <1>1, <1>6, QueueSync
<1>7. CASE \E d \in Device : DeviceStep(d)
  BY <1>1, <1>7, QueueStart, QueueFinish DEF DeviceStep
<1>8. CASE DeviceFault
  BY <1>1, <1>8, QueueFault DEF DeviceFault
<1>9. CASE \/ SyncReturn \/ CopyinRaise \/ DirectReturn \/ DiskReserve \/ DiskReturn
           \/ DiskRaise \/ CopyoutRaise \/ FreeUnmap
  <2>1. Same
    BY <1>9 DEF SyncReturn, CopyinRaise, DirectReturn, DiskReserve, DiskReturn, DiskRaise,
                CopyoutRaise, FreeUnmap, devVars
  <2> QED
    BY <1>1, <2>1, QueueSame
<1>10. CASE (\E d \in Device : SyncRaise(d)) \/ (\E more \in BOOLEAN : CopyoutRead(more))
  <2>1. Same
    BY <1>10 DEF SyncRaise, CopyoutRead, devVars
  <2> QED
    BY <1>1, <2>1, QueueSame
<1>11. CASE \/ \E d \in Device, size \in KernargsSizes, b \in Buffer : LaunchWrap(d, size, b)
            \/ \E d \in Device : Synchronize(d)
            \/ \E d \in Device, b \in Buffer :
                 Copyin(d, b) \/ DirectCopy(d, b) \/ DiskRead(d, b) \/ Copyout(d, b) \/ Alloc(d, b)
            \/ \E b \in Buffer : Free(b)
  <2>1. Same
    BY <1>11 DEF LaunchWrap, Synchronize, Copyin, DirectCopy, DiskRead, Copyout, Alloc, Free, devVars
  <2> QED
    BY <1>1, <2>1, QueueSame
<1>12. CASE UNCHANGED vars
  BY <1>1, <1>12, QueueSame DEF vars, devVars
<1> QED
  BY <1>2, <1>3, <1>4, <1>5, <1>6, <1>7, <1>8, <1>9, <1>10, <1>11, <1>12
  DEF Next, HostContinue, HostBegin

LEMMA MemNext == IInv /\ [Next]_vars => MemInv'
<1> SUFFICES ASSUME IInv, [Next]_vars PROVE MemInv'
  OBVIOUS
<1>1. CASE HostContinue
  BY <1>1, StepLaunchDrained, StepReturn, StepSyncDevice, StepSyncRaise, StepCopyinChunk,
     StepDiskReserve, StepDiskSubmit, StepCopyoutChunk, StepCopyoutRead, StepCopyoutRaise,
     StepTransferJoin, StepFreeUnmap DEF HostContinue, MemInv
<1>2. CASE HostBegin
  <2>1. ASSUME NEW d \in Device, NEW size \in KernargsSizes, NEW b \in Buffer,
               Launch(d, size, b) \/ LaunchWrap(d, size, b)
        PROVE  MemInv'
    BY <2>1, StepLaunch, StepLaunchWrap DEF MemInv
  <2>2. ASSUME NEW d \in Device, Synchronize(d) PROVE MemInv'
    <3>1. /\ pc = "idle" /\ pc' = "sync" /\ dev' = d /\ d \in todo'
          /\ UNCHANGED <<pending, clobbered, kernargs_ptr, b_timeline, gave_up, mapped>>
      BY <2>2 DEF Synchronize, Goto, SyncSet, memVars
    <3> QED
      BY <3>1, MemQuiet, MapQuiet DEF MemInv, BlockInv
  <2>3. ASSUME NEW d \in Device, NEW b \in Buffer,
               Copyin(d, b) \/ DirectCopy(d, b) \/ DiskRead(d, b) \/ Copyout(d, b) \/ Alloc(d, b)
        PROVE  MemInv'
    BY <2>3, StepBeginCopy, StepBeginStage, StepAlloc
  <2>4. ASSUME NEW s \in Device, NEW d \in Device, NEW bs \in Buffer, NEW bd \in Buffer,
               Transfer(s, d, bs, bd)
        PROVE  MemInv'
    BY <2>4, StepTransfer
  <2>5. ASSUME NEW b \in Buffer, Free(b) PROVE MemInv'
    BY <2>5, StepFree
  <2> QED
    BY <1>2, <2>1, <2>2, <2>3, <2>4, <2>5 DEF HostBegin
<1>3. CASE \E d \in Device : DeviceStep(d)
  <2>1. ASSUME NEW d \in Device, NEW w \in pending[d], Start(d, w) PROVE MemInv'
    BY <2>1, MemShrink DEF Start
  <2> QED
    BY <1>3, <2>1, StepFinish DEF DeviceStep
<1>4. CASE DeviceFault
  <2>1. ASSUME NEW d \in Device, NEW w \in pending[d], CpuFault(d, w) PROVE MemInv'
    <3>1. \A e \in Device : pending'[e] \subseteq pending[e] /\ clobbered'[e] \subseteq clobbered[e]
      BY <2>1 DEF CpuFault, IInv, TypeInv, TypeOK
    <3> QED
      BY <2>1, <3>1, MemShrink DEF CpuFault
  <2> QED
    BY <1>4, <2>1 DEF DeviceFault
<1>5. CASE UNCHANGED vars
  BY <1>5, MemShrink DEF vars
<1> QED
  BY <1>1, <1>2, <1>3, <1>4, <1>5 DEF Next

LEMMA IInvNext == IInv /\ [Next]_vars => IInv'
  BY TypeNext, QueueNext, MemNext DEF IInv, MemInv

LEMMA IInvAlways == Spec => []IInv
  BY InitIInv, IInvNext, PTL DEF Spec

\* No kernarg byte, staging slot or read-back is overwritten under a submission that
\* still needs it, by fill_kernargs, _copyin, _get_temp_buf or _copyout.
THEOREM OperandsStayIntact == Spec => []OperandsIntact
<1>1. IInv => OperandsIntact
  BY DEF IInv, OperandInv, OperandsIntact
<1> QED
  BY <1>1, IInvAlways, PTL

\* _free never unmaps a buffer that a queue of a device mapping it still refers to.
THEOREM NeverUsedAfterUnmap == Spec => []NoUseAfterUnmap
<1>1. IInv => NoUseAfterUnmap
  BY DEF IInv, MapInv
<1> QED
  BY <1>1, IInvAlways, PTL

\* A timeline signal is never set backwards or past a submission in flight.
\* No operation touches a timeline signal or an error flag as it begins.
LEMMA BeginKeeps ==
  ASSUME HostBegin
  PROVE  UNCHANGED <<timeline_signal, signal_value, error_state, gave_up>>
<1> DEFINE Same == UNCHANGED <<timeline_signal, signal_value, error_state, gave_up>>
<1>1. ASSUME NEW d \in Device, NEW size \in KernargsSizes, NEW b \in Buffer, Launch(d, size, b) PROVE Same
  BY <1>1, Zenon DEF Launch, LaunchSubmit, Submit
<1>2. ASSUME NEW d \in Device, NEW size \in KernargsSizes, NEW b \in Buffer, LaunchWrap(d, size, b) PROVE Same
  BY <1>2, Zenon DEF LaunchWrap, devVars
<1>3. ASSUME NEW d \in Device, Synchronize(d) PROVE Same
  BY <1>3, Zenon DEF Synchronize, devVars
<1>4. ASSUME NEW d \in Device, NEW b \in Buffer, Copyin(d, b) PROVE Same
  BY <1>4, Zenon DEF Copyin, devVars
<1>5. ASSUME NEW d \in Device, NEW b \in Buffer, DirectCopy(d, b) PROVE Same
  BY <1>5, Zenon DEF DirectCopy, devVars
<1>6. ASSUME NEW d \in Device, NEW b \in Buffer, DiskRead(d, b) PROVE Same
  BY <1>6, Zenon DEF DiskRead, devVars
<1>7. ASSUME NEW d \in Device, NEW b \in Buffer, Copyout(d, b) PROVE Same
  BY <1>7, Zenon DEF Copyout, devVars
<1>8. ASSUME NEW d \in Device, NEW b \in Buffer, Alloc(d, b) PROVE Same
  BY <1>8, Zenon DEF Alloc, devVars
<1>9. ASSUME NEW s \in Device, NEW d \in Device, NEW bs \in Buffer, NEW bd \in Buffer, Transfer(s, d, bs, bd)
      PROVE  Same
  BY <1>9, Zenon DEF Transfer, Submit
<1>10. ASSUME NEW b \in Buffer, Free(b) PROVE Same
  BY <1>10, Zenon DEF Free, devVars
<1> HIDE DEF Same
<1>11. Same
  BY <1>1, <1>2, <1>3, <1>4, <1>5, <1>6, <1>7, <1>8, <1>9, <1>10, Zenon DEF HostBegin
<1> QED
  BY <1>11 DEF Same

THEOREM TimelineCounts == Spec => TimelineStepsByOne
<1> DEFINE Steps == \A d \in Device :
             \/ Timeline(d)' = Timeline(d)
             \/ Timeline(d)' = Timeline(d) + 1
             \/ timeline_signal'[d] # timeline_signal[d] /\ pending[d] = {} /\ Timeline(d)' = 0
<1>1. IInv /\ [Next]_vars => [Steps]_vars
  <2> SUFFICES ASSUME IInv, Next PROVE Steps
    OBVIOUS
  <2>1. TypeOK /\ QueueInv
    BY DEF IInv, TypeInv
  <2>2. ASSUME UNCHANGED <<timeline_signal, signal_value>> PROVE Steps
    BY <2>2 DEF Timeline
  <2>3. ASSUME NEW d \in Device, SyncDevice(d) PROVE Steps
    <3>1. CASE WrapTimeline(d)
      <4>1. pending[d] = {} /\ timeline_signal[d] \in 0..1
        BY <2>1, <2>3, DrainedIdle DEF SyncDevice, TypeOK
      <4>2. 1 - timeline_signal[d] \in 0..1 /\ 1 - timeline_signal[d] # timeline_signal[d]
        BY <4>1
      <4>3. /\ timeline_signal'[d] = 1 - timeline_signal[d] /\ Timeline(d)' = 0
            /\ \A x \in Device \ {d} : Timeline(x)' = Timeline(x)
        BY <2>1, <3>1, <4>2 DEF WrapTimeline, Timeline, TypeOK
      <4> QED
        BY <4>1, <4>2, <4>3
    <3>2. CASE ~WrapTimeline(d)
      BY <2>2, <2>3, <3>2 DEF SyncDevice
    <3> QED
      BY <3>1, <3>2
  <2>4. ASSUME NEW d \in Device, NEW w \in pending[d], Finish(d, w) PROVE Steps
    BY <2>1, <2>4, QueueFinish
  <2>5. ASSUME Next, ~(\E d \in Device : SyncDevice(d)),
               ~(\E d \in Device : \E w \in pending[d] : Finish(d, w))
        PROVE  UNCHANGED <<timeline_signal, signal_value>>
    <3>1. CASE HostContinue
      BY <2>5, <3>1, ZenonT(30) DEF HostContinue, LaunchDrained, LaunchSubmit, SyncReturn,
         SyncRaise, CopyinChunk, CopySubmit, CopyinRaise, DirectReturn, DiskReserve, DiskSubmit, DiskReturn, DiskRaise,
         CopyoutChunk, CopyoutRead, CopyoutRaise, TransferJoin, FreeUnmap, Submit, devVars
    <3>2. CASE HostBegin
      BY <3>2, BeginKeeps
    <3>3. CASE (\E d \in Device : DeviceStep(d)) \/ DeviceFault
      BY <2>5, <3>3 DEF DeviceStep, DeviceFault, Start, CpuFault, devVars
    <3> QED
      BY <2>5, <3>1, <3>2, <3>3 DEF Next
  <2> QED
    BY <2>2, <2>3, <2>4, <2>5
<1> QED
  BY <1>1, IInvAlways, PTL DEF Spec, TimelineStepsByOne

-----------------------------------------------------------------------------
(* Staging tags, when no wait expires.                                         *)

Healthy == Expires = {} => \A d \in Device : ~error_state[d] /\ ~gave_up[d]

LEMMA HealthyNext == TypeInv /\ Healthy /\ [Next]_vars => Healthy'
<1> SUFFICES ASSUME TypeInv, Healthy, [Next]_vars, Expires = {} PROVE UNCHANGED <<error_state, gave_up>>
  BY DEF Healthy
<1>1. \A d \in Device : ~SyncRaise(d)
  BY DEF SyncRaise, Healthy
<1>2. CASE HostContinue
  <2>1. CASE \E d \in Device : SyncDevice(d)
    BY <2>1 DEF SyncDevice
  <2>2. CASE ~\E d \in Device : SyncDevice(d)
    BY <1>1, <1>2, <2>2, ZenonT(30) DEF HostContinue, LaunchDrained, LaunchSubmit, SyncReturn, CopyinChunk,
       CopySubmit, CopyinRaise, DirectReturn, DiskReserve, DiskSubmit, DiskReturn, DiskRaise,
       CopyoutChunk, CopyoutRead, CopyoutRaise, TransferJoin, FreeUnmap, Submit, devVars
  <2> QED
    BY <2>1, <2>2
<1>3. CASE HostBegin
  BY <1>3, BeginKeeps
<1>4. CASE (\E d \in Device : DeviceStep(d)) \/ DeviceFault
  BY <1>4 DEF DeviceStep, DeviceFault, Start, Finish, CpuFault, devVars
<1> QED
  BY <1>2, <1>3, <1>4 DEF Next, vars, devVars

\* Without expiring waits, a staging slot whose tag the timeline has reached is in
\* nobody's hands: _copyin, copy_from_disk and _copyout tag what they use.
THEOREM TagsTellSafe == Spec => [](Expires = {} => TagTellsSafe)
<1>1. Init => Healthy
  BY DEF Init, Healthy
<1>2. IInv /\ Healthy => (Expires = {} => TagTellsSafe)
  <2> SUFFICES ASSUME IInv, Healthy, Expires = {}, pc = "idle",
                      NEW d \in Device, NEW s \in Slot, SlotFree(d, s), NEW w \in pending[d]
               PROVE  s \notin w.src \cup w.dst
    BY DEF TagTellsSafe
  <2>1. s \notin w.src
    <3>1. Users(d, {}, {s}) = {}
      BY FreeSlotUnused DEF IInv, TypeInv
    <3> QED
      BY <3>1 DEF Users
  <2>2. w.dst = {}
    BY DEF IInv, OperandInv, Healthy
  <2> QED
    BY <2>1, <2>2
<1>3. IInv => TypeInv
  BY DEF IInv
<1> QED
  BY <1>1, <1>2, <1>3, HealthyNext, IInvAlways, PTL DEF Spec

-----------------------------------------------------------------------------
(***************************************************************************)
(* The order in which the devices work: nothing runs before an earlier     *)
(* submission that shares a device with it, a synchronize is a barrier, and*)
(* the queues of all devices together implement ProgramOrder.              *)
(***************************************************************************)


\* Submissions are numbered in program order, and the values of a device agree.
NumberInv ==
  \A d, e \in Device : \A w \in pending[d], v \in pending[e] :
    /\ w.no < clock
    /\ w.no = v.no => d = e /\ w = v
    /\ d = e /\ w.no < v.no => w.val < v.val

\* j is the list with which _transfer makes d wait for the copy v of e.
Joins(j, d, v, e) ==
  /\ j.no = v.no + 1
  /\ [dev |-> e, sig |-> v.sig, val |-> v.val] \in j.waits
  /\ j.val \notin running[d]

\* While a transfer is queued at its source, the join is queued at its destination
\* and waits, or is about to be submitted.
JoinInv ==
  \A d, e \in Device : \A v \in pending[e] : d \in v.touch /\ d # e =>
    /\ d \notin CpuDevice
    /\ \/ /\ pc = "join" /\ dev = d /\ args.peer = e
          /\ v.no = clock - 1 /\ v.val = timeline_value[e] - 1
       \/ \E j \in pending[d] : Joins(j, d, v, e)

\* A transfer waits for everything submitted earlier to its destination.
WaitInv ==
  \A d, e \in Device : \A w \in pending[d], v \in pending[e] :
    e \in w.touch /\ e # d /\ v.no < w.no =>
      /\ w.val \notin running[d]
      /\ \E t \in w.waits : t.dev = e /\ t.sig = v.sig /\ t.val >= v.val

\* A CPU device has one queue and takes no part in transfers.
CpuInv ==
  /\ \A d \in CpuDevice : \A w \in pending[d] : w.q = "compute" /\ w.touch = {d}
  /\ pc \in {"stage", "disk", "readback", "out", "join"} => dev \in HasCopy

OInv == NumberInv /\ JoinInv /\ WaitInv /\ CpuInv

-----------------------------------------------------------------------------

LEMMA NumberSubmit ==
  ASSUME TypeOK, QueueInv, NumberInv, NEW d \in Device, NEW w, Submit(d, w),
         w.no = clock, w.val = timeline_value[d]
  PROVE  NumberInv'
<1>1. clock \in Nat /\ clock' = clock + 1
  BY DEF TypeOK, Submit
<1>2. \A e \in Device : \A v \in pending[e] : v.no < clock /\ v.no \in Nat
  BY DEF NumberInv, TypeOK, Work
<1>3. \A v \in pending[d] : v.val < w.val
  BY DEF QueueInv
<1>4. pending'[d] = pending[d] \cup {w} /\ \A x \in Device \ {d} : pending'[x] = pending[x]
  BY SubmitPending
<1>5. \A e \in Device : \A v \in pending'[e] : v \in pending[e] \/ (e = d /\ v = w)
  BY <1>4
<1> SUFFICES ASSUME NEW e \in Device, NEW f \in Device, NEW x \in pending'[e], NEW v \in pending'[f]
             PROVE  /\ x.no < clock'
                    /\ x.no = v.no => e = f /\ x = v
                    /\ e = f /\ x.no < v.no => x.val < v.val
  BY DEF NumberInv
<1>6. CASE x \in pending[e] /\ v \in pending[f]
  BY <1>1, <1>2, <1>6 DEF NumberInv
<1>7. CASE e = d /\ x = w /\ v \in pending[f]
  BY <1>1, <1>2, <1>7
<1>8. CASE x \in pending[e] /\ f = d /\ v = w
  BY <1>1, <1>2, <1>3, <1>8
<1>9. CASE e = d /\ x = w /\ f = d /\ v = w
  BY <1>1, <1>9
<1> QED
  BY <1>5, <1>6, <1>7, <1>8, <1>9

\* A submission that involves only its own device.
LEMMA OwnSubmit ==
  ASSUME IInv, OInv, pc # "join", NEW d \in Device, NEW w, Submit(d, w),
         w.no = clock, w.val = timeline_value[d], w.touch = {d}
  PROVE  NumberInv' /\ JoinInv' /\ WaitInv'
<1>1. TypeOK /\ QueueInv /\ clock \in Nat
  BY DEF IInv, TypeInv, TypeOK
<1>2. pending'[d] = pending[d] \cup {w} /\ \A x \in Device \ {d} : pending'[x] = pending[x]
  BY <1>1, SubmitPending
<1>3. \A e \in Device : \A v \in pending'[e] : v \in pending[e] \/ (e = d /\ v = w)
  BY <1>2
<1>4. running' = running /\ \A e \in Device : pending[e] \subseteq pending'[e]
  BY <1>2 DEF Submit
<1>5. NumberInv'
  BY <1>1, NumberSubmit DEF OInv
<1>6. JoinInv'
  <2> SUFFICES ASSUME NEW x \in Device, NEW e \in Device, NEW v \in pending'[e], x \in v.touch, x # e
               PROVE  x \notin CpuDevice /\ \E j \in pending'[x] : Joins(j, x, v, e)'
    BY DEF JoinInv
  <2>1. v \in pending[e]
    BY <1>3
  <2>2. x \notin CpuDevice /\ \E j \in pending[x] : Joins(j, x, v, e)
    BY <2>1 DEF OInv, JoinInv
  <2> QED
    BY <1>4, <2>2 DEF Joins
<1>7. WaitInv'
  <2> SUFFICES ASSUME NEW x \in Device, NEW e \in Device, NEW u \in pending'[x], NEW v \in pending'[e],
                      e \in u.touch, e # x, v.no < u.no
               PROVE  /\ u.val \notin running'[x]
                      /\ \E t \in u.waits : t.dev = e /\ t.sig = v.sig /\ t.val >= v.val
    BY DEF WaitInv
  <2>1. u \in pending[x] /\ u.no < clock /\ u.no \in Nat
    BY <1>1, <1>3 DEF OInv, NumberInv, TypeOK, Work
  <2>2. v \in pending[e]
    BY <1>1, <1>3, <2>1
  <2> QED
    BY <1>4, <2>1, <2>2 DEF OInv, WaitInv
<1> QED
  BY <1>5, <1>6, <1>7

\* Host steps that leave the queues alone.
LEMMA OrderQuiet ==
  ASSUME OInv, pc # "join", UNCHANGED <<pending, running, clock>>
  PROVE  NumberInv' /\ JoinInv' /\ WaitInv'
<1>1. NumberInv' /\ WaitInv'
  BY DEF OInv, NumberInv, WaitInv
<1>2. JoinInv'
  BY DEF OInv, JoinInv, Joins
<1> QED
  BY <1>1, <1>2

\* _transfer, the copy: it waits for all that the destination has been given.
LEMMA OrderTransfer ==
  ASSUME IInv, OInv, NEW s \in Device, NEW d \in Device, NEW bs \in Buffer, NEW bd \in Buffer,
         Transfer(s, d, bs, bd)
  PROVE  NumberInv' /\ JoinInv' /\ WaitInv'
<1> DEFINE w == Submission(s, "copy", {LastIssued(d)}, {}, {}, {}, {bs, bd}, {s, d})
<1>1. /\ Submit(s, w) /\ w.no = clock /\ w.val = timeline_value[s] /\ w.touch = {s, d}
      /\ w.sig = timeline_signal[s] /\ LastIssued(d) \in w.waits
      /\ pc = "idle" /\ s \notin CpuDevice /\ d \notin CpuDevice
      /\ s # d => pc' = "join" /\ dev' = d /\ args' = [NoArgs EXCEPT !.peer = s]
  BY DEF Transfer, Submission, HasCopy, Goto
<1> HIDE DEF w
<1>2. TypeOK /\ QueueInv /\ clock \in Nat /\ clock' = clock + 1
  BY <1>1 DEF IInv, TypeInv, TypeOK, Submit
<1>3. CASE s = d
  <2>1. w.touch = {s}
    BY <1>1, <1>3
  <2> QED
    BY <1>1, <2>1, OwnSubmit
<1>4. CASE s # d
  <2>1. pending'[s] = pending[s] \cup {w} /\ \A x \in Device \ {s} : pending'[x] = pending[x]
    BY <1>1, <1>2, SubmitPending
  <2>2. \A e \in Device : \A v \in pending'[e] : v \in pending[e] \/ (e = s /\ v = w)
    BY <2>1
  <2>3. running' = running /\ \A e \in Device : pending[e] \subseteq pending'[e]
    BY <1>1, <2>1 DEF Submit
  <2>4. NumberInv'
    BY <1>1, <1>2, NumberSubmit DEF OInv
  <2>5. JoinInv'
    <3>1. ASSUME NEW x \in Device, NEW e \in Device, NEW v \in pending[e], x \in v.touch, x # e
          PROVE  x \notin CpuDevice /\ \E j \in pending'[x] : Joins(j, x, v, e)'
      <4>1. x \notin CpuDevice /\ \E j \in pending[x] : Joins(j, x, v, e)
        BY <1>1, <3>1 DEF OInv, JoinInv
      <4> QED
        BY <2>3, <4>1 DEF Joins
    <3>2. timeline_value'[s] = timeline_value[s] + 1 /\ timeline_value[s] \in Nat
      BY <1>1, <1>2 DEF Submit, TypeOK
    <3>3. /\ pc' = "join" /\ dev' = d /\ args'.peer = s
          /\ w.no = clock' - 1 /\ w.val = timeline_value'[s] - 1
      BY <1>1, <1>2, <1>4, <3>2 DEF NoArgs
    <3>4. ASSUME NEW x \in Device, x \in w.touch, x # s
          PROVE  x = d /\ x \notin CpuDevice
      BY <1>1, <3>4
    <3> QED
      BY <2>2, <3>1, <3>3, <3>4 DEF JoinInv
  <2>6. WaitInv'
    <3> SUFFICES ASSUME NEW x \in Device, NEW e \in Device, NEW u \in pending'[x], NEW v \in pending'[e],
                        e \in u.touch, e # x, v.no < u.no
                 PROVE  /\ u.val \notin running'[x]
                        /\ \E t \in u.waits : t.dev = e /\ t.sig = v.sig /\ t.val >= v.val
      BY DEF WaitInv
    <3>1. CASE u \in pending[x]
      <4>1. u.no < clock /\ u.no \in Nat
        BY <1>2, <3>1 DEF OInv, NumberInv, TypeOK, Work
      <4>2. v \in pending[e]
        BY <1>1, <1>2, <2>2, <4>1
      <4> QED
        BY <2>3, <3>1, <4>2 DEF OInv, WaitInv
    <3>2. CASE x = s /\ u = w
      <4>1. e = d /\ v \in pending[d]
        BY <1>1, <2>2, <3>2
      <4>2. /\ v.sig = timeline_signal[d] /\ v.val < timeline_value[d]
            /\ v.val \in Nat /\ timeline_value[d] \in Nat
        <5>1. v \in Work /\ timeline_value[d] \in Nat
          BY <1>2, <4>1 DEF TypeOK
        <5> QED
          BY <1>2, <4>1, <5>1 DEF QueueInv, Work
      <4>3. timeline_value[s] \notin running[s]
        BY <1>2 DEF QueueInv, TypeOK
      <4>4. LastIssued(d).dev = d /\ LastIssued(d).sig = v.sig /\ LastIssued(d).val >= v.val
        BY <4>2 DEF LastIssued
      <4> QED
        BY <1>1, <2>3, <3>2, <4>1, <4>3, <4>4
    <3> QED
      BY <2>2, <3>1, <3>2
  <2> QED
    BY <2>4, <2>5, <2>6
<1> QED
  BY <1>3, <1>4

\* _transfer, the join: it waits for the copy just queued at the source.
LEMMA OrderTransferJoin ==
  ASSUME IInv, OInv, TransferJoin
  PROVE  NumberInv' /\ JoinInv' /\ WaitInv'
<1> DEFINE w == Submission(dev, "compute", {LastIssued(args.peer)}, {}, {}, {}, {}, {dev})
<1>1. /\ Submit(dev, w) /\ w.no = clock /\ w.val = timeline_value[dev] /\ w.touch = {dev}
      /\ LastIssued(args.peer) \in w.waits /\ pc = "join" /\ dev \in Device /\ args.peer \in Device
  BY DEF TransferJoin, Submission, IInv, TypeInv, HostOK
<1> HIDE DEF w
<1>2. TypeOK /\ QueueInv /\ clock \in Nat
  BY <1>1 DEF IInv, TypeInv, TypeOK
<1>3. pending'[dev] = pending[dev] \cup {w} /\ \A x \in Device \ {dev} : pending'[x] = pending[x]
  BY <1>1, <1>2, SubmitPending
<1>4. \A e \in Device : \A v \in pending'[e] : v \in pending[e] \/ (e = dev /\ v = w)
  BY <1>3
<1>5. running' = running /\ \A e \in Device : pending[e] \subseteq pending'[e]
  BY <1>1, <1>3 DEF Submit
<1>6. NumberInv'
  BY <1>1, <1>2, NumberSubmit DEF OInv
<1>7. JoinInv'
  <2> SUFFICES ASSUME NEW x \in Device, NEW e \in Device, NEW v \in pending'[e], x \in v.touch, x # e
               PROVE  x \notin CpuDevice /\ \E j \in pending'[x] : Joins(j, x, v, e)'
    BY DEF JoinInv
  <2>1. v \in pending[e] /\ x \notin CpuDevice
    BY <1>1, <1>4 DEF OInv, JoinInv
  <2>2. CASE \E j \in pending[x] : Joins(j, x, v, e)
    BY <1>5, <2>1, <2>2 DEF Joins
  <2>3. CASE dev = x /\ args.peer = e /\ v.no = clock - 1 /\ v.val = timeline_value[e] - 1
    <3>1. LastIssued(e) = [dev |-> e, sig |-> v.sig, val |-> v.val]
      BY <1>2, <2>1, <2>3 DEF QueueInv, LastIssued
    <3>2. timeline_value[dev] \notin running[dev]
      BY <1>1, <1>2 DEF QueueInv, TypeOK
    <3>3. w.no = v.no + 1
      <4>1. v.no \in Nat
        BY <1>2, <2>1 DEF TypeOK, Work
      <4> QED
        BY <1>1, <1>2, <2>3, <4>1
    <3>4. /\ w \in pending'[x] /\ w.no = v.no + 1 /\ w.val \notin running'[x]
          /\ [dev |-> e, sig |-> v.sig, val |-> v.val] \in w.waits
      BY <1>1, <1>3, <1>5, <2>3, <3>1, <3>2, <3>3
    <3> QED
      BY <2>1, <3>4 DEF Joins
  <2> QED
    BY <2>1, <2>2, <2>3 DEF OInv, JoinInv
<1>8. WaitInv'
  <2> SUFFICES ASSUME NEW x \in Device, NEW e \in Device, NEW u \in pending'[x], NEW v \in pending'[e],
                      e \in u.touch, e # x, v.no < u.no
               PROVE  /\ u.val \notin running'[x]
                      /\ \E t \in u.waits : t.dev = e /\ t.sig = v.sig /\ t.val >= v.val
    BY DEF WaitInv
  <2>1. u \in pending[x] /\ u.no < clock /\ u.no \in Nat
    BY <1>1, <1>2, <1>4 DEF OInv, NumberInv, TypeOK, Work
  <2>2. v \in pending[e]
    BY <1>1, <1>2, <1>4, <2>1
  <2> QED
    BY <1>5, <2>1, <2>2 DEF OInv, WaitInv
<1> QED
  BY <1>6, <1>7, <1>8

-----------------------------------------------------------------------------
(* The devices. *)

\* What waits for a queued submission cannot start.
LEMMA NotReached ==
  ASSUME TypeOK, QueueInv, NEW e \in Device, NEW v \in pending[e],
         NEW t, t.dev = e, t.sig = v.sig, t.val >= v.val, t.val \in Nat
  PROVE  ~Reached(t)
<1>1. v.sig = timeline_signal[e] /\ Timeline(e) < v.val
  BY DEF QueueInv
<1>2. v.val \in Nat /\ Timeline(e) \in Nat
  BY TimelineType DEF TypeOK, Work
<1> QED
  BY <1>1, <1>2 DEF Reached, Timeline

LEMMA OrderStart ==
  ASSUME IInv, OInv, NEW d \in Device, NEW w \in pending[d], Start(d, w)
  PROVE  NumberInv' /\ JoinInv' /\ WaitInv'
<1>1. TypeOK /\ QueueInv
  BY DEF IInv, TypeInv
<1>2. /\ UNCHANGED <<pending, clock, pc, dev, args, timeline_value>>
      /\ running'[d] = running[d] \cup {w.val}
      /\ \A x \in Device \ {d} : running'[x] = running[x]
  BY <1>1 DEF Start, TypeOK, hostVars, devVars
<1>3. \A t \in w.waits : Reached(t) /\ t \in Wait
  BY <1>1 DEF Start, TypeOK, Work
<1>4. \A u \in pending[d] : u.val = w.val => u = w
  BY <1>1 DEF QueueInv
<1>5. NumberInv'
  BY <1>2 DEF OInv, NumberInv
<1>6. JoinInv'
  <2> SUFFICES ASSUME NEW x \in Device, NEW e \in Device, NEW v \in pending[e], x \in v.touch, x # e,
                      NEW j \in pending[x], Joins(j, x, v, e)
               PROVE  Joins(j, x, v, e)'
    BY <1>2 DEF OInv, JoinInv
  <2>1. ASSUME x = d, j = w PROVE FALSE
    <3>1. Reached([dev |-> e, sig |-> v.sig, val |-> v.val])
      BY <1>3, <2>1 DEF Joins
    <3>2. v.val \in Nat
      BY <1>1 DEF TypeOK, Work
    <3> QED
      BY <1>1, <3>1, <3>2, NotReached
  <2> QED
    BY <1>2, <1>4, <2>1 DEF Joins
<1>7. WaitInv'
  <2> SUFFICES ASSUME NEW x \in Device, NEW e \in Device, NEW u \in pending[x], NEW v \in pending[e],
                      e \in u.touch, e # x, v.no < u.no
               PROVE  /\ u.val \notin running'[x]
                      /\ \E t \in u.waits : t.dev = e /\ t.sig = v.sig /\ t.val >= v.val
    BY <1>2 DEF WaitInv
  <2>1. /\ u.val \notin running[x]
        /\ \E t \in u.waits : t.dev = e /\ t.sig = v.sig /\ t.val >= v.val
    BY DEF OInv, WaitInv
  <2>2. ASSUME x = d, u = w PROVE FALSE
    <3>1. PICK t \in w.waits : t.dev = e /\ t.sig = v.sig /\ t.val >= v.val
      BY <2>1, <2>2
    <3>2. Reached(t) /\ t.val \in Nat
      BY <1>3 DEF Wait
    <3> QED
      BY <1>1, <3>1, <3>2, NotReached
  <2> QED
    BY <1>2, <1>4, <2>1, <2>2
<1> QED
  BY <1>5, <1>6, <1>7

\* Submissions leave a queue when they have run, or by a fault of a CPU device.
LEMMA OrderShrink ==
  ASSUME IInv, OInv, UNCHANGED <<clock, pc, dev, args, timeline_value>>,
         \A d \in Device : pending'[d] \subseteq pending[d] /\ running'[d] \subseteq running[d],
         \A d \in Device : \A w \in pending[d] \ pending'[d] : w.val \in running[d] \/ d \in CpuDevice
  PROVE  NumberInv' /\ JoinInv' /\ WaitInv'
<1>1. NumberInv'
  BY DEF OInv, NumberInv
<1>2. JoinInv'
  <2> SUFFICES ASSUME NEW x \in Device, NEW e \in Device, NEW v \in pending'[e], x \in v.touch, x # e
               PROVE  /\ x \notin CpuDevice
                      /\ \/ /\ pc = "join" /\ dev = x /\ args.peer = e
                            /\ v.no = clock - 1 /\ v.val = timeline_value[e] - 1
                         \/ \E j \in pending'[x] : Joins(j, x, v, e)'
    BY DEF JoinInv
  <2>1. v \in pending[e] /\ x \notin CpuDevice
    BY DEF OInv, JoinInv
  <2>2. ASSUME NEW j \in pending[x], Joins(j, x, v, e) PROVE j \in pending'[x] /\ Joins(j, x, v, e)'
    BY <2>1, <2>2 DEF Joins
  <2> QED
    BY <2>1, <2>2 DEF OInv, JoinInv
<1>3. WaitInv'
  BY DEF OInv, WaitInv
<1> QED
  BY <1>1, <1>2, <1>3

LEMMA OrderFinish ==
  ASSUME IInv, OInv, NEW d \in Device, NEW w \in pending[d], Finish(d, w) \/ CpuFault(d, w)
  PROVE  NumberInv' /\ JoinInv' /\ WaitInv'
<1>1. /\ pending' = [pending EXCEPT ![d] = @ \ {w}] /\ running' = [running EXCEPT ![d] = @ \ {w.val}]
      /\ UNCHANGED <<clock, pc, dev, args, timeline_value>>
      /\ w.val \in running[d] \/ d \in CpuDevice
  BY DEF Finish, CpuFault, hostVars
<1>2. pending \in [Device -> SUBSET Work] /\ running \in [Device -> SUBSET Nat]
  BY DEF IInv, TypeInv, TypeOK
<1> QED
  BY <1>1, <1>2, OrderShrink

-----------------------------------------------------------------------------
(* The invariant. *)

LEMMA InitOInv == Init => OInv
<1> SUFFICES ASSUME Init PROVE OInv
  OBVIOUS
<1>1. pc = "idle" /\ \A d \in Device : pending[d] = {}
  BY DEF Init
<1> QED
  BY <1>1, DeviceAssumption DEF OInv, NumberInv, JoinInv, WaitInv, CpuInv

\* The submissions an operation makes on its own device.
OwnWork(d, w) ==
  /\ w.no = clock /\ w.val = timeline_value[d] /\ w.touch = {d}
  /\ d \in CpuDevice => w.q = "compute"

\* Every step either leaves the queues alone, or queues one submission, or is one
\* of a transfer, or is a device's.
LEMMA StepKinds ==
  ASSUME IInv, OInv, [Next]_vars
  PROVE  \/ pc # "join" /\ UNCHANGED <<pending, running, clock>>
         \/ UNCHANGED vars
         \/ pc # "join" /\ \E d \in Device : \E w \in Work : Submit(d, w) /\ OwnWork(d, w)
         \/ \E s, d \in Device, bs, bd \in Buffer : Transfer(s, d, bs, bd)
         \/ TransferJoin
         \/ \E d \in Device : \E w \in pending[d] : Start(d, w) \/ Finish(d, w) \/ CpuFault(d, w)
<1> DEFINE Quiet == pc # "join" /\ UNCHANGED <<pending, running, clock>>
           Own == pc # "join" /\ \E d \in Device : \E w \in Work : Submit(d, w) /\ OwnWork(d, w)
<1>1. TypeOK /\ HostOK /\ CpuInv
  BY DEF IInv, TypeInv, OInv
<1>2. CASE LaunchDrained
  <2>1. dev \in Device /\ args.kargs \in SUBSET (0..(KernargsCap - 1)) /\ args.buf \in Buffer
    BY <1>1, <1>2 DEF LaunchDrained, AtEnd, HostOK, TypeOK, Args
  <2>2. Submission(dev, "compute", {}, args.kargs, {}, {}, {args.buf}, {dev}) \in Work
    BY <1>1, <2>1, SubmissionType
  <2> QED
    BY <1>2, <2>1, <2>2 DEF LaunchDrained, LaunchSubmit, AtEnd, OwnWork, Submission
<1>3. ASSUME NEW d \in Device, NEW size \in KernargsSizes, NEW b \in Buffer, Launch(d, size, b) PROVE Own
  <2>1. Submission(d, "compute", {}, Bytes(kernargs_ptr[d], size), {}, {}, {b}, {d}) \in Work
    BY <1>1, SubmissionType, BytesType
  <2> QED
    BY <1>3, <2>1 DEF Launch, LaunchSubmit, OwnWork, Submission
<1>4. ASSUME NEW s \in Slot, CopySubmit(dev, s, args.buf), pc \in {"stage", "disk"} PROVE Own
  <2>1. dev \in HasCopy /\ dev \in Device /\ args.buf \in Buffer
    BY <1>1, <1>4 DEF CpuInv, HasCopy, HostOK
  <2>2. Submission(dev, "copy", {}, {}, {s}, {}, {args.buf}, {dev}) \in Work
    BY <1>1, <2>1, SubmissionType
  <2> QED
    BY <1>4, <2>1, <2>2 DEF CopySubmit, OwnWork, Submission, HasCopy
<1>5. ASSUME NEW more \in BOOLEAN, CopyinChunk(more) PROVE Own
  <2>1. b_next[dev] \in Slot
    BY <1>1, <1>5 DEF CopyinChunk, HostOK, TypeOK
  <2> QED
    BY <1>4, <1>5, <2>1 DEF CopyinChunk
<1>6. ASSUME NEW s \in Slot, DiskSubmit(s) PROVE Own
  BY <1>4, <1>6 DEF DiskSubmit
<1>7. CASE CopyoutChunk
  <2>1. dev \in HasCopy /\ dev \in Device /\ args.buf \in Buffer /\ 0 \in Slot
    BY <1>1, <1>7, SlotAssumption DEF CopyoutChunk, AtEnd, CpuInv, HasCopy, HostOK, Slot
  <2>2. Submission(dev, "copy", {}, {}, {}, {0}, {args.buf}, {dev}) \in Work
    BY <1>1, <2>1, SubmissionType
  <2> QED
    BY <1>7, <2>1, <2>2 DEF CopyoutChunk, AtEnd, OwnWork, Submission, HasCopy
<1>8. ASSUME NEW d \in Device, SyncDevice(d) \/ SyncRaise(d) PROVE Quiet
  BY <1>1, <1>8 DEF SyncDevice, SyncRaise, HostOK
<1>9. ASSUME NEW more \in BOOLEAN, CopyoutRead(more) PROVE Quiet
  BY <1>9 DEF CopyoutRead
<1>10. CASE SyncReturn \/ CopyinRaise \/ DirectReturn \/ DiskReserve \/ DiskReturn \/ DiskRaise
            \/ CopyoutRaise \/ FreeUnmap
  BY <1>10 DEF SyncReturn, CopyinRaise, DirectReturn, DiskReserve, DiskReturn, DiskRaise,
               CopyoutRaise, FreeUnmap, AtEnd
<1>11. CASE HostContinue
  BY <1>2, <1>5, <1>6, <1>7, <1>8, <1>9, <1>10, <1>11 DEF HostContinue
<1>12. CASE \/ \E d \in Device, size \in KernargsSizes, b \in Buffer : LaunchWrap(d, size, b)
            \/ \E d \in Device : Synchronize(d)
            \/ \E d \in Device, b \in Buffer :
                 Copyin(d, b) \/ DirectCopy(d, b) \/ DiskRead(d, b) \/ Copyout(d, b) \/ Alloc(d, b)
            \/ \E b \in Buffer : Free(b)
  <2>1. ASSUME NEW d \in Device, NEW size \in KernargsSizes, NEW b \in Buffer, LaunchWrap(d, size, b)
        PROVE  Quiet
    BY <2>1 DEF LaunchWrap
  <2>2. ASSUME NEW d \in Device, Synchronize(d) PROVE Quiet
    BY <2>2 DEF Synchronize
  <2>3. ASSUME NEW d \in Device, NEW b \in Buffer, Copyin(d, b) \/ DirectCopy(d, b) \/ DiskRead(d, b)
        PROVE  Quiet
    BY <2>3 DEF Copyin, DirectCopy, DiskRead
  <2>4. ASSUME NEW d \in Device, NEW b \in Buffer, Copyout(d, b) \/ Alloc(d, b) PROVE Quiet
    BY <2>4 DEF Copyout, Alloc
  <2>5. ASSUME NEW b \in Buffer, Free(b) PROVE Quiet
    BY <2>5 DEF Free
  <2> HIDE DEF Quiet
  <2>6. (\E d \in Device, size \in KernargsSizes, b \in Buffer : LaunchWrap(d, size, b)) => Quiet
    BY <2>1
  <2>7. (\E d \in Device : Synchronize(d)) => Quiet
    BY <2>2
  <2>8. ASSUME NEW d \in Device, NEW b \in Buffer,
               Copyin(d, b) \/ DirectCopy(d, b) \/ DiskRead(d, b) \/ Copyout(d, b) \/ Alloc(d, b)
        PROVE  Quiet
    BY <2>3, <2>4, <2>8
  <2>9. (\E b \in Buffer : Free(b)) => Quiet
    BY <2>5
  <2>10. Quiet
    BY <1>12, <2>6, <2>7, <2>8, <2>9
  <2> QED
    BY <2>10 DEF Quiet
<1>13. CASE HostBegin
  BY <1>3, <1>12, <1>13 DEF HostBegin
<1> QED
  BY <1>11, <1>13 DEF Next, DeviceStep, DeviceFault

\* Only devices with a copy queue get beyond the first step of a copy.
LEMMA CopyHost ==
  ASSUME CpuInv, HostOK, [Next]_vars
  PROVE  pc' \in {"stage", "disk", "readback", "out", "join"} => dev' \in HasCopy
<1> DEFINE Copying == {"stage", "disk", "readback", "out", "join"}
           Kept == pc' \in Copying => pc \in Copying /\ dev' = dev
           Goal == pc' \in Copying => dev' \in HasCopy
<1>1. Kept => Goal
  BY DEF CpuInv
<1>2. CASE LaunchDrained \/ SyncReturn \/ CopyinRaise \/ DirectReturn \/ DiskReturn
           \/ DiskRaise \/ CopyoutRaise \/ TransferJoin \/ FreeUnmap
  BY <1>2 DEF LaunchDrained, LaunchSubmit, SyncReturn, CopyinRaise, DirectReturn, DiskReturn, DiskRaise,
              CopyoutRaise, TransferJoin, FreeUnmap, Return, Goto
<1>3. ASSUME NEW d \in Device, SyncDevice(d) \/ SyncRaise(d) PROVE Goal
  BY <1>1, <1>3 DEF SyncDevice, SyncRaise, Return, Goto
<1>4. ASSUME NEW more \in BOOLEAN, CopyinChunk(more) \/ CopyoutRead(more) PROVE Goal
  <2>1. CASE CopyinChunk(more)
    BY <1>1, <2>1 DEF CopyinChunk, Return, Goto, hostVars
  <2>2. CASE CopyoutRead(more)
    BY <1>1, <2>2 DEF CopyoutRead, Return, Goto
  <2> QED
    BY <1>4, <2>1, <2>2
<1>5. CASE DiskReserve \/ (\E s \in Slot : DiskSubmit(s)) \/ CopyoutChunk
  BY <1>1, <1>5 DEF DiskReserve, DiskSubmit, CopyoutChunk, AtEnd, Goto, hostVars
<1>6. CASE HostContinue
  BY <1>2, <1>3, <1>4, <1>5, <1>6 DEF HostContinue
<1>7. ASSUME NEW s \in Device, NEW d \in Device, NEW bs \in Buffer, NEW bd \in Buffer,
             Transfer(s, d, bs, bd)
      PROVE  Goal
  BY <1>7 DEF Transfer, Return, Goto
<1>8. CASE HostBegin
  <2>1. ASSUME NEW d \in Device, NEW size \in KernargsSizes, NEW b \in Buffer,
               Launch(d, size, b) \/ LaunchWrap(d, size, b)
        PROVE  Goal
    BY <2>1 DEF Launch, LaunchSubmit, LaunchWrap, Return, Goto
  <2>2. ASSUME NEW d \in Device, NEW b \in Buffer,
               Copyin(d, b) \/ DirectCopy(d, b) \/ DiskRead(d, b) \/ Copyout(d, b) \/ Alloc(d, b)
        PROVE  Goal
    BY <1>1, <2>2 DEF Copyin, DirectCopy, DiskRead, Copyout, Alloc, Goto, hostVars
  <2>3. ASSUME NEW d \in Device, Synchronize(d) PROVE Goal
    BY <2>3 DEF Synchronize, Goto
  <2>4. ASSUME NEW b \in Buffer, Free(b) PROVE Goal
    BY <2>4 DEF Free, Goto
  <2> QED
    BY <1>7, <1>8, <2>1, <2>2, <2>3, <2>4 DEF HostBegin
<1>9. CASE (\E d \in Device : DeviceStep(d)) \/ DeviceFault \/ UNCHANGED vars
  BY <1>1, <1>9 DEF DeviceStep, DeviceFault, Start, Finish, CpuFault, hostVars, vars
<1> QED
  BY <1>6, <1>8, <1>9 DEF Next

LEMMA CpuSubmit ==
  ASSUME IInv, CpuInv, NEW d \in Device, NEW w, Submit(d, w),
         d \in CpuDevice => w.q = "compute" /\ w.touch = {d}
  PROVE  \A x \in CpuDevice : \A v \in pending'[x] : v.q = "compute" /\ v.touch = {x}
<1>1. pending'[d] = pending[d] \cup {w} /\ \A x \in Device \ {d} : pending'[x] = pending[x]
  BY SubmitPending DEF IInv, TypeInv
<1> QED
  BY <1>1, DeviceAssumption DEF CpuInv

LEMMA OInvNext == IInv /\ OInv /\ [Next]_vars => OInv'
<1> SUFFICES ASSUME IInv, OInv, [Next]_vars PROVE OInv'
  OBVIOUS
<1>1. CpuInv /\ HostOK
  BY DEF OInv, IInv, TypeInv
<1>2. pc' \in {"stage", "disk", "readback", "out", "join"} => dev' \in HasCopy
  BY <1>1, CopyHost
<1> DEFINE Cpu == \A x \in CpuDevice : \A v \in pending'[x] : v.q = "compute" /\ v.touch = {x}
           Order3 == NumberInv' /\ JoinInv' /\ WaitInv'
<1>3. CASE pc # "join" /\ UNCHANGED <<pending, running, clock>>
  <2>1. Cpu
    BY <1>1, <1>3 DEF CpuInv
  <2>2. Order3
    BY <1>3, OrderQuiet
  <2> QED
    BY <1>2, <2>1, <2>2 DEF OInv, CpuInv
<1>4. CASE UNCHANGED vars
  BY <1>4 DEF OInv, NumberInv, JoinInv, Joins, WaitInv, CpuInv, vars, devVars, hostVars
<1>5. ASSUME pc # "join", NEW d \in Device, NEW w \in Work, Submit(d, w), OwnWork(d, w) PROVE OInv'
  <2>1. Cpu
    BY <1>1, <1>5, CpuSubmit DEF OwnWork
  <2>2. Order3
    BY <1>5, OwnSubmit DEF OwnWork
  <2> QED
    BY <1>2, <2>1, <2>2 DEF OInv, CpuInv
<1>6. ASSUME NEW s \in Device, NEW d \in Device, NEW bs \in Buffer, NEW bd \in Buffer,
             Transfer(s, d, bs, bd)
      PROVE  OInv'
  <2>1. Cpu
    BY <1>1, <1>6, CpuSubmit DEF Transfer, HasCopy
  <2>2. Order3
    BY <1>6, OrderTransfer
  <2> QED
    BY <1>2, <2>1, <2>2 DEF OInv, CpuInv
<1>7. CASE TransferJoin
  <2>1. Cpu
    <3>1. dev \in Device \ CpuDevice
      BY <1>1, <1>7 DEF TransferJoin, CpuInv, HasCopy
    <3> QED
      BY <1>1, <1>7, <3>1, CpuSubmit DEF TransferJoin
  <2>2. Order3
    BY <1>7, OrderTransferJoin
  <2> QED
    BY <1>2, <2>1, <2>2 DEF OInv, CpuInv
<1>8. ASSUME NEW d \in Device, NEW w \in pending[d], Start(d, w) \/ Finish(d, w) \/ CpuFault(d, w)
      PROVE  OInv'
  <2>1. Cpu
    <3>1. pending \in [Device -> SUBSET Work]
      BY DEF IInv, TypeInv, TypeOK
    <3>2. pending' = pending \/ pending' = [pending EXCEPT ![d] = @ \ {w}]
      BY <1>8 DEF Start, Finish, CpuFault
    <3>3. \A x \in Device : pending'[x] \subseteq pending[x]
      BY <3>1, <3>2
    <3> QED
      BY <1>1, <3>3, DeviceAssumption DEF CpuInv
  <2>2. Order3
    BY <1>8, OrderStart, OrderFinish
  <2> QED
    BY <1>2, <2>1, <2>2 DEF OInv, CpuInv
<1> QED
  BY StepKinds, <1>3, <1>4, <1>5, <1>6, <1>7, <1>8

LEMMA OInvAlways == Spec => [](IInv /\ OInv)
<1>1. Init => IInv /\ OInv
  BY InitIInv, InitOInv
<1>2. IInv /\ OInv /\ [Next]_vars => (IInv /\ OInv)'
  BY IInvNext, OInvNext
<1> QED
  BY <1>1, <1>2, PTL DEF Spec

-----------------------------------------------------------------------------
(* What follows. *)

LEMMA RunsLast == IInv /\ OInv => RunsInProgramOrder
<1> SUFFICES ASSUME IInv, OInv, NEW d \in Device, NEW e \in Device,
                    NEW w \in pending[d], NEW v \in pending[e],
                    w.val \in running[d], v.no < w.no, NEW x \in w.touch \cap v.touch
             PROVE  FALSE
  BY DEF RunsInProgramOrder
<1>1. TypeOK /\ QueueInv /\ x \in Device /\ clock \in Nat /\ w \in Work /\ v \in Work
  BY DEF IInv, TypeInv, TypeOK, Work
<1>2. w.no \in Nat /\ v.no \in Nat /\ w.no < clock
  BY <1>1 DEF OInv, NumberInv, Work
<1>3. ASSUME NEW u \in pending[d], u.no < w.no PROVE FALSE
  <2>1. u.val < w.val
    BY <1>3 DEF OInv, NumberInv
  <2>2. w.val = Timeline(d) + 1 /\ Timeline(d) < u.val
    BY <1>1 DEF QueueInv
  <2>3. u.val \in Nat /\ Timeline(d) \in Nat
    BY <1>1, TimelineType DEF TypeOK, Work
  <2> QED
    BY <2>1, <2>2, <2>3
<1>4. CASE d = e
  BY <1>3, <1>4
<1>5. CASE d # e /\ x = e
  BY <1>5 DEF OInv, WaitInv
<1>6. CASE d # e /\ x # e
  <2>1. v.no # clock - 1
    BY <1>1, <1>2
  <2>2. PICK j \in pending[x] : Joins(j, x, v, e)
    BY <1>1, <1>6, <2>1 DEF OInv, JoinInv
  <2>3. j.no = v.no + 1 /\ j.no \in Nat
    BY <1>1, <1>2, <2>2 DEF Joins
  <2>4. CASE j.no = w.no
    BY <1>1, <2>2, <2>4 DEF OInv, NumberInv, Joins
  <2>5. CASE j.no < w.no /\ x = d
    BY <1>3, <2>5
  <2>6. CASE j.no < w.no /\ x # d
    BY <1>1, <2>6 DEF OInv, WaitInv
  <2> QED
    BY <1>2, <2>3, <2>4, <2>5, <2>6
<1> QED
  BY <1>4, <1>5, <1>6

\* The waits of __call__, _copyin, _copyout and _transfer make every device work in
\* program order, across its queues and across devices.
THEOREM ProgramOrderKept == Spec => []RunsInProgramOrder
  BY RunsLast, OInvAlways, PTL

\* When synchronize has returned, nothing in flight involves the device, a transfer
\* from another device included.
THEOREM SynchronizeIsBarrier == Spec => []SyncIsBarrier
<1>1. IInv /\ OInv => SyncIsBarrier
  <2> SUFFICES ASSUME IInv, OInv, NEW d \in Device, NEW w \in pending[d], NEW x \in w.touch \cap Synced
               PROVE  FALSE
    BY DEF SyncIsBarrier
  <2>1. x \in Device
    BY DEF IInv, TypeInv, TypeOK, Work
  <2>2. pending[x] = {} /\ pc # "join"
    BY <2>1 DEF Synced, IInv, BlockInv
  <2> QED
    BY <2>1, <2>2 DEF OInv, JoinInv
<1> QED
  BY <1>1, OInvAlways, PTL

-----------------------------------------------------------------------------
(* The devices implement ProgramOrder. *)

Entry(w)    == [no |-> w.no, touch |-> w.touch]
Outstanding == {Entry(w) : w \in UNION {pending[d] : d \in Device}}

LEMMA OutstandingDef ==
  Outstanding = {[no |-> w.no, touch |-> w.touch] : w \in UNION {pending[d] : d \in Device}}
  BY DEF Outstanding, Entry

LEMMA OutstandingIs == \A r : r \in Outstanding <=> \E d \in Device : \E w \in pending[d] : r = Entry(w)
  BY DEF Outstanding

LEMMA SubmitSubmits ==
  ASSUME TypeOK, NEW d \in Device, NEW w, Submit(d, w), w.no = clock, w.touch \in SUBSET Device
  PROVE  Order!Next
<1>1. pending'[d] = pending[d] \cup {w} /\ \A x \in Device \ {d} : pending'[x] = pending[x]
  BY SubmitPending
<1>2. \A r : r \in Outstanding' <=> r \in Outstanding \/ r = Entry(w)
  <2>1. \A r : r \in Outstanding' <=> \E x \in Device : \E v \in pending'[x] : r = Entry(v)
    BY DEF Outstanding, Entry
  <2> QED
    BY <1>1, <2>1, OutstandingIs
<1>3. Outstanding' = Outstanding \cup {[no |-> clock, touch |-> w.touch]}
  BY <1>2 DEF Entry
<1>4. clock' = clock + 1
  BY DEF Submit
<1> QED
  BY <1>3, <1>4, OutstandingDef DEF Order!Next, Order!Submit, Outstanding, Entry

\* A submission leaves a queue only when nothing earlier involves its devices.
LEMMA LeavesLast ==
  ASSUME IInv, OInv, NEW d \in Device, NEW w \in pending[d], Finish(d, w) \/ CpuFault(d, w),
         NEW e \in Device, NEW v \in pending[e], v.no < w.no
  PROVE  v.touch \cap w.touch = {}
<1>1. CASE Finish(d, w)
  BY <1>1, RunsLast DEF Finish, RunsInProgramOrder
<1>2. CASE CpuFault(d, w)
  <2>1. d \in CpuDevice /\ w.touch = {d} /\ w.q = "compute"
    BY <1>2 DEF CpuFault, OInv, CpuInv
  <2>2. CASE e = d
    <3>1. v.q = w.q /\ v.val < w.val
      BY <2>1, <2>2 DEF OInv, CpuInv, NumberInv
    <3>2. w.val <= v.val
      BY <1>2, <2>2, <3>1 DEF CpuFault, Head
    <3>3. w.val \in Nat /\ v.val \in Nat
      BY DEF IInv, TypeInv, TypeOK, Work
    <3> QED
      BY <3>1, <3>2, <3>3
  <2>3. CASE e # d
    BY <2>1, <2>3 DEF OInv, JoinInv
  <2> QED
    BY <2>1, <2>2, <2>3
<1> QED
  BY <1>1, <1>2

LEMMA LeaveRetires ==
  ASSUME IInv, OInv, NEW d \in Device, NEW w \in pending[d], Finish(d, w) \/ CpuFault(d, w)
  PROVE  Order!Next
<1>1. pending \in [Device -> SUBSET Work] /\ w \in Work
  BY DEF IInv, TypeInv, TypeOK
<1>2. pending' = [pending EXCEPT ![d] = @ \ {w}] /\ clock' = clock
  BY DEF Finish, CpuFault
<1>3. pending'[d] = pending[d] \ {w} /\ \A x \in Device \ {d} : pending'[x] = pending[x]
  BY <1>1, <1>2
<1>4. Entry(w) \in Outstanding
  BY OutstandingIs
<1>5. \A x \in Device : \A v \in pending[x] : Entry(v) = Entry(w) => x = d /\ v = w
  BY DEF Entry, OInv, NumberInv
<1>6. Outstanding' = Outstanding \ {Entry(w)}
  <2>1. \A r : r \in Outstanding' <=> \E x \in Device : \E v \in pending'[x] : r = Entry(v)
    BY DEF Outstanding, Entry
  <2>2. \A r : r \in Outstanding' <=> r \in Outstanding /\ r # Entry(w)
    BY <1>3, <1>5, <2>1, OutstandingIs
  <2> QED
    BY <2>2
<1>7. ASSUME NEW r \in Outstanding, Order!Earlier(r, Entry(w)) PROVE FALSE
  <2>1. PICK e \in Device : \E v \in pending[e] : r = Entry(v)
    BY OutstandingIs
  <2>2. PICK v \in pending[e] : r = Entry(v)
    BY <2>1
  <2>3. v.no < w.no /\ v.touch \cap w.touch # {}
    BY <1>7, <2>2 DEF Order!Earlier, Entry
  <2> QED
    BY <2>3, LeavesLast
<1>8. \E r \in Outstanding :
        /\ ~\E v \in Outstanding : Order!Earlier(v, r)
        /\ Outstanding' = Outstanding \ {r}
        /\ clock' = clock
  BY <1>2, <1>4, <1>6, <1>7
<1> QED
  BY <1>8, OutstandingDef DEF Order!Next, Order!Retire, Outstanding, Entry

\* The compute and copy queues of all devices together implement one program order:
\* a submission takes effect after every earlier one that shares a device with it.
THEOREM ImplementsProgramOrder == Spec => InProgramOrder
<1> DEFINE abs == <<Outstanding, clock>>
<1>1. Init => Order!Init
  <2> SUFFICES ASSUME Init PROVE Order!Init
    OBVIOUS
  <2>1. clock = 0 /\ \A d \in Device : pending[d] = {}
    BY DEF Init
  <2>2. Outstanding = {}
    BY <2>1, OutstandingIs
  <2> QED
    BY <2>1, <2>2, OutstandingDef DEF Order!Init
<1>2. IInv /\ OInv /\ [Next]_vars => [Order!Next]_abs
  <2> SUFFICES ASSUME IInv, OInv, [Next]_vars PROVE [Order!Next]_abs
    OBVIOUS
  <2>1. TypeOK
    BY DEF IInv, TypeInv
  <2>2. ASSUME UNCHANGED <<pending, clock>> PROVE UNCHANGED abs
    BY <2>2 DEF Outstanding, Entry
  <2>3. ASSUME NEW d \in Device, NEW w \in Work, Submit(d, w), OwnWork(d, w) PROVE Order!Next
    BY <2>1, <2>3, SubmitSubmits DEF OwnWork
  <2>4. ASSUME NEW s \in Device, NEW d \in Device, NEW bs \in Buffer, NEW bd \in Buffer,
               Transfer(s, d, bs, bd)
        PROVE  Order!Next
    BY <2>1, <2>4, SubmissionFields, SubmitSubmits DEF Transfer
  <2>5. CASE TransferJoin
    <3>1. dev \in Device
      BY <2>5 DEF TransferJoin, IInv, TypeInv, HostOK
    <3> QED
      BY <2>1, <2>5, <3>1, SubmissionFields, SubmitSubmits DEF TransferJoin
  <2>6. ASSUME NEW d \in Device, NEW w \in pending[d], Start(d, w) PROVE UNCHANGED abs
    BY <2>2, <2>6 DEF Start
  <2>7. ASSUME NEW d \in Device, NEW w \in pending[d], Finish(d, w) \/ CpuFault(d, w) PROVE Order!Next
    BY <2>7, LeaveRetires
  <2>8. CASE UNCHANGED vars
    BY <2>2, <2>8 DEF vars
  <2> QED
    BY StepKinds, <2>2, <2>3, <2>4, <2>5, <2>6, <2>7, <2>8
<1>3. [Order!Next]_abs =>
        [Order!Next]_<<{[no |-> w.no, touch |-> w.touch] : w \in UNION {pending[d] : d \in Device}}, clock>>
  BY DEF Outstanding, Entry
<1> QED
  BY <1>1, <1>2, <1>3, OInvAlways, PTL DEF Spec, InProgramOrder, Order!Spec
=============================================================================
