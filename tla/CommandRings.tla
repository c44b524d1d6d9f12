---------------------------- MODULE CommandRings ----------------------------
(***************************************************************************)
(* The two command queues of an AMD device, tinygrad/runtime/ops_amd.py:   *)
(* the AQL compute ring with the memory its PM4 commands live in, and the  *)
(* SDMA ring of the copy queue.  HCQDevice takes a submission as one step  *)
(* that cannot fail; here it is bytes the host writes into memory that the *)
(* device reads later, at its own pace, and that the host writes again     *)
(* when the ring or the command memory comes round.                        *)
(*                                                                         *)
(* Two rules protect that memory.  SDMA looks at the read pointer of the   *)
(* device.  The PM4 command memory is drained when its allocator wraps.    *)
(* The AQL ring has no rule: when enough small programs are queued between *)
(* two drains it laps the device.  And invalidate_caches waits for nothing *)
(* that is in flight.  Both are steps of the model; lapped and overtaken   *)
(* record that they happened, and no step looks at them.                   *)
(*                                                                         *)
(* put and get are counted from the start and reduced modulo the           *)
(* size of the ring where the ring is read or written.  A slot records the *)
(* count it was written at, so the device's next slots are intact when     *)
(* they record the counts it will read them at.                            *)
(*                                                                         *)
(* Not here: USB devices (single stepped), the PM4 ring of devices without *)
(* AQL, SDMA indirect buffers (AMD_SDMA_BIND, off by default), waits that  *)
(* run out of time and the drain of the kernargs (HCQDevice has them;      *)
(* here a synchronize may precede any program).                            *)
(***************************************************************************)
EXTENDS Integers, SequencesExt, BumpAllocator

CONSTANTS
  Programs,      \* compute queues launched: sequences of "pm4" and "dispatch"
  Graphs,        \* compute queues bound to the device: likewise
  Copies,        \* copy queues: the sizes of their commands, in dwords
  IBCap,         \* pm4_ibs.size, in dwords
  IBAlign,       \* the alignment of its allocations, in dwords
  AqlSlots,      \* packets the compute ring holds
  SdmaSize,      \* dwords the SDMA ring holds
  MaxSubmit      \* bound on the submissions of a behaviour

IBDword   == 0..(IBCap - 1)
AqlSlot   == 0..(AqlSlots - 1)
SdmaDword == 0..(SdmaSize - 1)
Ring      == {"aql", "sdma"}

\* The commands of invalidate_caches: a memory barrier and a signal, and no wait.
Flush == <<"pm4", "pm4">>

VARIABLES
  value,         \* timeline_value
  signal,        \* what the timeline signal holds
  pc,            \* where the host is: "idle", "submit" or "sync"
  job,           \* the submission it is making
  ib,            \* pm4_ib_alloc.ptr
  ibs,           \* pm4_ibs: the submission that wrote each dword
  aql,           \* the slots of the compute ring
  sdma,          \* the dwords of the SDMA ring
  put,           \* put_value of each ring, which the doorbell tells the device
  get,           \* what the device has consumed of each ring
  replayed,      \* the timeline value of the last replay of each graph
  lapped,        \* history: a packet was written over one the device had yet to take
  overtaken      \* history: caches were invalidated while a copy was in flight

memory  == <<ibs, aql, sdma, put>>
history == <<lapped, overtaken>>
vars    == <<value, signal, pc, job, ib, ibs, aql, sdma, put, get, replayed, history>>

----------------------------------------------------------------------------
(* AQL packets: what _prep_aql makes of a command list.                    *)

\* A packet is a run of PM4 commands, fetched from their memory, or one dispatch.
Starts(q) ==
  {i \in DOMAIN q : i = 1 \/ q[i] = "dispatch" \/ q[i - 1] = "dispatch"}

EndOf(q, first) == Min({i \in DOMAIN q : i >= first /\ (i = Len(q) \/ i + 1 \in Starts(q))})

\* The first packet holds the wait for the previous value, the last the signal.
Packet(j, first) ==
  LET last == EndOf(j.queue, first)
  IN  [at      |-> put["aql"] + Cardinality({i \in Starts(j.queue) : i < first}),
       value   |-> j.value,
       fetches |-> IF j.bound \/ j.queue[first] = "dispatch" THEN {}
                   ELSE j.offset + first - 1 .. j.offset + last - 1,
       waits   |-> j.waits /\ first = 1,
       signals |-> last = Len(j.queue)]

NoPacket == [at |-> -1, value |-> 0, fetches |-> {}, waits |-> FALSE, signals |-> FALSE]

PrepAql(j) == {Packet(j, first) : first \in Starts(j.queue)}

\* The code asserts that a submission is smaller than the ring; these are.
ASSUME SizeAssumption ==
  /\ IBCap \in Nat \ {0} /\ IBAlign \in Nat \ {0} /\ AqlSlots \in Nat \ {0} /\ SdmaSize \in Nat \ {0}
  /\ MaxSubmit \in Nat
  /\ \A q \in Programs \cup Graphs : q \in Seq({"pm4", "dispatch"}) /\ q # <<>>
  /\ \A q \in Programs \cup {Flush} : Len(q) <= IBCap
  /\ \A q \in Programs \cup Graphs \cup {Flush} : Cardinality(Starts(q)) < AqlSlots

----------------------------------------------------------------------------
(* SDMA commands: the first is the wait, the last the signal.              *)

\* Dwords of the first k commands.
Sum(q) == LET sum[k \in 0..Len(q)] == IF k = 0 THEN 0 ELSE sum[k - 1] + q[k] IN sum

\* The command lists are not longer than half the ring, which keeps the assertion
\* "SDMA queue overrun" true wherever they begin.
ASSUME CopyAssumption ==
  \A q \in Copies : /\ q \in Seq(Nat \ {0}) /\ Len(q) >= 2
                    /\ 2 * Sum(q)[Len(q)] <= SdmaSize

\* Dwords left before the end of the ring.
ToEnd == SdmaSize - (put["sdma"] % SdmaSize)

\* Whole commands up to the first that would reach the end of the ring.
TailBlit(q) == Max({k \in 0..Len(q) : Sum(q)[k] < ToEnd})

Rest(q) == Sum(q)[Len(q)] - Sum(q)[TailBlit(q)]

\* What is left over goes behind a zero fill, -put_value % ring.nbytes further.
TotalDwords(q) ==
  IF Rest(q) = 0 THEN Sum(q)[Len(q)] ELSE (ToEnd % SdmaSize) + Rest(q)

\* The commands and where they are written, counted from the start.
Laid(j) ==
  LET sum  == Sum(j.queue)
      tail == TailBlit(j.queue)
      at(k) == put["sdma"] + (IF k <= tail THEN sum[k - 1] ELSE ToEnd + sum[k - 1] - sum[tail])
  IN  {[at |-> at(k), size |-> j.queue[k], value |-> j.value,
        waits |-> j.waits /\ k = 1, signals |-> k = Len(j.queue)] : k \in DOMAIN j.queue}

Nop(at) == [at |-> at, size |-> 1, value |-> 0, waits |-> FALSE, signals |-> FALSE]

\* What the submission puts at a count: a dword of a command, or of the zero fill.
DwordAt(laid, at) ==
  [at  |-> at,
   cmd |-> IF \E c \in laid : at \in c.at .. c.at + c.size - 1
           THEN CHOOSE c \in laid : at \in c.at .. c.at + c.size - 1
           ELSE Nop(at)]

----------------------------------------------------------------------------
NoJob == [ring |-> "aql", queue |-> <<>>, value |-> 0, waits |-> FALSE, bound |-> TRUE,
          offset |-> 0, wrapped |-> FALSE, next |-> "idle"]

Init ==
  /\ value = 1 /\ signal = 0
  /\ pc = "idle" /\ job = NoJob
  /\ ib = 0 /\ ibs = [i \in IBDword |-> 0]
  /\ aql = [i \in AqlSlot |-> NoPacket]
  /\ sdma = [i \in SdmaDword |-> [at |-> -1, cmd |-> Nop(-1)]]
  /\ put = [r \in Ring |-> 0] /\ get = [r \in Ring |-> 0]
  /\ replayed = [g \in Graphs |-> 0]
  /\ lapped = FALSE /\ overtaken = FALSE

\* signal(timeline_signal, next_timeline()).submit: the value is taken first.
Take(j) ==
  /\ value <= MaxSubmit
  /\ pc' = "submit"
  /\ job' = [j EXCEPT !.value = value]
  /\ value' = value + 1

TakeComputeMutant(q, waits, next) ==
  /\ Take([NoJob EXCEPT !.queue = q, !.waits = waits, !.bound = FALSE, !.next = next,
                        !.offset = BumpOffset(ib, Len(q), IBAlign, IBCap)])
  /\ ib' = BumpPtr(ib, Len(q), IBAlign, IBCap)

\* An unbound compute queue: its PM4 commands get memory of pm4_ibs.
TakeCompute(q, waits, next) ==
  /\ Take([NoJob EXCEPT !.queue = q, !.waits = waits, !.bound = FALSE, !.next = next,
                        !.offset = BumpOffset(ib, Len(q), IBAlign, IBCap),
                        !.wrapped = BumpWraps(ib, Len(q), IBAlign, IBCap)])
  /\ ib' = BumpPtr(ib, Len(q), IBAlign, IBCap)

Exec(q) ==
  /\ pc = "idle"
  /\ TakeCompute(q, TRUE, "idle")
  /\ UNCHANGED <<signal, memory, get, replayed, history>>

\* memory_barrier().signal(...).submit, then synchronize.
InvalidateCaches ==
  /\ pc = "idle"
  /\ TakeCompute(Flush, FALSE, "sync")
  /\ overtaken' = (overtaken \/ get["sdma"] # put["sdma"])
  /\ UNCHANGED <<signal, memory, get, replayed, lapped>>

CopyMutant(q) ==
  /\ pc = "idle"
  /\ Take([NoJob EXCEPT !.ring = "sdma", !.queue = q])
  /\ UNCHANGED <<signal, ib, memory, get, replayed, history>>

Copy(q) ==
  /\ pc = "idle"
  /\ Take([NoJob EXCEPT !.ring = "sdma", !.queue = q, !.waits = TRUE])
  /\ UNCHANGED <<signal, ib, memory, get, replayed, history>>

\* HCQGraph.__call__: the host waits for the previous replay, whose commands it patches.
Replay(g) ==
  /\ pc = "idle"
  /\ signal >= replayed[g]
  /\ Take([NoJob EXCEPT !.queue = g, !.waits = TRUE])
  /\ replayed' = [replayed EXCEPT ![g] = value]
  /\ UNCHANGED <<signal, ib, memory, get, history>>

DrainedMutant == job.wrapped => signal >= value - 1

\* The drain of _submit: what was submitted before the caller took its own value.
Drained == job.wrapped => signal >= value - 2

\* Packets land in the slots of their counts, PM4 commands in their memory.
WritePackets(j, packets) ==
  /\ aql' = [s \in AqlSlot |-> IF \E p \in packets : p.at % AqlSlots = s
                               THEN CHOOSE p \in packets : p.at % AqlSlots = s
                               ELSE aql[s]]
  /\ ibs' = IF j.bound THEN ibs
            ELSE [i \in IBDword |-> IF i \in j.offset .. j.offset + Len(j.queue) - 1
                                    THEN j.value ELSE ibs[i]]
  /\ put' = [put EXCEPT !["aql"] = @ + Cardinality(packets)]

SubmitCompute ==
  /\ pc = "submit" /\ job.ring = "aql"
  /\ Drained
  /\ \E packets \in {PrepAql(job)} : WritePackets(job, packets)
  /\ lapped' = (lapped \/ put'["aql"] > get["aql"] + AqlSlots)
  /\ pc' = job.next /\ job' = NoJob
  /\ UNCHANGED <<value, signal, ib, sdma, get, replayed, overtaken>>

RoomMutant(q) == put["sdma"] + Sum(q)[Len(q)] - get["sdma"] <= SdmaSize

\* The loop of AMDCopyQueue._submit on the read pointer.
Room(q) == put["sdma"] + TotalDwords(q) - get["sdma"] <= SdmaSize

WriteDwords(laid, end) ==
  /\ sdma' = [i \in SdmaDword |->
                LET at == CHOOSE c \in end - SdmaSize .. end - 1 : c % SdmaSize = i
                IN  IF at >= put["sdma"] THEN DwordAt(laid, at) ELSE sdma[i]]
  /\ put' = [put EXCEPT !["sdma"] = end]

SubmitCopy ==
  /\ pc = "submit" /\ job.ring = "sdma"
  /\ Room(job.queue)
  /\ \E laid \in {Laid(job)} : WriteDwords(laid, put["sdma"] + TotalDwords(job.queue))
  /\ pc' = job.next /\ job' = NoJob
  /\ UNCHANGED <<value, signal, ib, ibs, aql, get, replayed, history>>

Synchronize ==
  /\ pc = "idle"
  /\ pc' = "sync"
  /\ UNCHANGED <<value, signal, job, ib, memory, get, replayed, history>>

SynchronizeReturns ==
  /\ pc = "sync"
  /\ signal >= value - 1
  /\ pc' = "idle"
  /\ UNCHANGED <<value, signal, job, ib, memory, get, replayed, history>>

----------------------------------------------------------------------------
(* The device, which takes what it finds in the next slot.                 *)

Runnable(cmd) == cmd.waits => signal >= cmd.value - 1

Execute(cmd) ==
  /\ Runnable(cmd)
  /\ signal' = IF cmd.signals THEN cmd.value ELSE signal

NextPacket  == aql[get["aql"] % AqlSlots]
NextCommand == sdma[get["sdma"] % SdmaSize].cmd

RunPacket ==
  /\ get["aql"] < put["aql"]
  /\ Execute(NextPacket)
  /\ get' = [get EXCEPT !["aql"] = @ + 1]
  /\ UNCHANGED <<value, pc, job, ib, memory, replayed, history>>

RunCommand ==
  /\ get["sdma"] < put["sdma"]
  /\ Execute(NextCommand)
  /\ get' = [get EXCEPT !["sdma"] = @ + NextCommand.size]
  /\ UNCHANGED <<value, pc, job, ib, memory, replayed, history>>

Host ==
  \/ \E q \in Programs : Exec(q)
  \/ \E q \in Copies : Copy(q)
  \/ \E g \in Graphs : Replay(g)
  \/ InvalidateCaches
  \/ Synchronize

Proceed == SubmitCompute \/ SubmitCopy \/ SynchronizeReturns

Next == Host \/ Proceed \/ RunPacket \/ RunCommand

Spec == Init /\ [][Next]_vars

----------------------------------------------------------------------------
(* Properties.                                                             *)

\* Nothing has gone wrong that the code does not prevent.
Orderly == ~lapped /\ ~overtaken

\* The command memory a packet names still holds the commands of its submission until
\* the device has executed it: the allocator wraps only onto what has been drained,
\* and never hands out memory beyond the end.
CommandMemoryIntact ==
  Orderly => \A s \in AqlSlot : aql[s].at >= get["aql"] =>
    \A i \in aql[s].fetches : i \in IBDword /\ ibs[i] = aql[s].value

\* The SDMA engine finds whole commands, none cut by the end of the ring and none
\* overwritten before it was read, wherever a submission begins; and the assertion
\* "SDMA queue overrun" holds.
CopyCommandsIntact ==
  /\ get["sdma"] <= put["sdma"]
  /\ pc = "submit" /\ job.ring = "sdma" => TotalDwords(job.queue) < SdmaSize
  /\ \A at \in get["sdma"]..(put["sdma"] - 1) : sdma[at % SdmaSize].at = at
  /\ get["sdma"] < put["sdma"] =>
       /\ NextCommand.at = get["sdma"]
       /\ (get["sdma"] % SdmaSize) + NextCommand.size <= SdmaSize

\* Where the host is blocked, and when the device has something it may execute.
HostWaits ==
  \/ pc = "sync" /\ signal < value - 1
  \/ pc = "submit" /\ IF job.ring = "aql" THEN ~Drained ELSE ~Room(job.queue)

DeviceRuns == \/ get["aql"] < put["aql"] /\ Runnable(NextPacket)
              \/ get["sdma"] < put["sdma"] /\ Runnable(NextCommand)

\* The host never waits for something only it can bring about, and the device never has
\* commands none of which can start: the drain of a wrapped command memory waits for
\* timeline_value - 2, since - 1 belongs to the submission that is waiting.
NeverStuck == Orderly /\ (HostWaits \/ get # put) => DeviceRuns

\* Two queues that run independently set one timeline, and it takes every value in turn,
\* also when caches are invalidated while programs are in flight.
TimelineInOrder == [][Orderly /\ signal' # signal => signal' = signal + 1]_vars

\* "Synchronize all pending operations on the device. This method ensures that all
\* previously queued operations on the device have been completed before proceeding."
\* (tinygrad/device.py): when it returns, both rings are empty.  Not so once the compute
\* ring has lapped the device, or an invalidation has overtaken a copy.
SyncIsBarrier ==
  [][pc = "sync" /\ pc' = "idle" => get = put]_vars

=============================================================================
