---------------------------- MODULE Host_proofs ----------------------------
(***************************************************************************)
(* Proofs about what runs on the host beside its main thread: isolated       *)
(* processes (Isolated), the threads of the CPU device (CPUThreads), reads   *)
(* from a disk (DiskRing) and the LLM server (LLMServer), for every value of *)
(* their constants.                                                          *)
(***************************************************************************)
EXTENDS MCHost, SequenceTheorems, FiniteSetTheorems, TLAPS

-----------------------------------------------------------------------------
(* Isolated processes. *)

Status == {"none", "passed", "failed"}

CallTypes ==
  /\ state["child"] \in {"starting", "running", "writing", "ending", "gone"}
  /\ DOMAIN state = {"child", "helper"}
  /\ said \in Status /\ row \in Status /\ verdict \in Status \cup {"timed_out"}
  /\ length \in Nat /\ sent \in Nat /\ received \in Nat

\* What of its row a child has written, by where it is, and what an exit code says of it.
ChildInv ==
  /\ state["child"] \in {"starting", "running"} => said = "none" /\ length = 0 /\ sent = 0
  /\ state["child"] = "writing" => sent < length
  /\ state["child"] = "ending" => sent = length
  /\ sent <= length /\ (said = "none" <=> length = 0)
  /\ code = "none" <=> state["child"] # "gone"
  /\ code = "zero" => sent = length

\* What the parent has of it, and what it knows when it is about to judge.
ParentInv ==
  /\ received <= sent
  /\ row # "none" => row = said /\ received = length
  /\ parent \in {"late", "receive_late", "verdict", "stopped", "done"} => state["child"] = "gone"
  /\ parent = "verdict" /\ row = "none" => sent = 0
  /\ verdict # "none" => parent = "done" /\ Call!VerdictIsTrue

CallInv == CallTypes /\ ChildInv /\ ParentInv

LEMMA CallInit == Call!Init => CallInv
  BY DEF Call!Init, Call!Process, CallInv, CallTypes, ChildInv, ParentInv, Status

\* The steps of the child, of time and of signals.
LEMMA ChildKeeps ==
  CallInv /\ (\/ Call!Expire
              \/ Call!Setsid \/ Call!StartHelper \/ Call!Put \/ Call!PutFails \/ Call!Feed
              \/ Call!Exit \/ Call!Die \/ \E p \in Call!Process : Call!Deliver(p))
    => CallInv'
<1> USE DEF CallInv, CallTypes, ChildInv, ParentInv, Status, Call!VerdictIsTrue, Call!mine, Call!theirs, Call!Alive
<1>1. ASSUME CallInv, Call!Expire PROVE CallInv'
  BY <1>1 DEF Call!Expire
<1>2. ASSUME CallInv, Call!Setsid PROVE CallInv'
  BY <1>2 DEF Call!Setsid
<1>3. ASSUME CallInv, Call!StartHelper PROVE CallInv'
  BY <1>3 DEF Call!StartHelper
<1>4. ASSUME CallInv, Call!Put PROVE CallInv'
  <2>1. length' \in Nat \ {0} /\ said' \in {"passed", "failed"}
    BY <1>4, MCAssumption DEF Call!Put, MCAssumption, Call!IsolatedAssumption
  <2>2. row = "none" /\ verdict = "none" /\ sent = 0 /\ received = 0
    BY <1>4 DEF Call!Put
  <2>3. state'["child"] = "writing" /\ DOMAIN state' = {"child", "helper"}
    BY <1>4 DEF Call!Put
  <2>4. UNCHANGED <<parent, row, verdict, sent, received, code>>
    BY <1>4 DEF Call!Put
  <2> QED
    BY <1>4, <2>1, <2>2, <2>3, <2>4 DEF Call!Put
<1>5. ASSUME CallInv, Call!PutFails PROVE CallInv'
  BY <1>5 DEF Call!PutFails
<1>6. ASSUME CallInv, Call!Feed PROVE CallInv'
  <2>1. sent' = sent + 1 /\ sent' <= length /\ DOMAIN state' = {"child", "helper"}
    BY <1>6 DEF Call!Feed
  <2>2. state'["child"] = IF sent' = length THEN "ending" ELSE "writing"
    BY <1>6 DEF Call!Feed
  <2>3. UNCHANGED <<parent, row, verdict, said, length, received, code>>
    BY <1>6 DEF Call!Feed
  <2>4. parent \notin {"late", "receive_late", "verdict", "stopped", "done"} /\ code = "none"
    BY <1>6 DEF Call!Feed
  <2> QED
    BY <1>6, <2>1, <2>2, <2>3, <2>4
<1>7. ASSUME CallInv, Call!Exit PROVE CallInv'
  BY <1>7 DEF Call!Exit
<1>8. ASSUME CallInv, Call!Die PROVE CallInv'
  BY <1>8 DEF Call!Die
<1>9. ASSUME CallInv, NEW p \in Call!Process, Call!Deliver(p) PROVE CallInv'
  BY <1>9 DEF Call!Deliver, Call!Process
<1> QED
  BY <1>1, <1>2, <1>3, <1>4, <1>5, <1>6, <1>7, <1>8, <1>9

\* The steps of run_isolated.
LEMMA ParentKeeps ==
  CallInv /\ Call!Parent => CallInv'
<1> USE DEF CallInv, CallTypes, ChildInv, ParentInv, Status, Call!VerdictIsTrue, Call!Others, Call!theirs, Call!Alive
<1>1. ASSUME CallInv, Call!Loop \/ Call!Get \/ Call!EmptyGet PROVE CallInv'
  BY <1>1 DEF Call!Loop, Call!Get, Call!EmptyGet
<1>2. ASSUME CallInv, Call!Receive PROVE CallInv'
  <2>1. verdict = "none" /\ verdict' = "none" /\ UNCHANGED <<state, said, length, sent, code>>
    BY <1>2 DEF Call!Receive
  <2>2. received' = received + 1 /\ received' <= sent
    BY <1>2 DEF Call!Receive
  <2>3. row' = (IF received' = length THEN said ELSE row) /\ (row = "none" \/ received = length)
    BY <1>2 DEF Call!Receive
  <2>4. parent' = IF received' < length THEN parent ELSE IF parent = "receive" THEN "join" ELSE "verdict"
    BY <1>2 DEF Call!Receive
  <2>5. parent = "receive" \/ (parent = "receive_late" /\ state["child"] = "gone")
    BY <1>2 DEF Call!Receive
  <2>6. row' \in Status /\ (row' # "none" => row' = said /\ received' = length)
    BY <1>2, <2>2, <2>3
  <2>7. parent' = "verdict" => row' # "none"
    BY <1>2, <2>2, <2>3, <2>4, <2>5
  <2> QED
    BY <1>2, <2>1, <2>2, <2>4, <2>5, <2>6, <2>7
<1>3. ASSUME CallInv, Call!Join \/ Call!Judge \/ Call!Late PROVE CallInv'
  BY <1>3 DEF Call!Join, Call!Judge, Call!NoRow, Call!Late
<1>4. ASSUME CallInv, Call!Verdict PROVE CallInv'
  BY <1>4 DEF Call!Verdict, Call!Judged
<1>5. ASSUME CallInv, Call!Term \/ Call!Grace PROVE CallInv'
  BY <1>5 DEF Call!Term, Call!Grace, Call!GraceEnds, Call!AfterTerm
<1>6. ASSUME CallInv, Call!Killing \/ Call!Last \/ Call!Stopped PROVE CallInv'
  BY <1>6 DEF Call!Killing, Call!Last, Call!Stopped
<1> QED
  BY <1>1, <1>2, <1>3, <1>4, <1>5, <1>6 DEF Call!Parent

LEMMA CallSpec == MCSpec => Call!Init /\ [][Call!Next]_call_vars
<1>1. MCInit => Call!Init
  BY DEF MCInit
<1>2. [MCNext]_all_vars => [Call!Next]_call_vars
  BY DEF MCNext, all_vars, call_vars
<1> QED
  BY <1>1, <1>2, PTL DEF MCSpec

LEMMA CallInvariant == MCSpec => []CallInv
<1>1. CallInv /\ [Call!Next]_call_vars => CallInv'
  <2>1. ASSUME CallInv, Call!Next PROVE CallInv'
    BY <2>1, ChildKeeps, ParentKeeps, MCAssumption DEF Call!Next
  <2>2. ASSUME CallInv, UNCHANGED call_vars PROVE CallInv'
    BY <2>2 DEF call_vars, CallInv, CallTypes, ChildInv, ParentInv, Call!VerdictIsTrue
  <2> QED
    BY <2>1, <2>2
<1> QED
  BY <1>1, CallInit, CallSpec, PTL

\* VerdictIsTrue: run_isolated says "passed" exactly of a child that wrote the whole of a
\* row that says so and then exited with 0, whatever the lengths of rows and of the pipe.
THEOREM VerdictsAreTrue == MCSpec => []VerdictIsTrue
<1>1. CallInv => VerdictIsTrue
  BY DEF CallInv, CallTypes, ParentInv, VerdictIsTrue, Call!VerdictIsTrue
<1> QED
  BY <1>1, CallInvariant, PTL

\* ChildIsGone: run_isolated never returns before its child has ended, whatever the child
\* and its helper do with signals.
THEOREM NoChildLeft == MCSpec => []ChildIsGone
<1>1. CallInv => ChildIsGone
  BY DEF CallInv, ParentInv, ChildIsGone, Call!ChildIsGone, Call!Alive
<1> QED
  BY <1>1, CallInvariant, PTL

-----------------------------------------------------------------------------
(* The threads of the CPU device. *)

KernelId == Nat \X Nat
CommandType == [op : {"wait", "kernel", "signal"}, id : KernelId, threads : Nat, value : Nat]

\* A task of value n.
IsTask(t, n) ==
  /\ t \in Seq(CommandType) /\ Len(t) >= 2 /\ n \in Nat \ {0}
  /\ \A i \in 1..Len(t) :
       /\ t[i].id = <<n, i - 1>> /\ t[i].value = IF i = 1 THEN n - 1 ELSE n
       /\ t[i].op = IF i = 1 THEN "wait" ELSE IF i = Len(t) THEN "signal" ELSE "kernel"
       /\ t[i].op # "kernel" => t[i].threads = 1

Number(t) == t[1].id[1]

CPUTypes ==
  /\ tasks \in Seq(Seq(CommandType)) /\ commands \in Seq(CommandType)
  /\ worker \in {"get", "next", "run", "join"} /\ signal \in Nat /\ timeline_value \in Nat \ {0}
  /\ DOMAIN pool = CPU!PoolThread /\ \A th \in CPU!PoolThread : pool[th] \in Seq(KernelId)
  /\ \A th \in busy : th \in CPU!PoolThread /\ pool[th] # <<>>

\* Tasks come in the order of their values.
TaskInv ==
  /\ \A i \in 1..Len(tasks) : IsTask(tasks[i], Number(tasks[i])) /\ Number(tasks[i]) < timeline_value
  /\ \A i, j \in 1..Len(tasks) : i < j => Number(tasks[i]) < Number(tasks[j])
  /\ signal < timeline_value

\* The worker's command is the one after those of its task it has done.
Done == Len(tasks[1]) - Len(commands)

\* The worker is past the wait of its task, and past its signal.
Waited == Done > 0 \/ worker = "join"
Signalled == commands = <<>> \/ (worker = "join" /\ Len(commands) = 1)

WorkerInv ==
  /\ worker = "get" => commands = <<>> /\ \A i \in 1..Len(tasks) : signal < Number(tasks[i])
  /\ worker # "get" =>
       /\ tasks # <<>> /\ Done >= 0
       /\ \A i \in 1..Len(commands) : commands[i] = tasks[1][Done + i]
       /\ worker \in {"run", "join"} => commands # <<>>
       /\ Waited => signal >= Number(tasks[1]) - 1
       /\ IF Signalled THEN signal = Number(tasks[1]) ELSE signal < Number(tasks[1])

\* A share in the pool is of the worker's kernel, or of a kernel whose task raised: the
\* signal stays below that task, and no later one gets past its wait.
Share(th, id) ==
  /\ id \in KernelId /\ signal < id[1] /\ id[1] < timeline_value
  /\ \A i \in 1..Len(tasks) : (i > 1 \/ worker = "get") => id[1] < Number(tasks[i])
  /\ worker # "get" => id[1] <= Number(tasks[1])
  /\ worker # "get" /\ id[1] = Number(tasks[1]) =>
       /\ worker \in {"run", "join"} /\ commands[1].op = "kernel" /\ id = commands[1].id
       /\ th \in CPU!Others(commands[1])

ShareInv == \A th \in CPU!PoolThread : \A id \in CPU!Range(pool[th]) : Share(th, id)

CPUInv == CPUTypes /\ TaskInv /\ WorkerInv /\ ShareInv

\* What is in the queue of a thread is in one of its places.
LEMMA RangeOut ==
  ASSUME NEW S, NEW q \in Seq(S)
  PROVE  \A x \in CPU!Range(q) : x \in S /\ \E i \in 1..Len(q) : x = q[i]
<1>1. DOMAIN q = 1..Len(q) /\ \A i \in 1..Len(q) : q[i] \in S
  BY ElementOfSeq
<1>2. ASSUME NEW x \in CPU!Range(q) PROVE x \in S /\ \E i \in 1..Len(q) : x = q[i]
  <2>1. PICK i \in DOMAIN q : x = q[i]
    BY DEF CPU!Range
  <2> QED
    BY <1>1, <2>1
<1> QED
  BY <1>2

LEMMA RangeIn ==
  ASSUME NEW S, NEW q \in Seq(S)
  PROVE  \A i \in 1..Len(q) : q[i] \in CPU!Range(q)
<1>1. DOMAIN q = 1..Len(q)
  OBVIOUS
<1>2. ASSUME NEW i \in 1..Len(q) PROVE q[i] \in CPU!Range(q)
  BY <1>1 DEF CPU!Range
<1> QED
  BY <1>2

LEMMA RangeOfAppend ==
  ASSUME NEW S, NEW q \in Seq(S), NEW x \in S
  PROVE  CPU!Range(Append(q, x)) = CPU!Range(q) \cup {x}
<1>1. DOMAIN Append(q, x) = 1..(Len(q) + 1) /\ DOMAIN q = 1..Len(q)
  OBVIOUS
<1>2. \A i \in 1..(Len(q) + 1) : Append(q, x)[i] = IF i = Len(q) + 1 THEN x ELSE q[i]
  OBVIOUS
<1>3. Len(q) \in Nat
  OBVIOUS
<1> QED
  BY <1>1, <1>2, <1>3 DEF CPU!Range

LEMMA RangeOfTail ==
  ASSUME NEW S, NEW q \in Seq(S), q # <<>>
  PROVE  CPU!Range(Tail(q)) \subseteq CPU!Range(q)
<1>1. Tail(q) \in Seq(S) /\ Len(Tail(q)) = Len(q) - 1 /\ \A i \in 1..Len(Tail(q)) : Tail(q)[i] = q[i + 1]
  BY HeadTailProperties
<1>2. Len(q) \in Nat
  OBVIOUS
<1>3. ASSUME NEW x \in CPU!Range(Tail(q)) PROVE x \in CPU!Range(q)
  <2>a. PICK rest : rest = Tail(q)
    OBVIOUS
  <2>b. rest \in Seq(S) /\ x \in CPU!Range(rest)
    BY <1>1, <1>3, <2>a
  <2>c. \E i \in 1..Len(rest) : x = rest[i]
    BY <2>b, RangeOut
  <2>1. PICK i \in 1..Len(Tail(q)) : x = Tail(q)[i]
    BY <2>a, <2>c
  <2>2. i + 1 \in 1..Len(q) /\ x = q[i + 1]
    BY <1>1, <1>2, <2>1
  <2> QED
    BY <2>2, RangeIn
<1> QED
  BY <1>3

\* The list a submission makes is a task of its value.
LEMMA TaskShape ==
  ASSUME NEW threads \in CPU!BoundedSeq(Threads, 2) \ {<<>>}, MCAssumption, timeline_value \in Nat \ {0}
  PROVE  IsTask(CPU!Task(threads), timeline_value)
<1>1. threads \in Seq(Nat) /\ Len(threads) > 0
  <2>1. PICK m \in 0..2 : threads \in [1..m -> Threads]
    BY DEF CPU!BoundedSeq, CPU!SeqOf
  <2>2. threads \in Seq(Threads) /\ Len(threads) = m
    BY <2>1
  <2>3. Threads \subseteq Nat
    BY MCAssumption DEF MCAssumption, CPU!CPUAssumption
  <2>4. threads \in Seq(Nat)
    <3>1. threads \in [1..m -> Nat]
      BY <2>1, <2>3
    <3> QED
      BY <3>1
  <2> QED
    BY <2>2, <2>4
<1> DEFINE first == <<CPU!Command("wait", 0, 1, timeline_value - 1)>>
           kernels == [i \in DOMAIN threads |-> CPU!Command("kernel", i, threads[i], timeline_value)]
           last == <<CPU!Command("signal", Len(threads) + 1, 1, timeline_value)>>
<1>2. /\ kernels \in Seq(CommandType) /\ Len(kernels) = Len(threads)
      /\ \A i \in 1..Len(threads) : kernels[i] = [op |-> "kernel", id |-> <<timeline_value, i>>,
                                                  threads |-> threads[i], value |-> timeline_value]
  <2>1. DOMAIN threads = 1..Len(threads) /\ Len(threads) \in Nat
    BY <1>1
  <2>2. \A i \in 1..Len(threads) : threads[i] \in Nat
    BY <1>1, ElementOfSeq
  <2>3. \A i \in 1..Len(threads) : <<timeline_value, i>> \in KernelId
    BY <2>1 DEF KernelId
  <2>4. \A i \in 1..Len(threads) : kernels[i] = [op |-> "kernel", id |-> <<timeline_value, i>>,
                                                 threads |-> threads[i], value |-> timeline_value]
    BY <2>1 DEF CPU!Command
  <2>5. kernels = [i \in 1..Len(threads) |-> kernels[i]]
    BY <2>1
  <2> HIDE DEF kernels
  <2>6. ASSUME NEW i \in 1..Len(threads) PROVE kernels[i] \in CommandType
    <3>1. <<timeline_value, i>> \in KernelId /\ threads[i] \in Nat
      BY <2>2, <2>3
    <3>2. kernels[i] = [op |-> "kernel", id |-> <<timeline_value, i>>, threads |-> threads[i], value |-> timeline_value]
      BY <2>4
    <3> QED
      BY <3>1, <3>2 DEF CommandType
  <2>7. kernels \in [1..Len(threads) -> CommandType]
    BY <2>5, <2>6
  <2> QED
    BY <2>1, <2>4, <2>7
<1>3. /\ first \in Seq(CommandType) /\ Len(first) = 1
      /\ first[1] = [op |-> "wait", id |-> <<timeline_value, 0>>, threads |-> 1, value |-> timeline_value - 1]
  <2>1. <<timeline_value, 0>> \in KernelId /\ timeline_value - 1 \in Nat
    BY DEF KernelId
  <2> QED
    BY <2>1 DEF CPU!Command, CommandType
<1>4. /\ last \in Seq(CommandType) /\ Len(last) = 1
      /\ last[1] = [op |-> "signal", id |-> <<timeline_value, Len(threads) + 1>>, threads |-> 1, value |-> timeline_value]
  <2>1. <<timeline_value, Len(threads) + 1>> \in KernelId
    BY <1>1 DEF KernelId
  <2> QED
    BY <2>1 DEF CPU!Command, CommandType
<1> HIDE DEF first, kernels, last
<1>5. /\ first \o kernels \in Seq(CommandType) /\ Len(first \o kernels) = 1 + Len(threads)
      /\ \A i \in 1..(1 + Len(threads)) : (first \o kernels)[i] = IF i = 1 THEN first[1] ELSE kernels[i - 1]
  <2>1. /\ first \o kernels \in Seq(CommandType) /\ Len(first \o kernels) = Len(first) + Len(kernels)
        /\ \A i \in 1..(Len(first) + Len(kernels)) :
             (first \o kernels)[i] = IF i <= Len(first) THEN first[i] ELSE kernels[i - Len(first)]
    <3>1. first \in Seq(CommandType) /\ kernels \in Seq(CommandType)
      BY <1>2, <1>3
    <3> QED
      BY <3>1, ConcatProperties
  <2>2. Len(threads) \in Nat
    BY <1>1
  <2>3. Len(first) = 1 /\ Len(kernels) = Len(threads)
    BY <1>2, <1>3
  <2> QED
    BY <2>1, <2>2, <2>3
<1> DEFINE t == (first \o kernels) \o last
<1>6. /\ t \in Seq(CommandType) /\ Len(t) = Len(threads) + 2
      /\ \A i \in 1..(Len(threads) + 2) :
           t[i] = IF i = 1 THEN first[1] ELSE IF i = Len(threads) + 2 THEN last[1] ELSE kernels[i - 1]
  <2> DEFINE front == first \o kernels
  <2>1. front \in Seq(CommandType) /\ Len(front) = 1 + Len(threads)
    BY <1>5
  <2> HIDE DEF front
  <2>2. /\ front \o last \in Seq(CommandType) /\ Len(front \o last) = Len(front) + Len(last)
        /\ \A i \in 1..(Len(front) + Len(last)) :
             (front \o last)[i] = IF i <= Len(front) THEN front[i] ELSE last[i - Len(front)]
    BY <1>4, <2>1, ConcatProperties
  <2>3. Len(threads) \in Nat
    BY <1>1
  <2>4. \A i \in 1..(1 + Len(threads)) : front[i] = IF i = 1 THEN first[1] ELSE kernels[i - 1]
    BY <1>5 DEF front
  <2>5. t = front \o last
    BY DEF front
  <2>6. Len(last) = 1
    BY <1>4
  <2> QED
    BY <2>1, <2>2, <2>3, <2>4, <2>5, <2>6
<1>7. CPU!Task(threads) = t
  BY DEF CPU!Task, first, kernels, last
<1> HIDE DEF t
<1>8. \A i \in 1..Len(t) :
        /\ t[i].id = <<timeline_value, i - 1>> /\ t[i].value = IF i = 1 THEN timeline_value - 1 ELSE timeline_value
        /\ t[i].op = IF i = 1 THEN "wait" ELSE IF i = Len(t) THEN "signal" ELSE "kernel"
        /\ t[i].op # "kernel" => t[i].threads = 1
  <2> TAKE i \in 1..Len(t)
  <2>1. Len(threads) \in Nat
    BY <1>1
  <2>2. CASE i = 1
    BY <1>3, <1>6, <2>1, <2>2
  <2>3. CASE i = Len(t)
    BY <1>4, <1>6, <2>1, <2>3
  <2>4. CASE i # 1 /\ i # Len(t)
    <3>1. i - 1 \in 1..Len(threads) /\ t[i] = kernels[i - 1]
      BY <1>6, <2>1, <2>4
    <3>2. t[i] = [op |-> "kernel", id |-> <<timeline_value, i - 1>>,
                  threads |-> threads[i - 1], value |-> timeline_value]
      BY <1>2, <3>1
    <3> QED
      BY <2>4, <3>2
  <2> QED
    BY <2>2, <2>3, <2>4
<1> QED
  BY <1>1, <1>6, <1>7, <1>8 DEF IsTask

LEMMA CPUInit == CPU!Init => CPUInv
<1> SUFFICES ASSUME CPU!Init PROVE CPUInv
  OBVIOUS
<1> USE DEF CPU!Init
<1>1. CPUTypes
  BY DEF CPUTypes
<1>2. Len(tasks) = 0 /\ commands = <<>> /\ worker = "get"
  OBVIOUS
<1>3. \A th \in CPU!PoolThread : CPU!Range(pool[th]) = {}
  BY DEF CPU!Range
<1> QED
  BY <1>1, <1>2, <1>3 DEF CPUInv, TaskInv, WorkerInv, ShareInv

\* What the invariant speaks of.
cpu_state == <<tasks, commands, worker, pool, busy, signal, timeline_value>>

LEMMA CPUSame == CPUInv /\ UNCHANGED cpu_state => CPUInv'
  BY DEF cpu_state, CPUInv, CPUTypes, TaskInv, WorkerInv, ShareInv, Share, CPU!Others, Done, Waited, Signalled, CPU!Range, CPU!PoolThread

LEMMA SubmitKeeps ==
  ASSUME CPUInv, MCAssumption, NEW threads \in CPU!BoundedSeq(Threads, 2) \ {<<>>}, CPU!Submit(threads)
  PROVE  CPUInv'
<1> DEFINE t == CPU!Task(threads)
<1>1. IsTask(t, timeline_value) /\ t \in Seq(CommandType) /\ Number(t) = timeline_value
  <2>1. IsTask(t, timeline_value)
    BY TaskShape DEF CPUInv, CPUTypes
  <2> HIDE DEF t
  <2>2. t[1].id = <<timeline_value, 0>>
    BY <2>1 DEF IsTask
  <2> QED
    BY <2>1, <2>2 DEF IsTask, Number
<1>2. tasks' = Append(tasks, t) /\ timeline_value' = timeline_value + 1
  BY DEF CPU!Submit
<1>3. UNCHANGED <<commands, worker, pool, busy, signal>>
  BY DEF CPU!Submit, CPU!pool_vars
<1> HIDE DEF t
<1>4. /\ tasks' \in Seq(Seq(CommandType)) /\ Len(tasks') = Len(tasks) + 1 /\ Len(tasks) \in Nat
      /\ \A i \in 1..Len(tasks) : tasks'[i] = tasks[i]
      /\ tasks'[Len(tasks) + 1] = t
      /\ \A i \in 1..Len(tasks') : i \in 1..Len(tasks) \/ i = Len(tasks) + 1
  BY <1>1, <1>2 DEF CPUInv, CPUTypes
<1>5. signal < timeline_value /\ timeline_value \in Nat \ {0} /\ signal \in Nat
  BY DEF CPUInv, CPUTypes, TaskInv
<1>6. \A i \in 1..Len(tasks) : Number(tasks[i]) \in Nat /\ Number(tasks[i]) < timeline_value
  BY DEF CPUInv, TaskInv, IsTask
<1>7. CPUTypes'
  <2>1. CPU!PoolThread' = CPU!PoolThread
    BY DEF CPU!PoolThread
  <2> QED
    BY <1>2, <1>3, <1>4, <1>5, <2>1 DEF CPUInv, CPUTypes
<1>8. TaskInv'
  <2>1. ASSUME NEW i \in 1..Len(tasks')
        PROVE  IsTask(tasks'[i], Number(tasks'[i])) /\ Number(tasks'[i]) < timeline_value'
    <3>1. CASE i \in 1..Len(tasks)
      <4>1. tasks'[i] = tasks[i] /\ IsTask(tasks[i], Number(tasks[i]))
        BY <1>4, <3>1 DEF CPUInv, TaskInv
      <4>2. Number(tasks[i]) < timeline_value + 1
        BY <1>5, <1>6, <3>1
      <4> QED
        BY <1>2, <4>1, <4>2
    <3>2. CASE i = Len(tasks) + 1
      BY <1>1, <1>2, <1>4, <1>5, <3>2
    <3> QED
      BY <1>4, <3>1, <3>2
  <2>2. ASSUME NEW i \in 1..Len(tasks'), NEW j \in 1..Len(tasks'), i < j
        PROVE  Number(tasks'[i]) < Number(tasks'[j])
    <3>1. i \in 1..Len(tasks)
      BY <1>4, <2>2
    <3>2. CASE j \in 1..Len(tasks)
      BY <1>4, <2>2, <3>1, <3>2 DEF CPUInv, TaskInv
    <3>3. CASE j = Len(tasks) + 1
      BY <1>1, <1>4, <1>6, <3>1, <3>3
    <3> QED
      BY <1>4, <3>2, <3>3
  <2>3. signal' < timeline_value'
    BY <1>2, <1>3, <1>5
  <2> QED
    BY <2>1, <2>2, <2>3 DEF TaskInv, IsTask, Number
<1>9. WorkerInv'
  <2>1. ASSUME worker = "get" PROVE WorkerInv'
    <3>1. ASSUME NEW i \in 1..Len(tasks') PROVE signal < Number(tasks'[i])
      <4>1. CASE i \in 1..Len(tasks)
        BY <1>4, <2>1, <4>1 DEF CPUInv, WorkerInv
      <4>2. CASE i = Len(tasks) + 1
        BY <1>1, <1>4, <1>5, <4>2
      <4> QED
        BY <1>4, <4>1, <4>2
    <3> QED
      BY <1>3, <2>1, <3>1 DEF CPUInv, WorkerInv, Number
  <2>2. ASSUME worker # "get" PROVE WorkerInv'
    <3>1. tasks'[1] = tasks[1] /\ tasks' # <<>>
      BY <2>2, <1>4 DEF CPUInv, WorkerInv, CPUTypes
    <3> QED
      BY <2>2, <3>1, <1>3 DEF CPUInv, WorkerInv, Done, Waited, Signalled
  <2> QED
    BY <2>1, <2>2
<1>10. ShareInv'
  <2> SUFFICES ASSUME NEW th \in CPU!PoolThread, NEW id \in CPU!Range(pool[th]), Share(th, id)
               PROVE  Share(th, id)'
    BY <1>3 DEF CPUInv, ShareInv, CPU!PoolThread
  <2>1. worker # "get" => tasks'[1] = tasks[1]
    BY <1>4 DEF CPUInv, WorkerInv, CPUTypes
  <2>2. ASSUME NEW i \in 1..Len(tasks'), i > 1 \/ worker = "get"
        PROVE  id[1] < Number(tasks'[i])
    <3>1. CASE i \in 1..Len(tasks)
      BY <1>4, <2>2, <3>1 DEF Share, KernelId
    <3>2. CASE i = Len(tasks) + 1
      BY <1>1, <1>4, <3>2 DEF Share, KernelId
    <3> QED
      BY <1>4, <3>1, <3>2
  <2>3. id[1] < timeline_value' /\ id \in KernelId
    BY <1>2, <1>5 DEF Share, KernelId
  <2> QED
    BY <1>3, <2>1, <2>2, <2>3 DEF Share, KernelId, Number, CPU!Others
<1> QED
  BY <1>7, <1>8, <1>9, <1>10 DEF CPUInv

LEMMA TakeKeeps ==
  ASSUME CPUInv, CPU!Take
  PROVE  CPUInv'
<1>1. /\ worker = "get" /\ tasks # <<>> /\ commands' = tasks[1] /\ worker' = "next"
      /\ UNCHANGED <<tasks, pool, busy, signal, timeline_value>>
  BY DEF CPU!Take, CPU!pool_vars, CPU!host_vars, CPUInv, CPUTypes
<1>2. /\ tasks[1] \in Seq(CommandType) /\ Len(tasks[1]) >= 2 /\ Len(tasks[1]) \in Nat /\ 1 \in 1..Len(tasks)
      /\ signal < Number(tasks[1]) /\ Number(tasks[1]) \in Nat /\ signal \in Nat
  BY <1>1 DEF CPUInv, CPUTypes, TaskInv, WorkerInv, IsTask
<1>3. Done' = 0 /\ ~Waited' /\ ~Signalled'
  BY <1>1, <1>2 DEF Done, Waited, Signalled
<1>4. CPUTypes' /\ TaskInv'
  BY <1>1, <1>2 DEF CPUInv, CPUTypes, TaskInv, CPU!PoolThread
<1>5. WorkerInv'
  BY <1>1, <1>2, <1>3 DEF CPUInv, WorkerInv
<1>6. ShareInv'
  <2> SUFFICES ASSUME NEW th \in CPU!PoolThread, NEW id \in CPU!Range(pool[th]), Share(th, id)
               PROVE  Share(th, id)'
    BY <1>1 DEF CPUInv, ShareInv, CPU!PoolThread
  <2> QED
    BY <1>1, <1>2 DEF Share, KernelId, CPU!Others
<1> QED
  BY <1>4, <1>5, <1>6 DEF CPUInv

\* Where the worker is in its task.
LEMMA Current ==
  ASSUME CPUInv, worker # "get"
  PROVE  /\ IsTask(tasks[1], Number(tasks[1])) /\ Len(tasks) \in Nat /\ 1 \in 1..Len(tasks)
         /\ Number(tasks[1]) \in Nat \ {0} /\ Number(tasks[1]) < timeline_value
         /\ Len(tasks[1]) \in Nat /\ Len(tasks[1]) >= 2
         /\ Len(commands) \in Nat /\ Done = Len(tasks[1]) - Len(commands) /\ Done >= 0
         /\ \A i \in 1..Len(commands) :
              /\ commands[i].id = <<Number(tasks[1]), Done + i - 1>>
              /\ commands[i].value = IF Done + i = 1 THEN Number(tasks[1]) - 1 ELSE Number(tasks[1])
              /\ commands[i].op = IF Done + i = 1 THEN "wait" ELSE IF i = Len(commands) THEN "signal" ELSE "kernel"
              /\ commands[i].op # "kernel" => commands[i].threads = 1
<1>1. IsTask(tasks[1], Number(tasks[1])) /\ Len(tasks) \in Nat /\ 1 \in 1..Len(tasks)
  BY DEF CPUInv, CPUTypes, WorkerInv, TaskInv
<1>2. /\ Len(tasks[1]) \in Nat /\ Len(tasks[1]) >= 2 /\ Number(tasks[1]) \in Nat \ {0}
      /\ Number(tasks[1]) < timeline_value
  BY <1>1 DEF IsTask, CPUInv, TaskInv
<1>3. Len(commands) \in Nat /\ Done = Len(tasks[1]) - Len(commands) /\ Done >= 0
  BY DEF CPUInv, CPUTypes, WorkerInv, Done
<1>4. ASSUME NEW i \in 1..Len(commands)
      PROVE  /\ commands[i].id = <<Number(tasks[1]), Done + i - 1>>
             /\ commands[i].value = IF Done + i = 1 THEN Number(tasks[1]) - 1 ELSE Number(tasks[1])
             /\ commands[i].op = IF Done + i = 1 THEN "wait" ELSE IF i = Len(commands) THEN "signal" ELSE "kernel"
             /\ commands[i].op # "kernel" => commands[i].threads = 1
  <2> DEFINE k == Done + i
  <2>1. k \in 1..Len(tasks[1]) /\ (k = Len(tasks[1]) <=> i = Len(commands)) /\ k - 1 = Done + i - 1
    BY <1>2, <1>3
  <2>2. commands[i] = tasks[1][k]
    BY DEF CPUInv, WorkerInv
  <2> HIDE DEF k
  <2>3. /\ tasks[1][k].id = <<Number(tasks[1]), k - 1>>
        /\ tasks[1][k].value = IF k = 1 THEN Number(tasks[1]) - 1 ELSE Number(tasks[1])
        /\ tasks[1][k].op = IF k = 1 THEN "wait" ELSE IF k = Len(tasks[1]) THEN "signal" ELSE "kernel"
        /\ tasks[1][k].op # "kernel" => tasks[1][k].threads = 1
    BY <1>1, <2>1 DEF IsTask
  <2> QED
    BY <2>1, <2>2, <2>3 DEF k
<1> QED
  BY <1>1, <1>2, <1>3, <1>4

\* Its next command.
LEMMA HeadCommand ==
  ASSUME CPUInv, worker # "get", commands # <<>>
  PROVE  /\ 1 \in 1..Len(commands) /\ Len(commands) \in Nat /\ Done \in Nat
         /\ commands[1].id = <<Number(tasks[1]), Done>> /\ commands[1].id \in KernelId
         /\ \/ Done = 0 /\ Len(commands) > 1 /\ commands[1].op = "wait" /\ commands[1].value = Number(tasks[1]) - 1
            \/ Done > 0 /\ Len(commands) = 1 /\ commands[1].op = "signal" /\ commands[1].value = Number(tasks[1])
            \/ Done > 0 /\ Len(commands) > 1 /\ commands[1].op = "kernel" /\ commands[1].value = Number(tasks[1])
         /\ commands[1].op # "kernel" => commands[1].threads = 1
<1> DEFINE c == commands[1]
           n == Number(tasks[1])
           len == Len(commands)
           of == Len(tasks[1])
<1>1. 1 \in 1..len /\ len \in Nat
  BY DEF CPUInv, CPUTypes
<1>2. /\ of \in Nat /\ of >= 2 /\ Done = of - len /\ Done >= 0
      /\ c.id = <<n, Done + 1 - 1>>
      /\ c.value = IF Done + 1 = 1 THEN n - 1 ELSE n
      /\ c.op = IF Done + 1 = 1 THEN "wait" ELSE IF 1 = len THEN "signal" ELSE "kernel"
      /\ c.op # "kernel" => c.threads = 1
  BY <1>1, Current
<1>3. c.id \in KernelId
  <2>1. c \in CommandType
    BY <1>1, ElementOfSeq DEF CPUInv, CPUTypes
  <2> HIDE DEF c
  <2> QED
    BY <2>1 DEF CommandType
<1> DEFINE done == Done
<1> HIDE DEF c, n, len, of, done
<1>4. /\ of \in Nat /\ of >= 2 /\ done = of - len /\ done >= 0
      /\ c.id = <<n, done + 1 - 1>>
      /\ c.value = IF done + 1 = 1 THEN n - 1 ELSE n
      /\ c.op = IF done + 1 = 1 THEN "wait" ELSE IF 1 = len THEN "signal" ELSE "kernel"
  BY <1>2 DEF done
<1>5. done \in Nat /\ (done = 0 => len > 1) /\ done + 1 - 1 = done
  BY <1>1, <1>4
<1>6. c.id = <<n, done>>
  BY <1>4, <1>5
<1>7. CASE done = 0
  BY <1>1, <1>2, <1>3, <1>4, <1>5, <1>6, <1>7 DEF c, n, len, done
<1>8. CASE done > 0 /\ len = 1
  <2>1. c.value = n /\ c.op = "signal"
    BY <1>4, <1>5, <1>8
  <2> QED
    BY <1>1, <1>2, <1>3, <1>5, <1>6, <1>8, <2>1 DEF c, n, len, done
<1>9. CASE done > 0 /\ len > 1
  <2>1. c.value = n /\ c.op = "kernel"
    BY <1>1, <1>4, <1>5, <1>9
  <2> QED
    BY <1>1, <1>2, <1>3, <1>5, <1>6, <1>9, <2>1 DEF c, n, len, done
<1> QED
  BY <1>1, <1>5, <1>7, <1>8, <1>9

LEMMA PushKeeps ==
  ASSUME CPUInv, CPU!Push
  PROVE  CPUInv'
<1> DEFINE c == commands[1]
           n == Number(tasks[1])
<1>1. /\ worker = "next" /\ commands # <<>> /\ worker' = "run"
      /\ UNCHANGED <<tasks, commands, busy, signal, timeline_value>>
      /\ pool' = [th \in CPU!PoolThread |-> IF th \in CPU!Others(c) THEN Append(pool[th], c.id) ELSE pool[th]]
  BY DEF CPU!Push, CPU!host_vars, CPUInv, CPUTypes
<1>2. /\ n \in Nat /\ n < timeline_value
      /\ c.id \in KernelId /\ c.id[1] = n
      /\ c.op # "kernel" => c.threads = 1
  BY <1>1, Current, HeadCommand
<1>3. signal < n /\ signal \in Nat
  BY <1>1, <1>2 DEF CPUInv, CPUTypes, WorkerInv, Signalled
<1>4. CPUTypes'
  <2>1. DOMAIN pool' = CPU!PoolThread
    BY <1>1
  <2>2. ASSUME NEW th \in CPU!PoolThread PROVE pool'[th] \in Seq(KernelId) /\ (pool[th] # <<>> => pool'[th] # <<>>)
    <3>1. pool[th] \in Seq(KernelId)
      BY DEF CPUInv, CPUTypes
    <3>2. Append(pool[th], c.id) \in Seq(KernelId) /\ Append(pool[th], c.id) # <<>>
      BY <1>2, <3>1
    <3> QED
      BY <1>1, <1>2, <3>1, <3>2
  <2> QED
    BY <1>1, <2>1, <2>2 DEF CPUInv, CPUTypes, CPU!PoolThread
<1>5. TaskInv' /\ WorkerInv'
  BY <1>1 DEF CPUInv, TaskInv, WorkerInv, Done, Waited, Signalled
<1>6. ShareInv'
  <2> SUFFICES ASSUME NEW th \in CPU!PoolThread, NEW id \in CPU!Range(pool'[th])
               PROVE  Share(th, id)'
    BY DEF ShareInv, CPU!PoolThread, CPU!Range
  <2>1. CASE id \in CPU!Range(pool[th])
    <3>1. Share(th, id)
      BY <2>1 DEF CPUInv, ShareInv
    <3> QED
      BY <1>1, <1>2, <3>1 DEF Share, KernelId
  <2>2. CASE id \notin CPU!Range(pool[th])
    <3>1. th \in CPU!Others(c) /\ id = c.id
      <4>1. pool[th] \in Seq(KernelId)
        BY DEF CPUInv, CPUTypes
      <4>2. c.id \in KernelId
        BY <1>2
      <4> HIDE DEF c
      <4>3. CPU!Range(Append(pool[th], c.id)) = CPU!Range(pool[th]) \cup {c.id}
        BY <4>1, <4>2, RangeOfAppend
      <4> QED
        BY <1>1, <2>2, <4>3
    <3>2. c.op = "kernel"
      BY <1>2, <3>1 DEF CPU!Others
    <3>3. \A i \in 1..Len(tasks) : i > 1 => n < Number(tasks[i])
      BY <1>1, Current DEF CPUInv, TaskInv
    <3> QED
      BY <1>1, <1>2, <1>3, <3>1, <3>2, <3>3 DEF Share, KernelId, CPU!Others
  <2> QED
    BY <2>1, <2>2
<1> QED
  BY <1>4, <1>5, <1>6 DEF CPUInv

LEMMA RunKeeps ==
  ASSUME CPUInv, CPU!Run
  PROVE  CPUInv'
<1> DEFINE c == commands[1]
           n == Number(tasks[1])
           len == Len(commands)
<1>1. /\ worker = "run" /\ worker' = "join" /\ commands # <<>>
      /\ c.op = "wait" => signal >= c.value
      /\ signal' = IF c.op = "signal" THEN c.value ELSE signal
      /\ UNCHANGED <<tasks, commands, pool, busy, timeline_value>>
  BY DEF CPU!Run, CPU!pool_vars, CPU!host_vars, CPUInv, CPUTypes, WorkerInv
<1>2. n \in Nat \ {0} /\ n < timeline_value /\ timeline_value \in Nat
  BY <1>1, Current DEF CPUInv, CPUTypes
<1>3. signal < n /\ signal \in Nat /\ (Done > 0 => signal >= n - 1)
  BY <1>1 DEF CPUInv, CPUTypes, WorkerInv, Signalled, Waited
<1>4. /\ len \in Nat
      /\ \/ len > 1 /\ c.op = "wait" /\ c.value = n - 1
         \/ Done > 0 /\ len = 1 /\ c.op = "signal" /\ c.value = n
         \/ Done > 0 /\ len > 1 /\ c.op = "kernel" /\ c.value = n
  BY <1>1, HeadCommand
<1> HIDE DEF c, n, len
<1>5. /\ signal' \in Nat /\ signal' >= n - 1 /\ signal' < timeline_value
      /\ IF len = 1 THEN signal' = n ELSE signal' < n
  <2>1. CASE len > 1 /\ c.op = "wait" /\ c.value = n - 1
    <3>1. signal' = signal /\ signal >= n - 1 /\ timeline_value' = timeline_value
      BY <1>1, <1>3, <2>1
    <3>2. len # 1
      BY <1>4, <2>1
    <3> QED
      BY <1>2, <1>3, <3>1, <3>2
  <2>2. CASE Done > 0 /\ len = 1 /\ c.op = "signal" /\ c.value = n
    BY <1>1, <1>2, <1>3, <2>2
  <2>3. CASE Done > 0 /\ len > 1 /\ c.op = "kernel" /\ c.value = n
    <3>1. signal' = signal /\ signal >= n - 1 /\ timeline_value' = timeline_value
      BY <1>1, <1>3, <2>3
    <3>2. len # 1
      BY <1>4, <2>3
    <3> QED
      BY <1>2, <1>3, <3>1, <3>2
  <2> QED
    BY <1>4, <2>1, <2>2, <2>3
<1>6. CPUTypes' /\ TaskInv'
  BY <1>1, <1>5 DEF CPUInv, CPUTypes, TaskInv, CPU!PoolThread
<1>7. WorkerInv'
  BY <1>1, <1>5 DEF n, len, CPUInv, WorkerInv, Done, Waited, Signalled
<1>8. ShareInv'
  <2> SUFFICES ASSUME NEW th \in CPU!PoolThread, NEW id \in CPU!Range(pool[th]), Share(th, id)
               PROVE  Share(th, id)'
    BY <1>1 DEF CPUInv, ShareInv, CPU!PoolThread, CPU!Range
  <2>1. c.op # "signal"
    <3> SUFFICES ASSUME c.op = "signal" PROVE FALSE
      OBVIOUS
    <3>1. id[1] \in Nat /\ id[1] <= n /\ id[1] # n /\ signal < id[1]
      BY <1>1 DEF Share, KernelId, c, n
    <3> QED
      BY <1>2, <1>3, <1>4, <3>1
  <2> QED
    BY <1>1, <2>1 DEF Share, KernelId, CPU!Others
<1> QED
  BY <1>6, <1>7, <1>8 DEF CPUInv

LEMMA JoinKeeps ==
  ASSUME CPUInv, CPU!Join
  PROVE  CPUInv'
<1> DEFINE n == Number(tasks[1])
<1>1. /\ worker = "join" /\ worker' = "next" /\ commands # <<>> /\ commands' = Tail(commands)
      /\ \A th \in CPU!Others(commands[1]) : pool[th] = <<>>
      /\ UNCHANGED <<tasks, pool, busy, signal, timeline_value>>
  BY DEF CPU!Join, CPU!Joined, CPU!pool_vars, CPU!host_vars, CPUInv, CPUTypes, WorkerInv
<1>2. /\ commands \in Seq(CommandType) /\ commands' \in Seq(CommandType)
      /\ Len(commands) \in Nat /\ Len(commands') = Len(commands) - 1
      /\ \A i \in 1..Len(commands') : i + 1 \in 1..Len(commands) /\ commands'[i] = commands[i + 1]
  BY <1>1, HeadTailProperties DEF CPUInv, CPUTypes
<1>3. Done \in Nat /\ Done' = Done + 1
  <2>1. Len(tasks[1]) \in Nat /\ Done \in Nat
    BY <1>1, Current, HeadCommand
  <2>2. Done' = Len(tasks[1]) - (Len(commands) - 1)
    BY <1>1, <1>2 DEF Done
  <2> QED
    BY <1>2, <2>1, <2>2 DEF Done
<1>4. CPUTypes' /\ TaskInv'
  BY <1>1, <1>2 DEF CPUInv, CPUTypes, TaskInv, CPU!PoolThread
<1>5. WorkerInv'
  <2>1. ASSUME NEW i \in 1..Len(commands') PROVE commands'[i] = tasks[1][Done' + i]
    <3>1. Done' + i = Done + (i + 1)
      BY <1>2, <1>3
    <3>2. commands[i + 1] = tasks[1][Done + (i + 1)]
      BY <1>1, <1>2 DEF CPUInv, WorkerInv
    <3> QED
      BY <1>2, <3>1, <3>2
  <2>2. Signalled' <=> Signalled
    <3>1. commands' = <<>> <=> Len(commands') = 0
      BY <1>2, EmptySeq
    <3> QED
      BY <1>1, <1>2, <3>1 DEF Signalled
  <2>3. signal >= n - 1 /\ tasks # <<>> /\ IF Signalled THEN signal = n ELSE signal < n
    BY <1>1 DEF CPUInv, WorkerInv, Waited
  <2> HIDE DEF n
  <2>4. Done' >= 0
    BY <1>3
  <2> QED
    BY <1>1, <2>1, <2>2, <2>3, <2>4 DEF n, WorkerInv
<1>6. ShareInv'
  <2> SUFFICES ASSUME NEW th \in CPU!PoolThread, NEW id \in CPU!Range(pool[th]), Share(th, id)
               PROVE  Share(th, id)'
    BY <1>1 DEF CPUInv, ShareInv, CPU!PoolThread, CPU!Range
  <2>1. id[1] # n
    <3> SUFFICES ASSUME id[1] = n PROVE FALSE
      OBVIOUS
    <3>1. pool[th] = <<>>
      BY <1>1 DEF Share
    <3> QED
      BY <3>1 DEF CPU!Range
  <2> QED
    BY <1>1, <2>1 DEF Share, KernelId
<1> QED
  BY <1>4, <1>5, <1>6 DEF CPUInv

\* The worker is through with its task, or drops the rest of it.
LEMMA LeaveKeeps ==
  ASSUME CPUInv, CPU!TaskDone \/ CPU!Raise
  PROVE  CPUInv'
<1> DEFINE n == Number(tasks[1])
<1>1. /\ worker # "get" /\ worker' = "get" /\ tasks' = Tail(tasks) /\ tasks # <<>> /\ commands' = <<>>
      /\ UNCHANGED <<pool, busy, signal, timeline_value>>
  BY DEF CPU!TaskDone, CPU!Raise, CPU!Raised, CPU!pool_vars, CPU!host_vars, CPUInv, WorkerInv
<1>2. /\ tasks' \in Seq(Seq(CommandType)) /\ Len(tasks) \in Nat /\ Len(tasks') = Len(tasks) - 1
      /\ \A i \in 1..Len(tasks') : i + 1 \in 1..Len(tasks) /\ i + 1 > 1 /\ tasks'[i] = tasks[i + 1]
  BY <1>1, HeadTailProperties DEF CPUInv, CPUTypes
<1>3. signal <= n /\ n \in Nat /\ 1 \in 1..Len(tasks) /\ signal \in Nat
  <2>1. n \in Nat /\ 1 \in 1..Len(tasks) /\ signal \in Nat
    BY <1>1, Current DEF CPUInv, CPUTypes
  <2>2. signal = n \/ signal < n
    BY <1>1 DEF CPUInv, WorkerInv
  <2> QED
    BY <2>1, <2>2
<1>4. CPUTypes'
  <2>1. commands' \in Seq(CommandType)
    BY <1>1
  <2> QED
    BY <1>1, <1>2, <2>1 DEF CPUInv, CPUTypes, CPU!PoolThread
<1>5. TaskInv'
  <2>1. ASSUME NEW i \in 1..Len(tasks')
        PROVE  IsTask(tasks'[i], Number(tasks'[i])) /\ Number(tasks'[i]) < timeline_value
    BY <1>2 DEF CPUInv, TaskInv
  <2>2. ASSUME NEW i \in 1..Len(tasks'), NEW j \in 1..Len(tasks'), i < j
        PROVE  Number(tasks'[i]) < Number(tasks'[j])
    <3>1. i + 1 \in 1..Len(tasks) /\ j + 1 \in 1..Len(tasks) /\ i + 1 < j + 1
      BY <1>2, <2>2
    <3> QED
      BY <1>2, <3>1 DEF CPUInv, TaskInv
  <2>3. signal' < timeline_value'
    BY <1>1 DEF CPUInv, TaskInv
  <2> QED
    BY <1>1, <2>1, <2>2, <2>3 DEF TaskInv, IsTask, Number
<1>6. WorkerInv'
  <2>1. ASSUME NEW i \in 1..Len(tasks') PROVE signal < Number(tasks'[i])
    <3>1. n < Number(tasks[i + 1]) /\ Number(tasks[i + 1]) \in Nat
      BY <1>2, <1>3 DEF CPUInv, TaskInv, IsTask
    <3>2. tasks'[i] = tasks[i + 1]
      BY <1>2
    <3> HIDE DEF n
    <3> QED
      BY <1>3, <3>1, <3>2
  <2> QED
    BY <1>1, <2>1 DEF WorkerInv, Number
<1>7. ShareInv'
  <2> SUFFICES ASSUME NEW th \in CPU!PoolThread, NEW id \in CPU!Range(pool[th]), Share(th, id)
               PROVE  Share(th, id)'
    BY <1>1 DEF CPUInv, ShareInv, CPU!PoolThread, CPU!Range
  <2>1. \A i \in 1..Len(tasks') : id[1] < Number(tasks'[i])
    BY <1>2 DEF Share
  <2> QED
    BY <1>1, <2>1 DEF Share, Number
<1> QED
  BY <1>4, <1>5, <1>6, <1>7 DEF CPUInv

LEMMA PoolKeeps ==
  ASSUME CPUInv, NEW th \in CPU!PoolThread, CPU!PoolRuns(th)
  PROVE  CPUInv'
<1>1. UNCHANGED <<tasks, commands, worker, signal, timeline_value>>
  BY DEF CPU!PoolRuns, CPU!PoolTake, CPU!PoolDone, CPU!worker_vars, CPU!host_vars
<1>2. TaskInv' /\ WorkerInv'
  BY <1>1 DEF CPUInv, TaskInv, WorkerInv, Done, Waited, Signalled
<1>3. CPU!PoolThread' = CPU!PoolThread
  BY DEF CPU!PoolThread
<1>4. ASSUME NEW p \in CPU!PoolThread, NEW id \in CPU!Range(pool[p]) PROVE Share(p, id)'
  BY <1>1 DEF CPUInv, ShareInv, Share, CPU!Others
<1>5. CASE CPU!PoolTake(th)
  <2>1. pool' = pool /\ busy' = busy \cup {th} /\ pool[th] # <<>>
    BY <1>5 DEF CPU!PoolTake
  <2>2. CPUTypes'
    BY <1>1, <1>3, <2>1 DEF CPUInv, CPUTypes
  <2>3. ShareInv'
    BY <1>3, <1>4, <2>1 DEF ShareInv
  <2> QED
    BY <1>2, <2>2, <2>3 DEF CPUInv
<1>6. CASE CPU!PoolDone(th)
  <2>1. /\ pool' = [pool EXCEPT ![th] = Tail(pool[th])] /\ busy' = busy \ {th}
        /\ pool[th] # <<>> /\ pool[th] \in Seq(KernelId) /\ DOMAIN pool = CPU!PoolThread
    BY <1>6 DEF CPU!PoolDone, CPUInv, CPUTypes
  <2>2. Tail(pool[th]) \in Seq(KernelId) /\ CPU!Range(Tail(pool[th])) \subseteq CPU!Range(pool[th])
    BY <2>1, RangeOfTail, HeadTailProperties
  <2>3. CPUTypes'
    BY <1>1, <1>3, <2>1, <2>2 DEF CPUInv, CPUTypes
  <2>4. ASSUME NEW p \in CPU!PoolThread PROVE CPU!Range(pool'[p]) \subseteq CPU!Range(pool[p])
    BY <2>1, <2>2
  <2>5. ShareInv'
    <3>1. \A p \in CPU!PoolThread : \A id \in CPU!Range(pool'[p]) : Share(p, id)'
      BY <1>4, <2>4
    <3> QED
      BY <1>3, <3>1 DEF ShareInv, CPU!Range
  <2> QED
    BY <1>2, <2>3, <2>5 DEF CPUInv
<1> QED
  BY <1>5, <1>6 DEF CPU!PoolRuns

LEMMA CPUSpec == MCSpec => CPU!Init /\ [][CPU!Next]_cpu_vars
<1>1. MCInit => CPU!Init
  BY DEF MCInit
<1>2. [MCNext]_all_vars => [CPU!Next]_cpu_vars
  BY DEF MCNext, all_vars, cpu_vars
<1> QED
  BY <1>1, <1>2, PTL DEF MCSpec

LEMMA CPUInvariant == MCSpec => []CPUInv
<1>1. CPUInv /\ [CPU!Next]_cpu_vars => CPUInv'
  <2>1. ASSUME CPUInv, UNCHANGED cpu_vars PROVE CPUInv'
    BY <2>1, CPUSame DEF cpu_vars, cpu_state
  <2>2. ASSUME CPUInv, CPU!Synchronize \/ CPU!Host PROVE CPUInv'
    BY <2>2, CPUSame DEF CPU!Synchronize, CPU!Host, CPU!Wait, CPU!Sleep, CPU!GoOn, cpu_state,
                         CPU!worker_vars, CPU!pool_vars
  <2>3. ASSUME CPUInv, CPU!Worker PROVE CPUInv'
    BY <2>3, TakeKeeps, PushKeeps, RunKeeps, JoinKeeps, LeaveKeeps DEF CPU!Worker
  <2>4. ASSUME CPUInv, CPU!Next PROVE CPUInv'
    BY <2>2, <2>3, <2>4, SubmitKeeps, PoolKeeps, MCAssumption DEF CPU!Next
  <2> QED
    BY <2>1, <2>4
<1> QED
  BY <1>1, CPUInit, CPUSpec, PTL

\* KernelsInOrder: no share of a kernel runs beside another kernel or after the signal of
\* its task, for any numbers of threads and tasks, also when kernels raise.
THEOREM KernelsStayInOrder == MCSpec => []KernelsInOrder
<1>1. CPUInv => KernelsInOrder
  <2> SUFFICES ASSUME CPUInv PROVE KernelsInOrder
    OBVIOUS
  <2>1. ASSUME NEW c \in CPU!Left
        PROVE  \/ /\ worker # "get" /\ \E i \in 1..Len(commands) : c = commands[i]
               \/ \E i \in 1..Len(tasks) : \E j \in 1..Len(tasks[i]) :
                    c = tasks[i][j] /\ (worker = "get" \/ i > 1)
    <3>1. CASE c \in CPU!Range(commands)
      <4>1. \E i \in 1..Len(commands) : c = commands[i]
        BY <3>1, RangeOut DEF CPUInv, CPUTypes
      <4>2. worker # "get"
        BY <4>1 DEF CPUInv, WorkerInv
      <4> QED
        BY <4>1, <4>2
    <3>2. CASE worker = "get" /\ c \notin CPU!Range(commands)
      <4>1. PICK t \in CPU!Range(tasks) : c \in CPU!Range(t)
        BY <3>2 DEF CPU!Left
      <4>2. PICK i \in 1..Len(tasks) : t = tasks[i]
        BY <4>1, RangeOut DEF CPUInv, CPUTypes
      <4>3. t \in Seq(CommandType)
        BY <4>1, RangeOut DEF CPUInv, CPUTypes
      <4>4. PICK j \in 1..Len(t) : c = t[j]
        BY <4>1, <4>3, RangeOut
      <4> QED
        BY <3>2, <4>2, <4>4
    <3>3. CASE worker # "get" /\ c \notin CPU!Range(commands)
      <4>1. PICK t \in CPU!Range(Tail(tasks)) : c \in CPU!Range(t)
        BY <3>3 DEF CPU!Left
      <4>2. /\ Tail(tasks) \in Seq(Seq(CommandType)) /\ Len(tasks) \in Nat /\ Len(Tail(tasks)) = Len(tasks) - 1
            /\ \A i \in 1..Len(Tail(tasks)) : Tail(tasks)[i] = tasks[i + 1]
        BY <3>3, HeadTailProperties DEF CPUInv, CPUTypes, WorkerInv
      <4>a. PICK rest : rest = Tail(tasks)
        OBVIOUS
      <4>b. rest \in Seq(Seq(CommandType)) /\ t \in CPU!Range(rest)
        BY <4>1, <4>2, <4>a
      <4>c. \E i \in 1..Len(rest) : t = rest[i]
        BY <4>b, RangeOut
      <4>3. PICK i \in 1..Len(Tail(tasks)) : t = Tail(tasks)[i]
        BY <4>a, <4>c
      <4>4. t \in Seq(CommandType)
        BY <4>1, <4>2, RangeOut
      <4>5. PICK j \in 1..Len(t) : c = t[j]
        BY <4>1, <4>4, RangeOut
      <4>6. i + 1 \in 1..Len(tasks) /\ i + 1 > 1 /\ t = tasks[i + 1]
        BY <4>2, <4>3
      <4> QED
        BY <4>5, <4>6
    <3> QED
      BY <3>1, <3>2, <3>3
  <2>2. ASSUME NEW c \in CPU!Left, c.op = "kernel"
        PROVE  /\ c.value > signal
               /\ \A th \in CPU!PoolThread : \A id \in CPU!Range(pool[th]) :
                    c.id[1] > id[1] \/ (c.id[1] = id[1] /\ c.id[2] >= id[2])
    <3>1. ASSUME worker # "get", NEW i \in 1..Len(commands), c = commands[i]
          PROVE  /\ c.value > signal
                 /\ \A th \in CPU!PoolThread : \A id \in CPU!Range(pool[th]) :
                      c.id[1] > id[1] \/ (c.id[1] = id[1] /\ c.id[2] >= id[2])
      <4> DEFINE n == Number(tasks[1])
      <4>1. /\ c.id = <<n, Done + i - 1>> /\ c.value = (IF Done + i = 1 THEN n - 1 ELSE n)
            /\ c.op = (IF Done + i = 1 THEN "wait" ELSE IF i = Len(commands) THEN "signal" ELSE "kernel")
            /\ n \in Nat
        BY <3>1, Current
      <4>2. Done + i # 1 /\ i # Len(commands)
        BY <2>2, <4>1
      <4>3. signal < n
        <5>1. ~Signalled
          <6> DEFINE len == Len(commands)
          <6>1. len \in Nat
            BY DEF CPUInv, CPUTypes
          <6>2. i \in 1..len /\ i # len
            BY <3>1, <4>2
          <6> HIDE DEF len
          <6>3. len # 1 /\ len # 0
            BY <6>1, <6>2
          <6>4. commands # <<>>
            BY <6>3 DEF len
          <6> QED
            BY <3>1, <6>3, <6>4 DEF Signalled, len
        <5> QED
          BY <3>1, <5>1 DEF CPUInv, WorkerInv
      <4>4. commands # <<>> /\ i >= 1 /\ Done \in Nat /\ commands[1].id = <<n, Done>>
        <5>1. commands # <<>> /\ i >= 1
          BY <3>1 DEF CPUInv, CPUTypes
        <5> QED
          BY <3>1, <5>1, HeadCommand
      <4>5. ASSUME NEW th \in CPU!PoolThread, NEW id \in CPU!Range(pool[th])
            PROVE  c.id[1] > id[1] \/ (c.id[1] = id[1] /\ c.id[2] >= id[2])
        <5>1. id[1] \in Nat /\ id[1] <= n /\ (id[1] = n => id = <<n, Done>>)
          BY <3>1, <4>4 DEF CPUInv, ShareInv, Share, KernelId
        <5>2. c.id[1] = n /\ c.id[2] = Done + i - 1
          BY <4>1
        <5> HIDE DEF n
        <5>3. CASE id[1] = n
          BY <4>1, <4>4, <5>1, <5>2, <5>3
        <5>4. CASE id[1] # n
          BY <4>1, <5>1, <5>2, <5>4
        <5> QED
          BY <5>3, <5>4
      <4>6. c.value = n
        BY <4>1, <4>2
      <4> QED
        BY <4>1, <4>3, <4>5, <4>6 DEF CPUInv, CPUTypes
    <3>2. ASSUME NEW i \in 1..Len(tasks), NEW j \in 1..Len(tasks[i]), c = tasks[i][j], worker = "get" \/ i > 1
          PROVE  /\ c.value > signal
                 /\ \A th \in CPU!PoolThread : \A id \in CPU!Range(pool[th]) :
                      c.id[1] > id[1] \/ (c.id[1] = id[1] /\ c.id[2] >= id[2])
      <4> DEFINE n == Number(tasks[i])
      <4>1. IsTask(tasks[i], n)
        BY DEF CPUInv, TaskInv
      <4>2. c.id = <<n, j - 1>> /\ c.value = n /\ n \in Nat
        BY <2>2, <3>2, <4>1 DEF IsTask
      <4>3. signal < n
        <5>1. CASE worker = "get"
          BY <5>1 DEF CPUInv, WorkerInv
        <5>2. CASE worker # "get"
          <6>1. Number(tasks[1]) < n /\ Number(tasks[1]) \in Nat
            BY <3>2, <5>2, Current DEF CPUInv, TaskInv
          <6>2. signal = Number(tasks[1]) \/ signal < Number(tasks[1])
            BY <5>2 DEF CPUInv, WorkerInv
          <6>3. signal \in Nat
            BY DEF CPUInv, CPUTypes
          <6> HIDE DEF n
          <6> QED
            BY <4>2, <6>1, <6>2, <6>3
        <5> QED
          BY <5>1, <5>2
      <4>4. ASSUME NEW th \in CPU!PoolThread, NEW id \in CPU!Range(pool[th]) PROVE id[1] \in Nat /\ id[1] < n
        BY <3>2 DEF CPUInv, ShareInv, Share, KernelId
      <4>5. signal \in Nat /\ c.id[1] = n
        BY <4>2 DEF CPUInv, CPUTypes
      <4> HIDE DEF n
      <4> QED
        BY <4>2, <4>3, <4>4, <4>5
    <3> QED
      BY <2>1, <3>1, <3>2
  <2>3. ASSUME NEW th \in CPU!PoolThread, NEW id \in CPU!Range(pool[th]), commands # <<>>, commands[1].op = "kernel"
        PROVE  commands[1].id = id
    <3> DEFINE n == Number(tasks[1])
    <3>1. worker # "get"
      BY <2>3 DEF CPUInv, WorkerInv
    <3>2. n \in Nat /\ signal \in Nat /\ Done > 0
      BY <2>3, <3>1, Current, HeadCommand DEF CPUInv, CPUTypes
    <3>3. signal >= n - 1
      BY <3>1, <3>2 DEF CPUInv, WorkerInv, Waited
    <3>4. /\ id[1] \in Nat /\ signal < id[1] /\ id[1] <= n
          /\ id[1] = n => id = commands[1].id
      BY <3>1 DEF CPUInv, ShareInv, Share, KernelId
    <3> HIDE DEF n
    <3>5. id[1] = n
      BY <3>2, <3>3, <3>4
    <3> QED
      BY <3>4, <3>5
  <2>4. CPU!OneKernelAtATime
    BY <2>2, <2>3 DEF CPU!OneKernelAtATime, CPUInv, CPUTypes
  <2>5. CPU!SignalIsTrue
    BY <2>2 DEF CPU!SignalIsTrue, CPUInv, ShareInv, Share
  <2> QED
    BY <2>4, <2>5 DEF KernelsInOrder
<1> QED
  BY <1>1, CPUInvariant, PTL

-----------------------------------------------------------------------------
(* Reads from a disk. *)

PieceType == [slot : Slot, src : Nat, dst : Nat, size : Nat, of : Nat]
Request == [user_data : Nat, slot : Slot, len : Int, off : Int]
Completion == [user_data : Nat, res : Int]

DiskTypes ==
  /\ next_read_offset \in Nat /\ copied_in \in Nat /\ minor_offset \in Nat /\ processed_reqs_cnt \in Nat
  /\ reqs \in Seq(PieceType) /\ copies \in Seq(PieceType) /\ cq \in Seq(Completion)
  /\ reading \subseteq Request /\ IsFiniteSet(reading)
  /\ reserved \subseteq Slot /\ b_next \in Slot
  /\ contents \in [Slot -> [0..(SegLen - 1) -> Int]]

\* The bytes a piece is copied from are those of the file that belong where it goes, or a
\* short read has missed them.
Right(p) == \A i \in 0..(p.size - 1) : contents[p.slot][p.src + i] \in {p.of + p.dst + i, Missed}

Under(c) == reqs[c.user_data]
Bytes(p) == p.dst..(p.dst + p.size - 1)
Awaited(i) == (\E r \in reading : r.user_data = i) \/ (\E k \in 1..Len(cq) : cq[k].user_data = i)

\* How far the call has read, and what of it was handed over.
PositionInv ==
  /\ range \in Ranges
  /\ next_read_offset = 0 => copied_in = 0 /\ minor_offset = range.offset % PageSize
  /\ next_read_offset > 0 =>
       /\ minor_offset = 0 /\ copied_in <= range.size
       /\ \/ copied_in = next_read_offset - (range.offset % PageSize)
          \/ copied_in = range.size /\ copied_in <= next_read_offset - (range.offset % PageSize)
  /\ \A i \in 1..Len(reqs) : reqs[i].dst + reqs[i].size <= range.size
  /\ covered \subseteq 0..(range.size - 1)
  /\ \A b \in 0..(copied_in - 1) : b \in covered \/ \E i \in 1..Len(reqs) : Awaited(i) /\ b \in Bytes(reqs[i])

\* A read under way is of a request, into the slot that is reserved for it alone.
ReadingInv ==
  \A r \in reading :
    /\ r.user_data \in 1..Len(reqs) /\ r.slot = Under(r).slot /\ r.slot \in reserved
    /\ r.len <= SegLen /\ Under(r).src + Under(r).size <= r.len
    /\ Under(r).size > 0 =>
         /\ r.off + Under(r).src = Under(r).of + Under(r).dst
         /\ Under(r).of + Under(r).dst + Under(r).size <= FileSize
    /\ \A o \in reading : o.slot = r.slot => o = r

\* A completion is of a request whose slot is still its own and, unless it failed, filled.
CompletedInv ==
  \A k \in 1..Len(cq) :
    /\ cq[k].user_data \in 1..Len(reqs) /\ Under(cq[k]).slot \in reserved
    /\ cq[k].res >= 0 => Right(Under(cq[k]))
    /\ \A l \in 1..Len(cq) : Under(cq[l]).slot = Under(cq[k]).slot => l = k
    /\ \A r \in reading : r.slot # Under(cq[k]).slot

ReservedInv ==
  \A s \in reserved : (\E r \in reading : r.slot = s) \/ (\E k \in 1..Len(cq) : Under(cq[k]).slot = s)

\* A buffer with a copy that has yet to run is not read into.
CopiesInv == \A k \in 1..Len(copies) : copies[k].slot \notin reserved /\ Right(copies[k])

CountInv == Cardinality(reading) + Len(cq) + processed_reqs_cnt = Len(reqs)

Quiet == reading = {} /\ cq = <<>> /\ reserved = {}

DiskInv ==
  /\ DiskTypes /\ (pc # "idle" => PositionInv)
  /\ ReadingInv /\ CompletedInv /\ ReservedInv /\ CopiesInv /\ CountInv
  /\ pc \in {"idle", "piece", "returned"} => Quiet
  /\ pc = "returned" => RangeIsCovered

LEMMA MinOf ==
  \A a \in Int, b \in Int : Min({a, b}) \in Int /\ Min({a, b}) <= a /\ Min({a, b}) <= b /\ Min({a, b}) \in {a, b}
<1> TAKE a \in Int, b \in Int
<1>1. \E x \in {a, b} : \A y \in {a, b} : x =< y
  <2>1. CASE a <= b
    BY <2>1
  <2>2. CASE b <= a
    BY <2>2
  <2> QED
    BY <2>1, <2>2
<1>2. Min({a, b}) \in {a, b} /\ \A y \in {a, b} : Min({a, b}) =< y
  BY <1>1 DEF Min
<1> QED
  BY <1>2

LEMMA MinOfThree ==
  \A a \in Int, b \in Int, c \in Int :
    /\ Min({a, b, c}) \in Int /\ Min({a, b, c}) \in {a, b, c}
    /\ Min({a, b, c}) <= a /\ Min({a, b, c}) <= b /\ Min({a, b, c}) <= c
<1> TAKE a \in Int, b \in Int, c \in Int
<1>1. \E x \in {a, b, c} : \A y \in {a, b, c} : x =< y
  <2>1. CASE a <= b /\ a <= c
    BY <2>1
  <2>2. CASE b <= a /\ b <= c
    BY <2>2
  <2>3. CASE c <= a /\ c <= b
    BY <2>3
  <2> QED
    BY <2>1, <2>2, <2>3
<1>2. Min({a, b, c}) \in {a, b, c} /\ \A y \in {a, b, c} : Min({a, b, c}) =< y
  BY <1>1 DEF Min
<1> QED
  BY <1>2

\* The range is whole pages after rounding, and those pages hold it.
LEMMA TotalHolds ==
  ASSUME range \in Ranges
  PROVE  /\ range.offset \in Nat /\ range.size \in Nat \ {0} /\ range.offset + range.size <= FileSize
         /\ range.offset % PageSize \in 0..(PageSize - 1) /\ range.offset % PageSize <= range.offset
         /\ Total \in Nat /\ Total >= range.size + (range.offset % PageSize)
         /\ PageSize <= SegLen
<1>1. range \in [offset : Nat, size : Nat \ {0}] /\ range.offset + range.size <= FileSize
  BY DiskAssumption DEF DiskAssumption
<1>2. /\ PageSize \in Nat \ {0} /\ SegLen \in Nat \ {0} /\ SegLen % PageSize = 0
  BY DiskAssumption DEF DiskAssumption
<1>3. \A x \in Nat : /\ x % PageSize \in 0..(PageSize - 1) /\ x \div PageSize \in Nat
                     /\ x = PageSize * (x \div PageSize) + (x % PageSize)
  BY <1>2
<1>4. \A x \in Nat : x % PageSize <= x
  BY <1>2
<1>5. \A x \in Nat : RoundUp(x, PageSize) \in Nat /\ RoundUp(x, PageSize) >= x
  <2> TAKE x \in Nat
  <2> DEFINE q == (x + PageSize - 1) \div PageSize
             m == (x + PageSize - 1) % PageSize
  <2>1. x + PageSize - 1 \in Nat
    BY <1>2
  <2>2. q \in Nat /\ m \in 0..(PageSize - 1) /\ x + PageSize - 1 = PageSize * q + m
    BY <1>3, <2>1
  <2>3. RoundUp(x, PageSize) = q * PageSize
    BY DEF RoundUp
  <2> HIDE DEF q, m
  <2>4. q * PageSize = PageSize * q /\ PageSize * q \in Nat
    BY <1>2, <2>2
  <2> QED
    BY <1>2, <2>2, <2>3, <2>4
<1>6. PageSize <= SegLen
  <2>1. SegLen < PageSize => SegLen % PageSize = SegLen
    BY <1>2
  <2> QED
    BY <1>2, <2>1
<1> QED
  BY <1>1, <1>3, <1>4, <1>5, <1>6 DEF Total

\* A slot that is free is one.
LEMMA SlotFacts ==
  ASSUME DiskTypes
  PROVE  NextSlot \in Slot
<1>1. NumSlots \in Nat \ {0} /\ b_next \in Nat
  BY DiskAssumption DEF DiskAssumption, DiskTypes, Slot
<1>2. \A x \in Nat : x % NumSlots \in 0..(NumSlots - 1)
  BY <1>1
<1> QED
  BY <1>1, <1>2 DEF NextSlot, Slot

LEMMA FreeSlot ==
  ASSUME DiskTypes, Free
  PROVE  NextSlot \notin reserved /\ \A k \in 1..Len(copies) : copies[k].slot # NextSlot
<1>1. DOMAIN copies = 1..Len(copies)
  BY DEF DiskTypes
<1> QED
  BY <1>1 DEF Free, Range

LEMMA DiskStart == Init => DiskInv
<1> SUFFICES ASSUME Init PROVE DiskInv
  OBVIOUS
<1>1. DiskTypes
  <2>1. SegLen \in Nat \ {0} /\ NumSlots \in Nat \ {0}
    BY DiskAssumption DEF DiskAssumption
  <2>2. contents \in [Slot -> [0..(SegLen - 1) -> Int]]
    BY DEF Init, Nothing
  <2> QED
    BY <2>1, <2>2, FS_EmptySet DEF DiskTypes, Init, Slot
<1>2. reading = {} /\ cq = <<>> /\ copies = <<>> /\ reqs = <<>> /\ reserved = {} /\ processed_reqs_cnt = 0 /\ pc = "idle"
  BY DEF Init
<1>3. CountInv
  BY <1>2, FS_EmptySet DEF CountInv
<1> QED
  BY <1>1, <1>2, <1>3 DEF DiskInv, ReadingInv, CompletedInv, ReservedInv, CopiesInv, Quiet

\* The steps that only go on to another place.
LEMMA PlaceKeeps ==
  ASSUME DiskInv, UNCHANGED <<generator, kernel, slots, contents, copies, covered>>
  PROVE  /\ DiskTypes' /\ (PositionInv => PositionInv')
         /\ ReadingInv' /\ CompletedInv' /\ ReservedInv' /\ CopiesInv' /\ CountInv'
         /\ Quiet' = Quiet
<1>1. /\ range' = range /\ next_read_offset' = next_read_offset /\ copied_in' = copied_in
      /\ minor_offset' = minor_offset /\ processed_reqs_cnt' = processed_reqs_cnt /\ reqs' = reqs
      /\ reading' = reading /\ cq' = cq /\ reserved' = reserved /\ b_next' = b_next
      /\ contents' = contents /\ copies' = copies /\ covered' = covered
  BY DEF generator, kernel, slots
<1>2. DiskTypes'
  BY <1>1 DEF DiskInv, DiskTypes
<1>3. PositionInv => PositionInv'
  BY <1>1 DEF PositionInv, Bytes, Awaited
<1>4. ReadingInv'
  BY <1>1 DEF DiskInv, ReadingInv, Under
<1>5. ReservedInv' /\ CountInv' /\ Quiet' = Quiet
  <2>1. ReservedInv'
    BY <1>1 DEF DiskInv, ReservedInv, Under
  <2>2. CountInv' /\ Quiet' = Quiet
    BY <1>1 DEF DiskInv, CountInv, Quiet
  <2> QED
    BY <2>1, <2>2
<1>6. CompletedInv'
  BY <1>1 DEF DiskInv, CompletedInv, Right, Under
<1>7. CopiesInv'
  BY <1>1 DEF DiskInv, CopiesInv, Right
<1> QED
  BY <1>2, <1>3, <1>4, <1>5, <1>6, <1>7

\* Everything was handed over: nothing is outstanding, and the whole range is covered.
LEMMA WholeRange ==
  ASSUME DiskTypes, PositionInv, ReservedInv, CountInv,
         next_read_offset >= Total \/ copied_in >= range.size, Len(reqs) = processed_reqs_cnt \/ Quiet
  PROVE  Quiet /\ covered = 0..(range.size - 1)
<1>1. range \in Ranges
  BY DEF PositionInv
<1>2. Quiet
  <2>1. CASE Len(reqs) = processed_reqs_cnt
    <3>1. Cardinality(reading) = 0 /\ Len(cq) = 0
      BY <2>1, FS_CardinalityType DEF DiskTypes, CountInv
    <3>2. reading = {} /\ cq = <<>>
      BY <3>1, FS_EmptySet DEF DiskTypes
    <3> QED
      BY <3>2 DEF Quiet, ReservedInv
  <2> QED
    BY <2>1
<1>3. copied_in >= range.size
  <2> DEFINE m == range.offset % PageSize
  <2>1. m \in Nat /\ Total \in Nat /\ Total >= range.size + m /\ range.size \in Nat \ {0}
    BY <1>1, TotalHolds, DiskAssumption DEF DiskAssumption
  <2>2. /\ next_read_offset = 0 => copied_in = 0
        /\ next_read_offset > 0 => copied_in = next_read_offset - m \/ copied_in = range.size
    BY DEF PositionInv
  <2> HIDE DEF m
  <2> QED
    BY <2>1, <2>2 DEF DiskTypes
<1>4. \A i \in 1..Len(reqs) : ~Awaited(i)
  BY <1>2 DEF Quiet, Awaited
<1>5. 0..(range.size - 1) \subseteq covered
  <2>1. copied_in \in Nat /\ range.size \in Nat
    BY <1>1, TotalHolds DEF DiskTypes
  <2>2. ASSUME NEW b \in 0..(range.size - 1) PROVE b \in covered
    <3>1. b \in 0..(copied_in - 1)
      BY <1>3, <2>1
    <3> QED
      BY <1>4, <3>1 DEF PositionInv
  <2> QED
    BY <2>2
<1> QED
  BY <1>2, <1>5 DEF PositionInv

LEMMA StepsOnKeep ==
  ASSUME Again = FALSE, DiskInv,
         Entered \/ NoEntry \/ ReapNothing \/ ReapRaises \/ WaitRaises \/ Return \/ GoOn
  PROVE  DiskInv'
<1>1. UNCHANGED <<generator, kernel, slots, contents, copies, covered>>
  BY DEF Entered, NoEntry, ReapNothing, ReapRaises, WaitRaises, Return, GoOn
<1>2. pc # "idle" /\ PositionInv
  BY DEF Entered, NoEntry, ReapNothing, ReapRaises, WaitRaises, Return, GoOn, DiskInv
<1>3. CASE Return
  <2>1. next_read_offset >= Total \/ copied_in >= range.size
    BY <1>2, <1>3, TotalHolds DEF Return, DiskInv, DiskTypes, PositionInv, More
  <2>2. Len(reqs) = processed_reqs_cnt \/ Quiet
    BY <1>3 DEF Return, DiskInv, More
  <2>3. Quiet /\ covered = 0..(range.size - 1)
    BY <1>2, <2>1, <2>2, WholeRange DEF DiskInv
  <2>4. Quiet' /\ RangeIsCovered'
    BY <1>1, <2>3, PlaceKeeps DEF RangeIsCovered, generator
  <2> QED
    BY <1>1, <1>2, <2>4, PlaceKeeps DEF DiskInv
<1>4. CASE GoOn
  BY <1>1, <1>2, <1>4, PlaceKeeps DEF DiskInv, GoOn, RangeIsCovered
<1>5. CASE ~Return /\ ~GoOn
  <2>1. pc' \in {"reap", "loop", "raised"}
    BY <1>5 DEF Entered, NoEntry, ReapNothing, ReapRaises, WaitRaises
  <2> QED
    BY <1>1, <1>2, <2>1, PlaceKeeps DEF DiskInv
<1> QED
  BY <1>3, <1>4, <1>5

\* The piece that a read of len bytes is for: where it comes from and goes, and what is
\* handed over once it is.
LEMMA PieceShape ==
  ASSUME DiskTypes, PositionInv, NEW slot \in Slot, NEW len \in Int, NEW next \in Int,
         0 < len, len <= SegLen, minor_offset <= len, next_read_offset + len <= next,
         \/ next = next_read_offset + len
         \/ len >= range.size + (range.offset % PageSize) - next_read_offset
  PROVE  LET p == Piece(slot, len) IN
         /\ p \in PieceType /\ p.slot = slot /\ p.dst = copied_in /\ p.src + p.size <= len
         /\ p.size > 0 => fd_offset + next_read_offset + p.src = p.of + p.dst
         /\ p.of + p.dst + p.size <= FileSize /\ p.dst + p.size <= range.size
         /\ next > 0 /\ copied_in + p.size \in Nat
         /\ \/ copied_in + p.size = next - (range.offset % PageSize)
            \/ copied_in + p.size = range.size /\ range.size <= next - (range.offset % PageSize)
<1> DEFINE m == range.offset % PageSize
           S == range.size
           O == range.offset
           z == Min({len - minor_offset, S - copied_in})
           p == Piece(slot, len)
<1>1. /\ S \in Nat \ {0} /\ O \in Nat /\ m \in Nat /\ m <= O /\ O + S <= FileSize
      /\ FileSize \in Nat
  BY TotalHolds, DiskAssumption DEF PositionInv, DiskAssumption
<1>2. /\ next_read_offset \in Nat /\ copied_in \in Nat /\ minor_offset \in Nat
      /\ next_read_offset = 0 => copied_in = 0 /\ minor_offset = m
      /\ next_read_offset > 0 =>
           /\ minor_offset = 0 /\ copied_in <= S
           /\ copied_in = next_read_offset - m \/ (copied_in = S /\ copied_in <= next_read_offset - m)
  BY DEF DiskTypes, PositionInv
<1>3. /\ p.slot = slot /\ p.src = minor_offset /\ p.dst = copied_in /\ p.size = z /\ p.of = O
      /\ p = [slot |-> slot, src |-> minor_offset, dst |-> copied_in, size |-> z, of |-> O]
  BY DEF Piece
<1>4. fd_offset = O - m
  BY DEF fd_offset
<1>5. next > 0 /\ next_read_offset + len <= next /\ (next = next_read_offset + len \/ len >= S + m - next_read_offset)
  BY <1>2
<1>6. z \in Int /\ z <= len - minor_offset /\ z <= S - copied_in /\ (z = len - minor_offset \/ z = S - copied_in)
  <2> HIDE DEF m, S, O, p
  <2>1. len - minor_offset \in Int /\ S - copied_in \in Int
    BY <1>1, <1>2
  <2> QED
    BY <2>1, MinOf
<1>7. p \in PieceType <=> z \in Nat
  BY <1>1, <1>2, <1>3 DEF PieceType
<1> HIDE DEF m, S, O, z, p
<1>8. z \in Nat
  BY <1>1, <1>2, <1>6
<1>9. /\ z > 0 => O - m + next_read_offset + minor_offset = O + copied_in
      /\ minor_offset + z <= len /\ O + copied_in + z <= FileSize /\ copied_in + z <= S
  BY <1>1, <1>2, <1>6, <1>8
<1>10. copied_in + z = next - m \/ (copied_in + z = S /\ S <= next - m)
  BY <1>1, <1>2, <1>5, <1>6, <1>8
<1>11. /\ p \in PieceType /\ p.slot = slot /\ p.dst = copied_in /\ p.src + p.size <= len
       /\ p.size > 0 => fd_offset + next_read_offset + p.src = p.of + p.dst
       /\ p.of + p.dst + p.size <= FileSize /\ p.dst + p.size <= S
       /\ next > 0 /\ copied_in + p.size \in Nat
       /\ copied_in + p.size = next - m \/ (copied_in + p.size = S /\ S <= next - m)
  BY <1>1, <1>2, <1>3, <1>4, <1>5, <1>7, <1>8, <1>9, <1>10
<1> QED
  BY <1>11 DEF m, S, p

\* Appending a request leaves the others as they are.
LEMMA Appended ==
  ASSUME NEW S, NEW q \in Seq(S), NEW x \in S
  PROVE  /\ Append(q, x) \in Seq(S) /\ Len(Append(q, x)) = Len(q) + 1 /\ Len(q) \in Nat
         /\ \A i \in 1..Len(q) : Append(q, x)[i] = q[i]
         /\ Append(q, x)[Len(q) + 1] = x
  OBVIOUS

LEMMA Tailed ==
  ASSUME NEW S, NEW q \in Seq(S), q # <<>>
  PROVE  /\ Tail(q) \in Seq(S) /\ Len(Tail(q)) = Len(q) - 1 /\ Len(q) \in Nat \ {0} /\ Head(q) = q[1]
         /\ \A i \in 1..Len(Tail(q)) : Tail(q)[i] = q[i + 1] /\ i + 1 \in 2..Len(q)
<1>1. Tail(q) \in Seq(S) /\ Len(Tail(q)) = Len(q) - 1 /\ \A i \in 1..Len(Tail(q)) : Tail(q)[i] = q[i + 1]
  BY HeadTailProperties
<1>2. Len(q) \in Nat /\ Len(q) # 0 /\ Head(q) = q[1]
  OBVIOUS
<1> QED
  BY <1>1, <1>2

LEMMA AskKeeps ==
  ASSUME DiskInv, NEW r \in Ranges, Ask(r)
  PROVE  DiskInv'
<1>1. /\ range' = r /\ next_read_offset' = 0 /\ copied_in' = 0 /\ minor_offset' = r.offset % PageSize
      /\ processed_reqs_cnt' = 0 /\ reqs' = <<>> /\ covered' = {} /\ pc' \in {"loop", "piece"}
      /\ reading' = reading /\ cq' = cq /\ reserved' = reserved /\ b_next' = b_next
      /\ contents' = contents /\ copies' = copies
  BY DEF Ask, kernel, slots
<1>2. Quiet /\ DiskTypes /\ CopiesInv
  BY DEF DiskInv, Ask
<1>3. r.offset % PageSize \in Nat
  BY DiskAssumption DEF DiskAssumption
<1>4. DiskTypes'
  BY <1>1, <1>2, <1>3 DEF DiskTypes
<1>5. PositionInv'
  BY <1>1 DEF PositionInv
<1>6. ReadingInv' /\ CompletedInv' /\ ReservedInv' /\ CountInv' /\ Quiet'
  BY <1>1, <1>2, FS_EmptySet DEF ReadingInv, CompletedInv, ReservedInv, CountInv, Quiet
<1>7. CopiesInv'
  BY <1>1, <1>2 DEF CopiesInv, Right
<1> QED
  BY <1>1, <1>4, <1>5, <1>6, <1>7 DEF DiskInv

LEMMA CopyKeeps ==
  ASSUME DiskInv, Copy
  PROVE  DiskInv'
<1>1. /\ range' = range /\ next_read_offset' = next_read_offset /\ copied_in' = copied_in
      /\ minor_offset' = minor_offset /\ processed_reqs_cnt' = processed_reqs_cnt /\ reqs' = reqs
      /\ reading' = reading /\ cq' = cq /\ reserved' = reserved /\ b_next' = b_next
      /\ contents' = contents /\ copies' = Tail(copies) /\ covered' = covered /\ pc' = pc
  BY DEF Copy, generator, kernel, slots
<1>2. copies \in Seq(PieceType) /\ copies # <<>>
  BY DEF DiskInv, DiskTypes, Copy
<1>3. /\ copies' \in Seq(PieceType)
      /\ \A k \in 1..Len(copies') : copies'[k] = copies[k + 1] /\ k + 1 \in 1..Len(copies)
  BY <1>1, <1>2, Tailed
<1>4. DiskTypes'
  BY <1>1, <1>3 DEF DiskInv, DiskTypes
<1>5. PositionInv => PositionInv'
  BY <1>1 DEF PositionInv, Awaited, Bytes
<1>6. ReadingInv' /\ CompletedInv' /\ ReservedInv' /\ CountInv' /\ Quiet' = Quiet /\ RangeIsCovered' = RangeIsCovered
  <2>1. ReadingInv'
    BY <1>1 DEF DiskInv, ReadingInv, Under
  <2>2. CompletedInv'
    BY <1>1 DEF DiskInv, CompletedInv, Right, Under
  <2>3. ReservedInv' /\ CountInv'
    BY <1>1 DEF DiskInv, ReservedInv, CountInv, Under
  <2>4. Quiet' = Quiet /\ RangeIsCovered' = RangeIsCovered
    BY <1>1 DEF Quiet, RangeIsCovered
  <2> QED
    BY <2>1, <2>2, <2>3, <2>4
<1>7. CopiesInv'
  BY <1>1, <1>3 DEF DiskInv, CopiesInv, Right
<1> QED
  BY <1>1, <1>4, <1>5, <1>6, <1>7 DEF DiskInv

\* The slots of requests that are awaited are reserved, and no two of them share one.
LEMMA EnterKeeps ==
  ASSUME DiskInv, Enter
  PROVE  DiskInv'
<1>a. PICK len : len = Min({SegLen, Total - next_read_offset})
  OBVIOUS
<1>b. PICK p : p = Piece(NextSlot, len)
  OBVIOUS
<1>c. PICK n : n = Len(reqs)
  OBVIOUS
<1>d. PICK r0 : r0 = [user_data |-> n + 1, slot |-> NextSlot, len |-> len, off |-> fd_offset + next_read_offset]
  OBVIOUS
<1>e. PICK next : next = next_read_offset + len
  OBVIOUS
<1>1. /\ pc = "loop" /\ next_read_offset < Total /\ Free
      /\ DiskTypes /\ PositionInv /\ ReadingInv /\ CompletedInv /\ ReservedInv /\ CopiesInv /\ CountInv
  BY DEF Enter, DiskInv
<1>2. /\ reading' = reading \cup {r0} /\ reqs' = Append(reqs, p)
      /\ next_read_offset' = next /\ copied_in' = copied_in + p.size
      /\ minor_offset' = 0 /\ reserved' = reserved \cup {NextSlot} /\ b_next' = NextSlot /\ pc' = "enter"
      /\ range' = range /\ processed_reqs_cnt' = processed_reqs_cnt /\ cq' = cq
      /\ contents' = contents /\ copies' = copies /\ covered' = covered
  BY <1>a, <1>b, <1>c, <1>d, <1>e DEF Enter
<1>3. NextSlot \in Slot /\ NextSlot \notin reserved /\ \A k \in 1..Len(copies) : copies[k].slot # NextSlot
  BY <1>1, SlotFacts, FreeSlot
<1>4. /\ len \in Int /\ 0 < len /\ len <= SegLen /\ minor_offset <= len
      /\ fd_offset + next_read_offset \in Int
  <2> DEFINE T == Total
             m == range.offset % PageSize
  <2>1. /\ range \in Ranges /\ T \in Nat /\ T >= range.size + m /\ PageSize <= SegLen /\ m \in 0..(PageSize - 1)
        /\ range.size \in Nat \ {0} /\ range.offset \in Nat
    BY <1>1, TotalHolds DEF PositionInv
  <2>2. SegLen \in Nat \ {0} /\ PageSize \in Nat \ {0}
    BY DiskAssumption DEF DiskAssumption
  <2>3. /\ next_read_offset \in Nat /\ next_read_offset < T /\ minor_offset \in Nat
        /\ next_read_offset = 0 => minor_offset = m
        /\ next_read_offset > 0 => minor_offset = 0
    BY <1>1 DEF DiskTypes, PositionInv
  <2>4. fd_offset + next_read_offset = range.offset - m + next_read_offset
    BY DEF fd_offset
  <2> HIDE DEF T, m
  <2>5. T - next_read_offset \in Int
    BY <2>1, <2>3
  <2>6. len = Min({SegLen, T - next_read_offset})
    BY <1>a DEF T
  <2>8. len \in Int /\ len <= SegLen /\ (len = SegLen \/ len = T - next_read_offset)
    BY <2>2, <2>5, <2>6, MinOf
  <2>7. 0 < len /\ minor_offset <= len
    BY <2>1, <2>2, <2>3, <2>8
  <2> QED
    BY <2>1, <2>2, <2>3, <2>4, <2>8, <2>7
<1>5. /\ p \in PieceType /\ p.slot = NextSlot /\ p.dst = copied_in /\ p.src + p.size <= len
      /\ p.size > 0 => fd_offset + next_read_offset + p.src = p.of + p.dst
      /\ p.of + p.dst + p.size <= FileSize /\ p.dst + p.size <= range.size
      /\ next > 0 /\ next \in Int /\ copied_in + p.size \in Nat
      /\ \/ copied_in + p.size = next - (range.offset % PageSize)
         \/ copied_in + p.size = range.size /\ range.size <= next - (range.offset % PageSize)
  <2>1. next \in Int /\ next_read_offset + len <= next
    BY <1>1, <1>4, <1>e DEF DiskTypes
  <2> QED
    BY <1>1, <1>3, <1>4, <1>b, <1>e, <2>1, PieceShape
<1>6. /\ reqs' \in Seq(PieceType) /\ Len(reqs') = n + 1 /\ n \in Nat /\ reqs'[n + 1] = p
      /\ \A i \in 1..n : reqs'[i] = reqs[i] /\ i \in 1..Len(reqs')
  BY <1>1, <1>2, <1>5, <1>c, Appended DEF DiskTypes
<1>7. r0 \in Request /\ r0.user_data = n + 1 /\ r0.slot = NextSlot /\ r0.len = len /\ r0.off = fd_offset + next_read_offset
  BY <1>3, <1>4, <1>6, <1>d DEF Request
<1>8. /\ \A r \in reading : r.user_data \in 1..n /\ Under(r)' = Under(r) /\ r.slot \in reserved /\ r # r0
      /\ \A k \in 1..Len(cq) : cq[k].user_data \in 1..n /\ Under(cq[k])' = Under(cq[k]) /\ Under(cq[k]).slot \in reserved
      /\ Under(r0)' = p
  BY <1>1, <1>2, <1>3, <1>6, <1>7, <1>c DEF ReadingInv, CompletedInv, Under
<1>9. DiskTypes'
  <2>1. IsFiniteSet(reading')
    BY <1>1, <1>2, FS_AddElement DEF DiskTypes
  <2>2. next_read_offset' \in Nat
    BY <1>1, <1>2, <1>5
  <2> QED
    BY <1>1, <1>2, <1>3, <1>5, <1>6, <1>7, <2>1, <2>2 DEF DiskTypes
<1>10. PositionInv'
  <2>1. \A i \in 1..Len(reqs') : reqs'[i].dst + reqs'[i].size <= range.size
    BY <1>1, <1>5, <1>6, <1>c DEF PositionInv
  <2>2. ASSUME NEW b \in 0..(copied_in' - 1), b \notin covered
        PROVE  \E i \in 1..Len(reqs') : Awaited(i)' /\ b \in Bytes(reqs'[i])
    <3>1. CASE b < copied_in
      <4>1. PICK i \in 1..n : Awaited(i) /\ b \in Bytes(reqs[i])
        BY <1>1, <2>2, <3>1, <1>c DEF PositionInv, DiskTypes
      <4>2. Awaited(i)'
        BY <1>2, <4>1 DEF Awaited
      <4> QED
        BY <1>6, <4>1, <4>2 DEF Bytes
    <3>2. CASE b >= copied_in
      <4>1. b \in Bytes(p)
        BY <1>1, <1>2, <1>5, <2>2, <3>2 DEF Bytes, DiskTypes, PieceType
      <4>2. Awaited(n + 1)'
        BY <1>2, <1>7 DEF Awaited
      <4> QED
        BY <1>6, <4>1, <4>2 DEF Bytes
    <3> QED
      BY <1>1, <2>2, <3>1, <3>2 DEF DiskTypes
  <2>3. range \in Ranges /\ covered \subseteq 0..(range.size - 1) /\ range.size \in Nat
    BY <1>1, TotalHolds DEF PositionInv
  <2>4. copied_in' <= range.size /\ minor_offset' = 0 /\ next_read_offset' > 0
    BY <1>2, <1>5
  <2>5. \A b \in 0..(copied_in' - 1) :
          b \in covered' \/ \E i \in 1..Len(reqs') : Awaited(i)' /\ b \in Bytes(reqs'[i])
    BY <1>2, <2>2
  <2>6. \/ copied_in' = next_read_offset' - (range.offset % PageSize)
        \/ copied_in' = range.size /\ copied_in' <= next_read_offset' - (range.offset % PageSize)
    BY <1>2, <1>5 DEF PositionInv
  <2> QED
    BY <1>2, <2>1, <2>3, <2>4, <2>5, <2>6 DEF PositionInv, Bytes
<1>11. ReadingInv'
  <2>1. ASSUME NEW r \in reading
        PROVE  /\ r.user_data \in 1..Len(reqs') /\ r.slot = Under(r)'.slot /\ r.slot \in reserved'
               /\ r.len <= SegLen /\ Under(r)'.src + Under(r)'.size <= r.len
               /\ Under(r)'.size > 0 =>
                    /\ r.off + Under(r)'.src = Under(r)'.of + Under(r)'.dst
                    /\ Under(r)'.of + Under(r)'.dst + Under(r)'.size <= FileSize
               /\ \A o \in reading' : o.slot = r.slot => o = r
    BY <1>1, <1>2, <1>3, <1>6, <1>7, <1>8, <2>1 DEF ReadingInv
  <2>2. /\ r0.user_data \in 1..Len(reqs') /\ r0.slot = p.slot /\ r0.slot \in reserved'
        /\ r0.len <= SegLen /\ p.src + p.size <= r0.len
        /\ p.size > 0 => r0.off + p.src = p.of + p.dst /\ p.of + p.dst + p.size <= FileSize
        /\ \A o \in reading' : o.slot = r0.slot => o = r0
    BY <1>2, <1>3, <1>4, <1>5, <1>6, <1>7, <1>8
  <2> QED
    BY <1>2, <1>8, <2>1, <2>2 DEF ReadingInv, Under
<1>12. CompletedInv'
  <2>1. ASSUME NEW k \in 1..Len(cq)
        PROVE  /\ cq[k].user_data \in 1..Len(reqs') /\ Under(cq[k])'.slot \in reserved'
               /\ cq[k].res >= 0 => Right(Under(cq[k]))
               /\ \A l \in 1..Len(cq) : Under(cq[l])'.slot = Under(cq[k])'.slot => l = k
               /\ \A r \in reading' : r.slot # Under(cq[k])'.slot
    BY <1>1, <1>2, <1>3, <1>6, <1>7, <1>8, <2>1 DEF CompletedInv
  <2>2. cq' = cq /\ contents' = contents
    BY <1>2
  <2> QED
    BY <1>8, <2>1, <2>2 DEF CompletedInv, Right, Under
<1>13. ReservedInv'
  <2>1. ASSUME NEW s \in reserved
        PROVE  (\E r \in reading : r.slot = s) \/ (\E k \in 1..Len(cq) : Under(cq[k])'.slot = s)
    BY <1>1, <1>8, <2>1 DEF ReservedInv
  <2> QED
    BY <1>2, <1>7, <2>1 DEF ReservedInv, Under
<1>14. CopiesInv'
  BY <1>1, <1>2, <1>3 DEF CopiesInv, Right
<1>15. CountInv'
  <2>1. Cardinality(reading') = Cardinality(reading) + 1 /\ Cardinality(reading) \in Nat
    BY <1>1, <1>2, <1>8, FS_AddElement, FS_CardinalityType DEF DiskTypes
  <2>2. Len(cq) \in Nat /\ processed_reqs_cnt \in Nat
    BY <1>1 DEF DiskTypes
  <2>3. Cardinality(reading) + Len(cq) + processed_reqs_cnt = n
    BY <1>1, <1>c DEF CountInv
  <2>4. Cardinality(reading') + Len(cq) + processed_reqs_cnt = n + 1
    BY <1>6, <2>1, <2>2, <2>3
  <2> QED
    BY <1>2, <1>6, <2>4 DEF CountInv
<1> QED
  BY <1>2, <1>9, <1>10, <1>11, <1>12, <1>13, <1>14, <1>15 DEF DiskInv

LEMMA ReapKeeps ==
  ASSUME DiskInv, Reap
  PROVE  DiskInv'
<1>1. PICK c : c = Head(cq)
  OBVIOUS
<1>2. PICK q : q = reqs[c.user_data]
  OBVIOUS
<1>3. /\ DiskTypes /\ PositionInv /\ ReadingInv /\ CompletedInv /\ ReservedInv /\ CopiesInv /\ CountInv
      /\ cq \in Seq(Completion) /\ cq # <<>>
  BY DEF Reap, DiskInv, DiskTypes
<1>4. /\ c.res >= 0
      /\ copies' = Append(copies, q) /\ reserved' = reserved \ {q.slot}
      /\ covered' = covered \cup {q.dst + i : i \in 0..(q.size - 1)}
      /\ cq' = Tail(cq) /\ processed_reqs_cnt' = processed_reqs_cnt + 1 /\ pc' = "loop"
      /\ range' = range /\ next_read_offset' = next_read_offset /\ copied_in' = copied_in
      /\ minor_offset' = minor_offset /\ reqs' = reqs /\ reading' = reading /\ b_next' = b_next
      /\ contents' = contents
  BY <1>1, <1>2 DEF Reap, Submitted, Handed, Covers
<1>5. /\ cq' \in Seq(Completion) /\ Len(cq') = Len(cq) - 1 /\ Len(cq) \in Nat \ {0} /\ c = cq[1] /\ 1 \in 1..Len(cq)
      /\ \A k \in 1..Len(cq') : cq'[k] = cq[k + 1] /\ k + 1 \in 2..Len(cq) /\ k + 1 \in 1..Len(cq) /\ k + 1 # 1
      /\ \A k \in 1..Len(cq) : k # 1 => k - 1 \in 1..Len(cq') /\ cq'[k - 1] = cq[k]
  <2>1. /\ cq' \in Seq(Completion) /\ Len(cq') = Len(cq) - 1 /\ Len(cq) \in Nat \ {0} /\ c = cq[1]
        /\ \A k \in 1..Len(cq') : cq'[k] = cq[k + 1] /\ k + 1 \in 2..Len(cq)
    BY <1>1, <1>3, <1>4, Tailed
  <2> QED
    BY <2>1
<1>6. /\ c.user_data \in 1..Len(reqs) /\ q \in PieceType /\ q.slot \in reserved /\ Right(q) /\ q = Under(cq[1])
      /\ q.dst + q.size <= range.size
      /\ \A r \in reading : r.slot # q.slot
      /\ \A k \in 1..Len(cq) : k # 1 => Under(cq[k]).slot # q.slot
  <2>1. c.user_data \in 1..Len(reqs) /\ q = Under(cq[1])
    BY <1>2, <1>3, <1>5 DEF CompletedInv, Under
  <2>2. q \in PieceType
    <3>1. reqs \in Seq(PieceType)
      BY <1>3 DEF DiskTypes
    <3>2. \A i \in 1..Len(reqs) : reqs[i] \in PieceType
      BY <3>1
    <3> QED
      BY <1>2, <2>1, <3>2
  <2> QED
    BY <1>2, <1>3, <1>4, <1>5, <2>1, <2>2 DEF CompletedInv, PositionInv
<1>7. DiskTypes'
  <2>1. copies' \in Seq(PieceType)
    BY <1>3, <1>4, <1>6, Appended DEF DiskTypes
  <2> QED
    BY <1>3, <1>4, <1>5, <2>1 DEF DiskTypes
<1>8. PositionInv'
  <2>1. {q.dst + i : i \in 0..(q.size - 1)} \subseteq 0..(range.size - 1)
    <3>1. q.dst \in Nat /\ q.size \in Nat /\ range.size \in Nat /\ q.dst + q.size <= range.size
      <4>1. range \in Ranges
        BY <1>3 DEF PositionInv
      <4>2. range.size \in Nat
        BY <4>1, TotalHolds
      <4> QED
        BY <1>6, <4>2 DEF PieceType
    <3> QED
      BY <3>1
  <2>2. Bytes(q) \subseteq {q.dst + i : i \in 0..(q.size - 1)}
    <3>1. ASSUME NEW b \in Bytes(q) PROVE b \in {q.dst + i : i \in 0..(q.size - 1)}
      <4>1. b - q.dst \in 0..(q.size - 1) /\ b = q.dst + (b - q.dst)
        BY <1>6 DEF Bytes, PieceType
      <4> QED
        BY <4>1
    <3> QED
      BY <3>1
  <2>3. ASSUME NEW b \in 0..(copied_in - 1), b \notin covered'
        PROVE  \E i \in 1..Len(reqs) : Awaited(i)' /\ b \in Bytes(reqs[i])
    <3>1. PICK i \in 1..Len(reqs) : Awaited(i) /\ b \in Bytes(reqs[i])
      BY <1>3, <1>4, <2>3 DEF PositionInv
    <3>2. Awaited(i)'
      <4>1. CASE \E r \in reading : r.user_data = i
        BY <1>4, <4>1 DEF Awaited
      <4>2. ASSUME NEW k \in 1..Len(cq), cq[k].user_data = i PROVE Awaited(i)'
        <5>1. k # 1
          BY <1>2, <1>4, <1>5, <2>2, <2>3, <3>1, <4>2
        <5> QED
          BY <1>5, <4>2, <5>1 DEF Awaited
      <4> QED
        BY <3>1, <4>1, <4>2 DEF Awaited
    <3> QED
      BY <3>1, <3>2
  <2> QED
    BY <1>3, <1>4, <2>1, <2>3 DEF PositionInv, Bytes
<1>9. ReadingInv'
  <2>1. ASSUME NEW r \in reading PROVE r.slot \in reserved'
    <3>1. r.slot \in reserved
      BY <1>3 DEF ReadingInv
    <3>2. r.slot # q.slot
      BY <1>6
    <3> QED
      BY <1>4, <3>1, <3>2
  <2> QED
    BY <1>3, <1>4, <2>1 DEF ReadingInv, Under
<1>10. CompletedInv'
  <2>1. ASSUME NEW k \in 1..Len(cq')
        PROVE  /\ cq'[k].user_data \in 1..Len(reqs) /\ reqs[cq'[k].user_data].slot \in reserved'
               /\ cq'[k].res >= 0 => Right(reqs[cq'[k].user_data])
               /\ \A l \in 1..Len(cq') : reqs[cq'[l].user_data].slot = reqs[cq'[k].user_data].slot => l = k
               /\ \A r \in reading : r.slot # reqs[cq'[k].user_data].slot
    <3>1. k + 1 \in 1..Len(cq) /\ k + 1 # 1 /\ cq'[k] = cq[k + 1] /\ k \in Int
      BY <1>5
    <3>2. /\ cq[k + 1].user_data \in 1..Len(reqs) /\ reqs[cq[k + 1].user_data].slot \in reserved
          /\ reqs[cq[k + 1].user_data].slot # q.slot
          /\ cq[k + 1].res >= 0 => Right(reqs[cq[k + 1].user_data])
          /\ \A r \in reading : r.slot # reqs[cq[k + 1].user_data].slot
      BY <1>3, <1>6, <3>1 DEF CompletedInv, Under
    <3>3. ASSUME NEW l \in 1..Len(cq'), reqs[cq'[l].user_data].slot = reqs[cq'[k].user_data].slot PROVE l = k
      <4>1. l + 1 \in 1..Len(cq) /\ cq'[l] = cq[l + 1] /\ l \in Int
        BY <1>5
      <4>2. l + 1 = k + 1
        BY <1>3, <3>1, <3>3, <4>1 DEF CompletedInv, Under
      <4> QED
        BY <3>1, <4>1, <4>2
    <3> QED
      BY <1>4, <3>1, <3>2, <3>3
  <2>2. reqs' = reqs /\ reading' = reading /\ contents' = contents
    BY <1>4
  <2> QED
    BY <2>1, <2>2 DEF CompletedInv, Right, Under
<1>11. ReservedInv'
  <2>1. ASSUME NEW s \in reserved'
        PROVE  (\E r \in reading : r.slot = s) \/ (\E k \in 1..Len(cq') : reqs[cq'[k].user_data].slot = s)
    <3>1. s \in reserved /\ s # q.slot
      BY <1>4
    <3>2. CASE \E r \in reading : r.slot = s
      BY <3>2
    <3>3. ASSUME NEW k \in 1..Len(cq), Under(cq[k]).slot = s
          PROVE  \E j \in 1..Len(cq') : reqs[cq'[j].user_data].slot = s
      <4>1. k # 1
        BY <1>6, <3>1, <3>3
      <4> QED
        BY <1>5, <3>3, <4>1 DEF Under
    <3> QED
      BY <1>3, <3>1, <3>2, <3>3 DEF ReservedInv
  <2> QED
    BY <1>4, <2>1 DEF ReservedInv, Under
<1>12. CopiesInv'
  <2>1. /\ Len(copies') = Len(copies) + 1 /\ Len(copies) \in Nat /\ copies'[Len(copies) + 1] = q
        /\ \A k \in 1..Len(copies) : copies'[k] = copies[k]
    BY <1>3, <1>4, <1>6, Appended DEF DiskTypes
  <2>2. ASSUME NEW k \in 1..Len(copies') PROVE copies'[k].slot \notin reserved' /\ Right(copies'[k])
    BY <1>3, <1>4, <1>6, <2>1 DEF CopiesInv
  <2> QED
    BY <1>4, <2>2 DEF CopiesInv, Right
<1>13. CountInv'
  <2>1. Cardinality(reading) \in Nat /\ processed_reqs_cnt \in Nat
    BY <1>3, FS_CardinalityType DEF DiskTypes
  <2>2. Cardinality(reading) + Len(cq) + processed_reqs_cnt = Len(reqs)
    BY <1>3 DEF CountInv
  <2>3. Cardinality(reading) + Len(cq') + (processed_reqs_cnt + 1) = Len(reqs)
    BY <1>5, <2>1, <2>2
  <2> QED
    BY <1>4, <2>3 DEF CountInv
<1> QED
  BY <1>4, <1>7, <1>8, <1>9, <1>10, <1>11, <1>12, <1>13 DEF DiskInv

\* A read ends, with res bytes: it had filled its slot unless it failed.
LEMMA CompletionKeeps ==
  ASSUME DiskInv, NEW r \in reading, NEW res \in Int,
         cq' = Append(cq, [user_data |-> r.user_data, res |-> res]), reading' = reading \ {r},
         contents' \in [Slot -> [0..(SegLen - 1) -> Int]],
         \A s \in Slot : s # r.slot => contents'[s] = contents[s],
         res >= 0 => \A i \in 0..(Under(r).size - 1) :
                       contents'[r.slot][Under(r).src + i] \in {Under(r).of + Under(r).dst + i, Missed},
         UNCHANGED <<pc, generator, slots, copies, covered>>
  PROVE  DiskInv'
<1>1. PICK c : c = [user_data |-> r.user_data, res |-> res]
  OBVIOUS
<1>2. PICK n : n = Len(cq)
  OBVIOUS
<1>3. /\ DiskTypes /\ ReadingInv /\ CompletedInv /\ ReservedInv /\ CopiesInv /\ CountInv
  BY DEF DiskInv
<1>4. /\ pc' = pc /\ range' = range /\ next_read_offset' = next_read_offset /\ copied_in' = copied_in
      /\ minor_offset' = minor_offset /\ processed_reqs_cnt' = processed_reqs_cnt /\ reqs' = reqs
      /\ reserved' = reserved /\ b_next' = b_next /\ copies' = copies /\ covered' = covered
  BY DEF generator, slots
<1>5. /\ r \in Request /\ r.user_data \in 1..Len(reqs) /\ r.slot = reqs[r.user_data].slot /\ r.slot \in reserved
      /\ \A o \in reading : o.slot = r.slot => o = r
      /\ \A k \in 1..Len(cq) : reqs[cq[k].user_data].slot # r.slot
  BY <1>3 DEF DiskTypes, ReadingInv, CompletedInv, Under
<1>6. /\ c \in Completion /\ c.user_data = r.user_data /\ c.res = res
  BY <1>1, <1>5 DEF Completion, Request
<1>7. /\ cq' \in Seq(Completion) /\ n \in Nat /\ Len(cq') = n + 1 /\ cq'[n + 1] = c
      /\ \A k \in 1..n : cq'[k] = cq[k] /\ k \in 1..Len(cq')
      /\ \A k \in 1..Len(cq') : k = n + 1 \/ k \in 1..n
  <2>1. cq \in Seq(Completion)
    BY <1>3 DEF DiskTypes
  <2>2. cq' \in Seq(Completion) /\ n \in Nat /\ Len(cq') = n + 1 /\ cq'[n + 1] = c /\ \A k \in 1..n : cq'[k] = cq[k]
    BY <1>1, <1>2, <1>6, <2>1, Appended
  <2> QED
    BY <2>2
<1>8. \A p \in PieceType : p.slot # r.slot /\ Right(p) => Right(p)'
  BY DEF Right, PieceType
<1>9. \A i \in 1..Len(reqs) : reqs[i] \in PieceType
  <2>1. reqs \in Seq(PieceType)
    BY <1>3 DEF DiskTypes
  <2> QED
    BY <2>1
<1>10. DiskTypes'
  <2>1. IsFiniteSet(reading')
    BY <1>3, FS_RemoveElement DEF DiskTypes
  <2> QED
    BY <1>3, <1>4, <1>7, <2>1 DEF DiskTypes
<1>11. \A i \in 1..Len(reqs) : Awaited(i) => Awaited(i)'
  <2>1. ASSUME NEW i \in 1..Len(reqs), NEW o \in reading, o.user_data = i PROVE Awaited(i)'
    BY <1>6, <1>7, <2>1 DEF Awaited
  <2>2. ASSUME NEW i \in 1..Len(reqs), NEW k \in 1..n, cq[k].user_data = i PROVE Awaited(i)'
    BY <1>7, <2>2 DEF Awaited
  <2> QED
    BY <1>2, <2>1, <2>2 DEF Awaited
<1>12. PositionInv => PositionInv'
  BY <1>4, <1>11 DEF PositionInv, Bytes
<1>13. ReadingInv'
  <2>1. reading' \subseteq reading
    OBVIOUS
  <2> QED
    BY <1>3, <1>4, <2>1 DEF ReadingInv, Under
<1>14. CompletedInv'
  <2>1. PICK U : U = [k \in 1..(n + 1) |-> reqs[cq'[k].user_data]]
    OBVIOUS
  <2>2. /\ \A k \in 1..n : k \in 1..(n + 1) /\ cq'[k] = cq[k] /\ U[k] = Under(cq[k])
        /\ n + 1 \in 1..(n + 1) /\ cq'[n + 1] = c /\ U[n + 1] = Under(r)
        /\ \A k \in 1..(n + 1) : k = n + 1 \/ k \in 1..n
    BY <1>6, <1>7, <2>1 DEF Under
  <2>3. ASSUME NEW k \in 1..n
        PROVE  /\ cq[k].user_data \in 1..Len(reqs) /\ U[k] \in PieceType /\ U[k].slot \in reserved
               /\ cq[k].res >= 0 => Right(U[k])
               /\ U[k].slot # r.slot /\ \A o \in reading : o.slot # U[k].slot
    <3>1. /\ cq[k].user_data \in 1..Len(reqs) /\ Under(cq[k]).slot \in reserved
          /\ cq[k].res >= 0 => Right(Under(cq[k]))
          /\ \A o \in reading : o.slot # Under(cq[k]).slot
      BY <1>2, <1>3 DEF CompletedInv
    <3> QED
      BY <1>9, <2>2, <3>1 DEF Under
  <2>4. \A k \in 1..n : \A l \in 1..n : U[l].slot = U[k].slot => l = k
    BY <1>2, <1>3, <2>2 DEF CompletedInv
  <2>5. U[n + 1].slot = r.slot /\ r.slot \in reserved /\ (res >= 0 => Right(U[n + 1])')
    BY <1>5, <2>2 DEF Right, Under
  <2>6. \A k \in 1..(n + 1) : \A l \in 1..(n + 1) : U[l].slot = U[k].slot => l = k
    BY <2>2, <2>3, <2>4, <2>5
  <2>7. \A k \in 1..(n + 1) : U[k].slot \in reserved /\ \A o \in reading' : o.slot # U[k].slot
    BY <1>5, <2>2, <2>3, <2>5
  <2>8. ASSUME NEW k \in 1..(n + 1)
        PROVE  cq'[k].user_data \in 1..Len(reqs) /\ (cq'[k].res >= 0 => Right(U[k])')
    <3>1. CASE k = n + 1
      BY <1>5, <1>6, <2>2, <2>5, <3>1
    <3>2. CASE k \in 1..n
      <4>1. cq'[k] = cq[k] /\ cq[k].user_data \in 1..Len(reqs)
        BY <2>2, <2>3, <3>2
      <4>2. cq[k].res >= 0 => Right(U[k])'
        BY <1>8, <2>3, <3>2
      <4> QED
        BY <4>1, <4>2
    <3> QED
      BY <2>2, <3>1, <3>2
  <2>9. /\ Len(cq') = n + 1 /\ reqs' = reqs /\ reserved' = reserved
        /\ \A k \in 1..(n + 1) : Under(cq[k])' = U[k]
    BY <1>4, <1>7, <2>1 DEF Under
  <2>10. ASSUME NEW k \in 1..(n + 1)
         PROVE  cq'[k].res >= 0 => Right(Under(cq[k]))'
    <3>1. \A i \in 0..(U[k].size - 1) : cq'[k].res >= 0 => contents'[U[k].slot][U[k].src + i] \in {U[k].of + U[k].dst + i, Missed}
      BY <2>8 DEF Right
    <3> QED
      BY <2>9, <3>1 DEF Right
  <2> QED
    BY <2>6, <2>7, <2>8, <2>9, <2>10 DEF CompletedInv
<1>15. ReservedInv'
  <2>1. ASSUME NEW s \in reserved
        PROVE  (\E o \in reading' : o.slot = s) \/ (\E k \in 1..Len(cq') : reqs[cq'[k].user_data].slot = s)
    <3>1. ASSUME NEW o \in reading, o.slot = s, o # r
          PROVE  \E x \in reading' : x.slot = s
      BY <3>1
    <3>2. CASE r.slot = s
      <4>1. n + 1 \in 1..Len(cq') /\ cq'[n + 1].user_data = r.user_data /\ reqs[r.user_data].slot = s
        BY <1>5, <1>6, <1>7, <3>2
      <4> QED
        BY <4>1
    <3>3. ASSUME NEW k \in 1..n, reqs[cq[k].user_data].slot = s
          PROVE  \E j \in 1..Len(cq') : reqs[cq'[j].user_data].slot = s
      BY <1>7, <3>3
    <3> QED
      BY <1>2, <1>3, <3>1, <3>2, <3>3 DEF ReservedInv, Under
  <2> QED
    BY <1>4, <2>1 DEF ReservedInv, Under
<1>16. CopiesInv'
  <2>1. ASSUME NEW k \in 1..Len(copies) PROVE copies[k].slot \notin reserved /\ Right(copies[k])'
    <3>1. PICK p : p = copies[k]
      OBVIOUS
    <3>2. copies \in Seq(PieceType)
      BY <1>3 DEF DiskTypes
    <3>3. p \in PieceType
      BY <3>1, <3>2
    <3>4. Right(p) /\ p.slot \notin reserved /\ p.slot # r.slot
      BY <1>3, <1>5, <3>1 DEF CopiesInv
    <3>5. Right(p)'
      BY <1>8, <3>3, <3>4
    <3> QED
      BY <1>4, <3>1, <3>4, <3>5 DEF Right
  <2> QED
    BY <1>4, <2>1 DEF CopiesInv, Right
<1>17. CountInv'
  <2>1. Cardinality(reading') = Cardinality(reading) - 1 /\ Cardinality(reading) \in Nat
    BY <1>3, FS_RemoveElement, FS_CardinalityType DEF DiskTypes
  <2>2. Cardinality(reading) + n + processed_reqs_cnt = Len(reqs) /\ processed_reqs_cnt \in Nat
    BY <1>2, <1>3 DEF CountInv, DiskTypes
  <2>3. Cardinality(reading') + Len(cq') + processed_reqs_cnt = Len(reqs)
    BY <1>7, <2>1, <2>2
  <2> QED
    BY <1>4, <2>3 DEF CountInv
<1>18. ~Quiet
  BY DEF Quiet
<1> QED
  BY <1>4, <1>10, <1>12, <1>13, <1>14, <1>15, <1>16, <1>17, <1>18 DEF DiskInv

LEMMA ReadEndsKeep ==
  ASSUME DiskInv, NEW r \in reading, Complete(r) \/ ReadFails(r)
  PROVE  DiskInv'
<1>1. CASE ReadFails(r)
  <2>1. contents \in [Slot -> [0..(SegLen - 1) -> Int]]
    BY DEF DiskInv, DiskTypes
  <2> QED
    BY <1>1, <2>1, CompletionKeeps DEF ReadFails
<1>2. CASE Complete(r)
  <2>1. PICK all : all = Min({r.len, FileSize - r.off})
    OBVIOUS
  <2>2. PICK u : u = Under(r)
    OBVIOUS
  <2>3. /\ r \in Request /\ r.user_data \in 1..Len(reqs) /\ r.slot = u.slot /\ r.len <= SegLen
        /\ u.src + u.size <= r.len
        /\ u.size > 0 => r.off + u.src = u.of + u.dst /\ u.of + u.dst + u.size <= FileSize
        /\ reqs \in Seq(PieceType) /\ contents \in [Slot -> [0..(SegLen - 1) -> Int]]
    BY <2>2 DEF DiskInv, DiskTypes, ReadingInv
  <2>4. u \in PieceType
    BY <2>2, <2>3 DEF Under
  <2>5. r.slot \in Slot /\ r.len \in Int /\ r.off \in Int /\ FileSize \in Int /\ SegLen \in Nat
    BY <2>3, DiskAssumption DEF Request, DiskAssumption
  <2>6. all \in Int /\ all <= r.len /\ (all = r.len \/ all = FileSize - r.off)
    <3>1. FileSize - r.off \in Int
      BY <2>5
    <3> QED
      BY <2>1, <2>5, <3>1, MinOf
  <2>7. PICK len \in 0..all :
        /\ contents' = [contents EXCEPT ![r.slot] = Without(Filled(@, r.off, len), len, all)]
        /\ cq' = Append(cq, [user_data |-> r.user_data, res |-> len]) /\ reading' = reading \ {r}
        /\ UNCHANGED <<pc, generator, slots, copies, covered>>
    BY <1>2, <2>1 DEF Complete
  <2>8. /\ contents' \in [Slot -> [0..(SegLen - 1) -> Int]]
        /\ \A s \in Slot : s # r.slot => contents'[s] = contents[s]
        /\ \A j \in 0..(SegLen - 1) : j < all => contents'[r.slot][j] \in {r.off + j, Missed}
    <3>1. PICK w : w = Without(Filled(contents[r.slot], r.off, len), len, all)
      OBVIOUS
    <3>2. /\ w \in [0..(SegLen - 1) -> Int]
          /\ \A j \in 0..(SegLen - 1) : j < all => w[j] \in {r.off + j, Missed}
      BY <2>3, <2>5, <2>6, <3>1 DEF Filled, Without, Missed
    <3>3. contents' = [contents EXCEPT ![r.slot] = w]
      BY <2>3, <2>5, <2>7, <3>1
    <3> QED
      BY <2>3, <2>5, <3>2, <3>3
  <2>9. \A i \in 0..(u.size - 1) : contents'[r.slot][u.src + i] \in {u.of + u.dst + i, Missed}
    <3> TAKE i \in 0..(u.size - 1)
    <3>1. u.src \in Nat /\ u.size \in Nat /\ u.of \in Nat /\ u.dst \in Nat
      BY <2>4 DEF PieceType
    <3>2. u.src + i \in 0..(SegLen - 1) /\ u.src + i < all /\ r.off + (u.src + i) = u.of + u.dst + i
      <4> DEFINE a == u.src
                 z == u.size
                 o == u.of
                 d == u.dst
      <4>1. /\ a \in Nat /\ z \in Nat /\ o \in Nat /\ d \in Nat /\ i \in 0..(z - 1)
            /\ a + z <= r.len /\ r.len <= SegLen /\ (z > 0 => r.off + a = o + d /\ o + d + z <= FileSize)
        BY <2>3, <3>1
      <4> HIDE DEF a, z, o, d
      <4>2. a + i \in 0..(SegLen - 1) /\ a + i < all /\ r.off + (a + i) = o + d + i
        BY <2>5, <2>6, <4>1
      <4> QED
        BY <4>2 DEF a, z, o, d
    <3> QED
      BY <2>8, <3>2
  <2> QED
    BY <2>2, <2>6, <2>7, <2>8, <2>9, CompletionKeeps
<1> QED
  BY <1>1, <1>2

LEMMA PieceReadKeeps ==
  ASSUME DiskInv, PieceRead
  PROVE  DiskInv'
<1>1. PICK len : len = Min({SegLen, Total - next_read_offset, FileSize - fd_offset - next_read_offset})
  OBVIOUS
<1>2. PICK p : p = Piece(NextSlot, len)
  OBVIOUS
<1>3. PICK next : next = next_read_offset + SegLen
  OBVIOUS
<1>4. /\ pc = "piece" /\ next_read_offset < Total /\ copied_in < range.size /\ Free
      /\ DiskTypes /\ PositionInv /\ CopiesInv /\ CountInv /\ Quiet
  BY DEF PieceRead, DiskInv
<1>5. /\ contents' = [contents EXCEPT ![NextSlot] = Filled(@, fd_offset + next_read_offset, len)]
      /\ copies' = Append(copies, p) /\ covered' = covered \cup {p.dst + i : i \in 0..(p.size - 1)}
      /\ copied_in' = copied_in + p.size /\ next_read_offset' = next /\ minor_offset' = 0 /\ b_next' = NextSlot
      /\ pc' = pc /\ range' = range /\ processed_reqs_cnt' = processed_reqs_cnt /\ reqs' = reqs
      /\ reading' = reading /\ cq' = cq /\ reserved' = reserved
  BY <1>1, <1>2, <1>3 DEF PieceRead, Covers, kernel
<1>6. NextSlot \in Slot /\ \A k \in 1..Len(copies) : copies[k].slot # NextSlot
  BY <1>4, SlotFacts, FreeSlot
<1>7. /\ len \in Int /\ 0 < len /\ len <= SegLen /\ minor_offset <= len
      /\ fd_offset + next_read_offset \in Int /\ next \in Int /\ next_read_offset + len <= next
      /\ \/ next = next_read_offset + len
         \/ len >= range.size + (range.offset % PageSize) - next_read_offset
  <2> DEFINE T == Total
             m == range.offset % PageSize
             N == next_read_offset
             S == range.size
             O == range.offset
  <2>1. /\ T \in Nat /\ T >= S + m /\ PageSize <= SegLen /\ m \in 0..(PageSize - 1) /\ m <= O
        /\ S \in Nat \ {0} /\ O \in Nat /\ O + S <= FileSize
    BY <1>4, TotalHolds DEF PositionInv
  <2>2. SegLen \in Nat \ {0} /\ PageSize \in Nat \ {0} /\ FileSize \in Nat
    BY DiskAssumption DEF DiskAssumption
  <2>3. /\ N \in Nat /\ N < T /\ minor_offset \in Nat /\ copied_in \in Nat /\ copied_in < S
        /\ N = 0 => minor_offset = m
        /\ N > 0 => minor_offset = 0 /\ (copied_in = N - m \/ copied_in = S)
    BY <1>4 DEF DiskTypes, PositionInv
  <2>4. fd_offset = O - m
    BY DEF fd_offset
  <2>5. len = Min({SegLen, T - N, FileSize - fd_offset - N})
    BY <1>1
  <2>6. next = N + SegLen
    BY <1>3
  <2> HIDE DEF T, m, N, S, O
  <2>7. T - N \in Int /\ FileSize - fd_offset - N \in Int /\ fd_offset \in Int
    BY <2>1, <2>2, <2>3, <2>4
  <2>8. /\ len \in Int /\ len <= SegLen
        /\ len = SegLen \/ len = T - N \/ len = FileSize - fd_offset - N
    <3>1. PICK x, y : x = T - N /\ y = FileSize - fd_offset - N
      OBVIOUS
    <3>2. x \in Int /\ y \in Int /\ SegLen \in Int /\ len = Min({SegLen, x, y})
      BY <2>2, <2>5, <2>7, <3>1
    <3>3. len \in Int /\ len \in {SegLen, x, y} /\ len <= SegLen
      BY <3>2, MinOfThree
    <3> QED
      BY <3>1, <3>3
  <2>9. FileSize - fd_offset - N >= S + m - N /\ (N = 0 => S + m - N > m) /\ S + m - N > 0
    BY <2>1, <2>2, <2>3, <2>4
  <2>10. 0 < len /\ minor_offset <= len /\ (len = SegLen \/ len >= S + m - N)
    BY <2>1, <2>2, <2>3, <2>7, <2>8, <2>9
  <2>11. fd_offset + N \in Int /\ next \in Int /\ N + len <= next /\ (len = SegLen => next = N + len)
    BY <2>2, <2>3, <2>6, <2>7, <2>8
  <2> QED
    BY <2>8, <2>10, <2>11 DEF m, N, S
<1>8. /\ p \in PieceType /\ p.slot = NextSlot /\ p.dst = copied_in /\ p.src + p.size <= len
      /\ p.size > 0 => fd_offset + next_read_offset + p.src = p.of + p.dst
      /\ p.dst + p.size <= range.size
      /\ next > 0 /\ copied_in + p.size \in Nat
      /\ \/ copied_in + p.size = next - (range.offset % PageSize)
         \/ copied_in + p.size = range.size /\ range.size <= next - (range.offset % PageSize)
  BY <1>2, <1>4, <1>6, <1>7, PieceShape
<1>9. /\ copies' \in Seq(PieceType) /\ Len(copies') = Len(copies) + 1 /\ Len(copies) \in Nat
      /\ copies'[Len(copies) + 1] = p /\ \A k \in 1..Len(copies) : copies'[k] = copies[k]
  BY <1>4, <1>5, <1>8, Appended DEF DiskTypes
<1>10. /\ contents' \in [Slot -> [0..(SegLen - 1) -> Int]]
       /\ \A s \in Slot : s # NextSlot => contents'[s] = contents[s]
       /\ \A j \in 0..(SegLen - 1) : j < len => contents'[NextSlot][j] = fd_offset + next_read_offset + j
  <2>1. contents \in [Slot -> [0..(SegLen - 1) -> Int]]
    BY <1>4 DEF DiskTypes
  <2>2. PICK o : o = fd_offset + next_read_offset
    OBVIOUS
  <2>3. o \in Int /\ contents' = [contents EXCEPT ![NextSlot] = Filled(@, o, len)] /\ SegLen \in Nat
    BY <1>5, <1>7, <2>2, DiskAssumption DEF DiskAssumption
  <2>4. /\ contents' \in [Slot -> [0..(SegLen - 1) -> Int]]
        /\ \A s \in Slot : s # NextSlot => contents'[s] = contents[s]
        /\ \A j \in 0..(SegLen - 1) : j < len => contents'[NextSlot][j] = o + j
    BY <1>6, <1>7, <2>1, <2>3 DEF Filled
  <2> QED
    BY <2>2, <2>4
<1>11. \A i \in 0..(p.size - 1) : contents'[p.slot][p.src + i] = p.of + p.dst + i
  <2> TAKE i \in 0..(p.size - 1)
  <2>1. PICK o : o = fd_offset + next_read_offset
    OBVIOUS
  <2> DEFINE a == p.src
             z == p.size
             f == p.of
             d == p.dst
  <2>2. /\ a \in Nat /\ z \in Nat /\ f \in Nat /\ d \in Nat /\ i \in 0..(z - 1) /\ o \in Int
        /\ a + z <= len /\ (z > 0 => o + a = f + d) /\ len \in Int /\ len <= SegLen /\ SegLen \in Nat
    BY <1>7, <1>8, <2>1, DiskAssumption DEF PieceType, DiskAssumption
  <2>3. \A j \in 0..(SegLen - 1) : j < len => contents'[NextSlot][j] = o + j
    BY <1>10, <2>1
  <2> HIDE DEF a, z, f, d
  <2>4. a + i \in 0..(SegLen - 1) /\ a + i < len /\ o + (a + i) = f + d + i
    BY <2>2
  <2>5. contents'[NextSlot][a + i] = f + d + i
    BY <2>3, <2>4
  <2> QED
    BY <1>8, <2>5 DEF a, f, d
<1>12. DiskTypes'
  BY <1>4, <1>5, <1>6, <1>7, <1>8, <1>9, <1>10 DEF DiskTypes
<1>13. PositionInv'
  <2>1. range.size \in Nat /\ range \in Ranges /\ copied_in \in Nat
    BY <1>4, TotalHolds DEF PositionInv, DiskTypes
  <2>2. {p.dst + i : i \in 0..(p.size - 1)} \subseteq 0..(range.size - 1)
    BY <1>8, <2>1 DEF PieceType
  <2>3. ASSUME NEW b \in 0..(copied_in' - 1) PROVE b \in covered'
    <3>1. CASE b < copied_in
      BY <1>4, <1>5, <2>1, <2>3, <3>1 DEF PositionInv, Awaited, Quiet
    <3>2. CASE b >= copied_in
      <4>1. b - p.dst \in 0..(p.size - 1) /\ b = p.dst + (b - p.dst)
        BY <1>5, <1>8, <2>1, <2>3, <3>2 DEF PieceType
      <4> QED
        BY <1>5, <4>1
    <3> QED
      BY <2>1, <3>1, <3>2
  <2>4. copied_in' <= range.size /\ minor_offset' = 0 /\ next_read_offset' > 0
    BY <1>5, <1>8
  <2>5. \/ copied_in' = next_read_offset' - (range.offset % PageSize)
        \/ copied_in' = range.size /\ copied_in' <= next_read_offset' - (range.offset % PageSize)
    BY <1>5, <1>8
  <2>6. covered' \subseteq 0..(range.size - 1) /\ \A i \in 1..Len(reqs) : reqs[i].dst + reqs[i].size <= range.size
    BY <1>4, <1>5, <2>2 DEF PositionInv
  <2> QED
    BY <1>5, <2>1, <2>3, <2>4, <2>5, <2>6 DEF PositionInv
<1>14. ReadingInv' /\ CompletedInv' /\ ReservedInv' /\ CountInv' /\ Quiet'
  BY <1>4, <1>5 DEF ReadingInv, CompletedInv, ReservedInv, CountInv, Quiet
<1>15. CopiesInv'
  <2>1. ASSUME NEW k \in 1..Len(copies')
        PROVE  \A i \in 0..(copies'[k].size - 1) :
                 contents'[copies'[k].slot][copies'[k].src + i] \in {copies'[k].of + copies'[k].dst + i, Missed}
    <3>1. CASE k = Len(copies) + 1
      BY <1>9, <1>11, <3>1
    <3>2. CASE k \in 1..Len(copies)
      <4>1. PICK c : c = copies[k]
        OBVIOUS
      <4>2. copies \in Seq(PieceType)
        BY <1>4 DEF DiskTypes
      <4>3. c \in PieceType /\ c.slot # NextSlot /\ copies'[k] = c
        BY <1>6, <1>9, <3>2, <4>1, <4>2
      <4>4. Right(c)
        BY <1>4, <3>2, <4>1 DEF CopiesInv
      <4> QED
        BY <1>10, <4>3, <4>4 DEF Right, PieceType
    <3> QED
      BY <1>9, <3>1, <3>2
  <2> QED
    BY <1>4, <1>5, <2>1 DEF CopiesInv, Right, Quiet
<1> QED
  BY <1>4, <1>5, <1>12, <1>13, <1>14, <1>15 DEF DiskInv

LEMMA DiskStep == Again = FALSE /\ DiskInv /\ [Next]_vars => DiskInv'
<1>1. ASSUME DiskInv, UNCHANGED vars PROVE DiskInv'
  <2>1. UNCHANGED <<generator, kernel, slots, contents, copies, covered>> /\ pc' = pc
    BY <1>1 DEF vars
  <2>2. RangeIsCovered' = RangeIsCovered
    BY <2>1 DEF RangeIsCovered, generator
  <2> QED
    BY <1>1, <2>1, <2>2, PlaceKeeps DEF DiskInv
<1>2. ASSUME Again = FALSE, DiskInv, Next PROVE DiskInv'
  BY <1>2, AskKeeps, EnterKeeps, ReapKeeps, StepsOnKeep, PieceReadKeeps, CopyKeeps, ReadEndsKeep DEF Next, Host
<1> QED
  BY <1>1, <1>2

LEMMA DiskSpec == MCSpec => Init /\ [][Next]_vars
<1>1. MCInit => Init
  BY DEF MCInit
<1>2. [MCNext]_all_vars => [Next]_vars
  BY DEF MCNext, all_vars
<1> QED
  BY <1>1, <1>2, PTL DEF MCSpec

LEMMA DiskInvariant == ASSUME Again = FALSE PROVE MCSpec => []DiskInv
<1>1. DiskInv /\ [Next]_vars => DiskInv'
  BY DiskStep
<1> QED
  BY <1>1, DiskStart, DiskSpec, PTL

\* CopiesAreRight: the bytes a copy takes from its staging buffer are those of the file that
\* belong where it puts them, but for those a short read has missed, whatever the order in which
\* reads and copies end, as long as nothing is read after a call has raised.
THEOREM CopiesStayRight == ASSUME Again = FALSE PROVE MCSpec => []CopiesAreRight
<1>1. DiskInv => CopiesAreRight
  <2> SUFFICES ASSUME DiskInv, NEW c \in Range(copies) PROVE Right(c)
    BY DEF CopiesAreRight, Right
  <2>1. copies \in Seq(PieceType) /\ CopiesInv
    BY DEF DiskInv, DiskTypes
  <2>2. PICK k \in 1..Len(copies) : c = copies[k]
    BY <2>1 DEF Range
  <2> QED
    BY <2>1, <2>2 DEF CopiesInv
<1> QED
  BY <1>1, DiskInvariant, PTL

\* ReadsAreWhole: a call that returns has handed over every byte of its range, and leaves no
\* read, completion or tagged buffer behind, for files, pages and buffers of any size.
THEOREM ReadsStayWhole == ASSUME Again = FALSE PROVE MCSpec => []ReadsAreWhole
<1>1. DiskInv => ReadsAreWhole
  BY DEF DiskInv, ReadsAreWhole, RangeIsCovered, RingIsClean, Quiet
<1> QED
  BY <1>1, DiskInvariant, PTL

-----------------------------------------------------------------------------
(* The LLM server, for any number of threads and models.  The invariant says, for every    *)
(* step of a request that holds gen_lock, how far the runtime state and the registry have  *)
(* been changed.                                                                           *)

LEMMA ServerAssumed ==
  /\ NoThread \notin Thread /\ NoModel \notin Model
  /\ Limit \in [Model -> Nat]
  /\ PromptLen \subseteq Nat /\ MaxNew \in Nat \ {0}
  BY MCAssumption DEF MCAssumption, Server!ServerAssumption

\* A generation has passed on fewer tokens than it may, and a load has a model.
GoingInv ==
  \A t \in Thread :
    /\ server_pc[t] = "gen" => passed[t] < MaxNew
    /\ server_pc[t] \in {"load", "adopt", "context", "register"} => want[t] # NoModel

\* The lock is held by the thread inside the critical section.
LockInv == \A t \in Thread : server_pc[t] \in Server!Critical <=> gen_lock = t

\* No model is loaded; the only row that may say otherwise is that of m.
NoneLoaded(m) == \A n \in Model \ {m} : status[n] \notin {"loaded", "loading"}

\* The runtime state and the registry agree.
Settled ==
  /\ tok = model /\ max_context = model
  /\ NoneLoaded(model) /\ (model # NoModel => status[model] = "loaded")

\* What each step of a load or an unload finds.
Changing(t) ==
  /\ server_pc[t] \in {"forget", "load"} => model = NoModel /\ tok = NoModel /\ NoneLoaded(NoModel)
  /\ server_pc[t] \in {"load", "adopt", "context"} => max_context = NoModel
  /\ server_pc[t] = "adopt" => model = NoModel /\ tok = NoModel
  /\ server_pc[t] = "register" => max_context = model
  /\ server_pc[t] \in {"context", "register"} => model = want[t] /\ tok = want[t]
  /\ server_pc[t] \in {"adopt", "context", "register"} => NoneLoaded(want[t])

RegistryInv ==
  /\ (\A t \in Thread : server_pc[t] \notin {"forget", "load", "adopt", "context", "register"}) => Settled
  /\ \A t \in Thread : Changing(t)
  /\ \A t \in Thread : server_pc[t] = "gen" => gen[t] # NoModel /\ gen[t] = model

\* A cancellation that a generation can see was meant for it.
CancelInv == \A t \in Thread : server_pc[t] \in {"stream", "gen"} /\ cancel_event => t \in asked

ServerInv == Server!TypeOK /\ GoingInv /\ LockInv /\ RegistryInv /\ CancelInv

-----------------------------------------------------------------------------
(* Kinds of steps. *)

OutsideStep(t) ==
  Server!Chat(t) \/ Server!Check(t) \/ Server!Encode(t) \/ Server!Guard(t) \/ Server!Refuse(t) \/ Server!Mutation(t) \/ Server!Cancel(t)
    \/ Server!CancelSet(t) \/ Server!CancelReply(t)

QuietStep(t) == Server!Clear(t) \/ Server!Cancelled(t) \/ Server!Maintain(t) \/ Server!Reply(t)

EnterStep(t) == Server!Acquire(t) \/ Server!Mutate(t)

LifecycleStep(t) ==
  Server!Unload(t) \/ Server!Forget(t) \/ Server!Load(t) \/ Server!Adopt(t) \/ Server!AdoptContext(t) \/ Server!Register(t)

LEMMA RequestSteps ==
  ASSUME Server!Next
  PROVE  \E t \in Thread : \/ OutsideStep(t) \/ QuietStep(t) \/ EnterStep(t)
                           \/ LifecycleStep(t) \/ Server!Stream(t) \/ Server!Token(t) \/ Server!Release(t)
BY DEF Server!Next, Server!Arrive, Server!Work, OutsideStep, QuietStep, EnterStep, LifecycleStep

\* A step outside the critical section stays outside and changes neither the
\* runtime state nor who holds the lock.
LEMMA OutsideMoves ==
  ASSUME Server!TypeOK, NEW t \in Thread, OutsideStep(t)
  PROVE  /\ server_pc[t] \notin Server!Critical
         /\ \E next \in Server!Control \ Server!Critical : server_pc' = [server_pc EXCEPT ![t] = next]
         /\ UNCHANGED <<Server!stateVars, gen_lock, want, gen, passed>>
         /\ prompt_len' \in [Thread -> PromptLen \cup {0}]
<1> USE DEF Server!Control, Server!Critical, Server!Goto, Server!reqVars, Server!stateVars
<1>1. CASE Server!Chat(t) \/ Server!Check(t) \/ Server!Guard(t) \/ Server!Mutation(t) \/ Server!Cancel(t) \/ Server!CancelReply(t)
  BY <1>1 DEF Server!TypeOK, Server!Chat, Server!Check, Server!Guard, Server!Mutation,
              Server!Cancel, Server!CancelReply
<1>2. CASE Server!Encode(t)
  BY <1>2 DEF Server!TypeOK, Server!Encode
<1>3. CASE Server!Refuse(t)
  BY <1>3 DEF Server!TypeOK, Server!Refuse
<1>4. CASE Server!CancelSet(t)
  BY <1>4 DEF Server!TypeOK, Server!CancelSet
<1> QED
  BY <1>1, <1>2, <1>3, <1>4 DEF OutsideStep

\* A step that holds the lock and leaves the runtime state alone.
LEMMA QuietMoves ==
  ASSUME Server!TypeOK, NEW t \in Thread, QuietStep(t)
  PROVE  /\ server_pc[t] \in {"clear", "gen", "maintain", "reply"}
         /\ \E next \in {"stream", "reply", "fail", "release"} : server_pc' = [server_pc EXCEPT ![t] = next]
         /\ UNCHANGED <<Server!stateVars, gen_lock, Server!reqVars, asked>>
BY DEF QuietStep, Server!Clear, Server!Cancelled, Server!Maintain, Server!Reply, Server!Goto,
       Server!reqVars, Server!stateVars

\* A request takes the lock when it is free, or is refused.
LEMMA EnterMoves ==
  ASSUME Server!TypeOK, NEW t \in Thread, EnterStep(t)
  PROVE  /\ server_pc[t] \in {"acquire", "mutate"}
         /\ \/ /\ gen_lock = NoThread /\ gen_lock' = t
               /\ \E next \in {"clear", "unload", "maintain"} : server_pc' = [server_pc EXCEPT ![t] = next]
            \/ /\ gen_lock' = gen_lock /\ server_pc' = [server_pc EXCEPT ![t] = "error"]
         /\ asked' = asked \ {t}
         /\ want' \in [Thread -> Model \cup {NoModel}]
         /\ \A u \in Thread \ {t} : want'[u] = want[u]
         /\ UNCHANGED <<Server!stateVars, cancel_event, prompt_len, gen, passed>>
<1>1. CASE Server!Acquire(t)
  BY <1>1 DEF Server!TypeOK, Server!Acquire, Server!Take, Server!Goto, Server!reqVars,
              Server!stateVars
<1>2. CASE Server!Mutate(t)
  <2>1. want' = want \/ \E m \in Model \cup {NoModel} : want' = [want EXCEPT ![t] = m]
    BY <1>2 DEF Server!Mutate
  <2>2. /\ want' \in [Thread -> Model \cup {NoModel}]
        /\ \A u \in Thread \ {t} : want'[u] = want[u]
    BY <2>1 DEF Server!TypeOK
  <2> QED
    BY <1>2, <2>2 DEF Server!Mutate, Server!Take, Server!Goto, Server!stateVars
<1> QED
  BY <1>1, <1>2 DEF EnterStep

\* A step of an unload or a load.
LEMMA LifecycleMoves ==
  ASSUME Server!TypeOK, NEW t \in Thread, LifecycleStep(t)
  PROVE  /\ server_pc[t] \in {"unload", "forget", "load", "adopt", "context", "register"}
         /\ \E next \in {"forget", "reply", "fail", "load", "adopt", "context", "register"} :
              server_pc' = [server_pc EXCEPT ![t] = next]
         /\ {model', tok', max_context'} \subseteq Model \cup {NoModel}
         /\ status' \in [Model -> {"available", "loading", "loaded", "error"}]
         /\ UNCHANGED <<gen_lock, cancel_event, Server!reqVars, asked>>
<1> USE DEF Server!TypeOK, Server!Goto, Server!reqVars
<1>1. CASE Server!Unload(t)
  BY <1>1 DEF Server!Unload
<1>2. CASE Server!Forget(t)
  BY <1>2 DEF Server!Forget
<1>3. CASE Server!Load(t)
  BY <1>3 DEF Server!Load
<1>4. CASE Server!Adopt(t)
  BY <1>4 DEF Server!Adopt
<1>5. CASE Server!AdoptContext(t) \/ Server!Register(t)
  BY <1>5 DEF Server!AdoptContext, Server!Register
<1> QED
  BY <1>1, <1>2, <1>3, <1>4, <1>5 DEF LifecycleStep

-----------------------------------------------------------------------------
(* Every part of the invariant is kept. *)

LEMMA ShapeStep ==
  ASSUME Server!TypeOK, GoingInv, NEW t \in Thread,
         OutsideStep(t) \/ QuietStep(t) \/ EnterStep(t)
           \/ LifecycleStep(t) \/ Server!Stream(t) \/ Server!Token(t) \/ Server!Release(t)
  PROVE  Server!TypeOK' /\ GoingInv'
<1>1. CASE OutsideStep(t)
  <2>1. cancel_event' \in BOOLEAN /\ asked' \subseteq Thread
    BY <1>1 DEF OutsideStep, Server!Chat, Server!Check, Server!Encode, Server!Guard, Server!Refuse,
                Server!Mutation, Server!Cancel, Server!CancelSet,
                Server!CancelReply, Server!TypeOK
  <2>2. PICK next \in Server!Control \ Server!Critical : server_pc' = [server_pc EXCEPT ![t] = next]
    BY <1>1, OutsideMoves
  <2>3. UNCHANGED <<Server!stateVars, gen_lock, want, gen, passed>> /\ prompt_len' \in [Thread -> PromptLen \cup {0}]
    BY <1>1, OutsideMoves
  <2> QED
    BY <2>1, <2>2, <2>3 DEF Server!TypeOK, GoingInv, Server!Control, Server!Critical,
                            Server!stateVars
<1>2. CASE QuietStep(t)
  <2>1. PICK next \in {"stream", "reply", "fail", "release"} : server_pc' = [server_pc EXCEPT ![t] = next]
    BY <1>2, QuietMoves
  <2>2. UNCHANGED <<Server!stateVars, gen_lock, Server!reqVars, asked>>
    BY <1>2, QuietMoves
  <2>3. cancel_event' \in BOOLEAN
    BY <1>2 DEF QuietStep, Server!Clear, Server!Cancelled, Server!Maintain, Server!Reply,
                Server!TypeOK
  <2> QED
    BY <2>1, <2>2, <2>3 DEF Server!TypeOK, GoingInv, Server!Control, Server!Critical,
                            Server!stateVars, Server!reqVars
<1>3. CASE EnterStep(t)
  <2>1. PICK next \in {"clear", "unload", "maintain", "error"} : server_pc' = [server_pc EXCEPT ![t] = next]
    BY <1>3, EnterMoves
  <2>2. /\ gen_lock' \in {gen_lock, t} /\ asked' = asked \ {t}
        /\ want' \in [Thread -> Model \cup {NoModel}]
        /\ \A u \in Thread \ {t} : want'[u] = want[u]
        /\ UNCHANGED <<Server!stateVars, cancel_event, prompt_len, gen, passed>>
    BY <1>3, EnterMoves
  <2>3. Server!TypeOK'
    BY <2>1, <2>2 DEF Server!TypeOK, Server!Control, Server!Critical, Server!stateVars
  <2> QED
    BY <2>1, <2>2, <2>3 DEF Server!TypeOK, GoingInv
<1>4. CASE LifecycleStep(t)
  <2>1. PICK next \in {"forget", "reply", "fail", "load", "adopt", "context", "register"} :
          server_pc' = [server_pc EXCEPT ![t] = next]
    BY <1>4, LifecycleMoves
  <2>2. UNCHANGED <<gen_lock, cancel_event, Server!reqVars, asked>>
    BY <1>4, LifecycleMoves
  <2>3. Server!TypeOK'
    BY <1>4, <2>1, <2>2, LifecycleMoves DEF Server!TypeOK, Server!Control, Server!Critical,
                                        Server!reqVars
  <2>4. server_pc'[t] \in {"load", "adopt", "context", "register"} => want[t] # NoModel
    BY <1>4, <2>1 DEF LifecycleStep, Server!Unload, Server!Forget, Server!Load, Server!Adopt,
                      Server!AdoptContext, Server!Register, Server!Goto,
                      GoingInv, Server!TypeOK
  <2> QED
    BY <2>1, <2>2, <2>3, <2>4 DEF Server!TypeOK, GoingInv, Server!reqVars
<1>5. CASE Server!Stream(t)
  BY <1>5, ServerAssumed
     DEF Server!Stream, Server!Goto, Server!TypeOK, GoingInv, Server!Control, Server!Critical, Server!stateVars
<1>6. CASE Server!Token(t)
  BY <1>6, ServerAssumed DEF Server!Token, Server!Goto, Server!TypeOK, GoingInv, Server!Control,
                             Server!Critical, Server!stateVars
<1>7. CASE Server!Release(t)
  BY <1>7, ServerAssumed DEF Server!Release, Server!Goto, Server!TypeOK, GoingInv, Server!Control,
                             Server!Critical, Server!stateVars
<1> QED
  BY <1>1, <1>2, <1>3, <1>4, <1>5, <1>6, <1>7

LEMMA LockStep ==
  ASSUME Server!TypeOK, LockInv, NEW t \in Thread,
         OutsideStep(t) \/ QuietStep(t) \/ EnterStep(t)
           \/ LifecycleStep(t) \/ Server!Stream(t) \/ Server!Token(t) \/ Server!Release(t)
  PROVE  LockInv'
<1> USE DEF Server!TypeOK, LockInv, Server!Critical
<1>1. CASE OutsideStep(t)
  BY <1>1, OutsideMoves
<1>2. CASE QuietStep(t)
  BY <1>2, QuietMoves
<1>3. CASE EnterStep(t)
  BY <1>3, EnterMoves, ServerAssumed
<1>4. CASE LifecycleStep(t)
  BY <1>4, LifecycleMoves
<1>5. CASE Server!Stream(t) \/ Server!Token(t)
  BY <1>5 DEF Server!Stream, Server!Token, Server!Goto
<1>6. CASE Server!Release(t)
  BY <1>6, ServerAssumed DEF Server!Release, Server!Goto
<1> QED
  BY <1>1, <1>2, <1>3, <1>4, <1>5, <1>6

LEMMA CancelStep ==
  ASSUME Server!TypeOK, LockInv, CancelInv, NEW t \in Thread,
         OutsideStep(t) \/ QuietStep(t) \/ EnterStep(t)
           \/ LifecycleStep(t) \/ Server!Stream(t) \/ Server!Token(t) \/ Server!Release(t)
  PROVE  CancelInv'
<1> USE DEF Server!TypeOK, CancelInv
<1>1. CASE Server!CancelSet(t)
  BY <1>1 DEF Server!CancelSet, Server!Goto, LockInv, Server!Critical
<1>2. CASE OutsideStep(t) /\ ~Server!CancelSet(t)
  <2>1. UNCHANGED <<cancel_event, asked>>
    BY <1>2 DEF OutsideStep, Server!Chat, Server!Check, Server!Encode, Server!Guard, Server!Refuse,
                Server!Mutation, Server!Cancel, Server!CancelReply
  <2> QED
    BY <1>2, <2>1, OutsideMoves DEF Server!Control, Server!Critical
<1>3. CASE Server!Clear(t)
  BY <1>3 DEF Server!Clear, Server!Goto
<1>4. CASE QuietStep(t) /\ ~Server!Clear(t)
  BY <1>4 DEF QuietStep, Server!Cancelled, Server!Maintain, Server!Reply, Server!Goto
<1>5. CASE EnterStep(t)
  BY <1>5, EnterMoves
<1>6. CASE LifecycleStep(t)
  BY <1>6, LifecycleMoves
<1>7. CASE Server!Stream(t) \/ Server!Token(t) \/ Server!Release(t)
  BY <1>7 DEF Server!Stream, Server!Token, Server!Release, Server!Goto
<1> QED
  BY <1>1, <1>2, <1>3, <1>4, <1>5, <1>6, <1>7

LEMMA RegistryStep ==
  ASSUME Server!TypeOK, GoingInv, LockInv, RegistryInv, NEW t \in Thread,
         OutsideStep(t) \/ QuietStep(t) \/ EnterStep(t)
           \/ LifecycleStep(t) \/ Server!Stream(t) \/ Server!Token(t) \/ Server!Release(t)
  PROVE  RegistryInv'
<1> DEFINE Busy == {"forget", "load", "adopt", "context", "register"}
\* While a thread is in the critical section no other one is.
<1>1. \A u \in Thread : server_pc[t] \in Server!Critical /\ server_pc[u] \in Server!Critical => u = t
  BY DEF LockInv
<1>2. CASE UNCHANGED <<Server!stateVars, want, gen>>
             /\ \E next \in Server!Control \ (Busy \cup {"gen"}) : server_pc' = [server_pc EXCEPT ![t] = next]
             /\ server_pc[t] \notin Busy
  BY <1>2 DEF Server!TypeOK, RegistryInv, Settled, NoneLoaded, Changing, Server!stateVars
<1>3. CASE OutsideStep(t)
  BY <1>2, <1>3, OutsideMoves DEF Server!Control, Server!Critical
<1>4. CASE QuietStep(t)
  BY <1>2, <1>4, QuietMoves DEF Server!Control, Server!Critical, Server!reqVars
<1>5. CASE EnterStep(t)
  BY <1>5, EnterMoves DEF Server!TypeOK, RegistryInv, Settled, NoneLoaded, Changing,
                          Server!stateVars
<1>6. CASE LifecycleStep(t)
  <2>1. /\ server_pc[t] \in Server!Critical
        /\ \A u \in Thread \ {t} : server_pc[u] \notin Server!Critical /\ server_pc'[u] = server_pc[u]
        /\ want' = want /\ gen' = gen
    BY <1>1, <1>6, LifecycleMoves DEF Server!TypeOK, Server!Critical, Server!reqVars
  <2>2. /\ \A u \in Thread \ {t} : Changing(u)' /\ server_pc'[u] # "gen"
        /\ server_pc'[t] # "gen"
    BY <1>6, <2>1, LifecycleMoves DEF Server!TypeOK, Changing, Server!Critical
  <2>3. server_pc[t] \notin Busy => Settled
    BY <2>1 DEF RegistryInv, Server!Critical
  <2>4. Changing(t)
    BY DEF RegistryInv
  <2>5. Changing(t)' /\ (server_pc'[t] \notin Busy => Settled')
    <3>1. CASE Server!Unload(t)
      BY <2>3, <3>1 DEF Server!Unload, Server!Goto, Server!TypeOK, Changing, Settled, NoneLoaded,
                        Server!reqVars
    <3>2. CASE Server!Forget(t)
      BY <2>4, <3>2 DEF Server!Forget, Server!Goto, Server!TypeOK, Changing, Settled, NoneLoaded,
                        Server!reqVars
    <3>3. CASE Server!Load(t)
      BY <2>4, <3>3, ServerAssumed DEF Server!Load, Server!Goto, Server!TypeOK, Changing, Settled,
                                       NoneLoaded, Server!reqVars
    <3>4. CASE Server!Adopt(t)
      BY <2>4, <3>4 DEF Server!Adopt, Server!Goto, Server!TypeOK, GoingInv, Changing, Settled,
                        NoneLoaded, Server!reqVars
    <3>5. CASE Server!AdoptContext(t)
      BY <2>4, <3>5 DEF Server!AdoptContext, Server!Goto, Server!TypeOK, Changing, Settled,
                        NoneLoaded, Server!reqVars
    <3>6. CASE Server!Register(t)
      BY <2>4, <3>6 DEF Server!Register, Server!Goto, Server!TypeOK, GoingInv, Changing, Settled,
                        NoneLoaded, Server!reqVars
    <3> QED
      BY <1>6, <3>1, <3>2, <3>3, <3>4, <3>5, <3>6 DEF LifecycleStep
  <2> QED
    BY <2>2, <2>5 DEF RegistryInv
<1>7. CASE Server!Stream(t)
  BY <1>1, <1>7 DEF Server!Stream, Server!Goto, Server!TypeOK, RegistryInv, Settled, NoneLoaded,
                    Changing, Server!Critical, Server!stateVars
<1>8. CASE Server!Token(t)
  BY <1>1, <1>8 DEF Server!Token, Server!Goto, Server!TypeOK, RegistryInv, Settled, NoneLoaded,
                    Changing, Server!Critical, Server!stateVars
<1>9. CASE Server!Release(t)
  BY <1>1, <1>9 DEF Server!Release, Server!Goto, Server!TypeOK, RegistryInv, Settled, NoneLoaded,
                    Changing, Server!Critical, Server!stateVars
<1> QED
  BY <1>3, <1>4, <1>5, <1>6, <1>7, <1>8, <1>9

-----------------------------------------------------------------------------
(* The theorems. *)

LEMMA ServerStart == Server!Init => ServerInv
<1> SUFFICES ASSUME Server!Init PROVE ServerInv
  OBVIOUS
<1>1. Server!TypeOK
  <2>1. /\ {model, tok, max_context} \subseteq Model \cup {NoModel}
        /\ status \in [Model -> {"available", "loading", "loaded", "error"}]
    BY DEF Server!Init
  <2>2. server_pc \in [Thread -> Server!Control]
    BY DEF Server!Init, Server!Control
  <2>3. passed \in [Thread -> 0..MaxNew]
    BY ServerAssumed DEF Server!Init
  <2> QED
    BY <2>1, <2>2, <2>3 DEF Server!Init, Server!TypeOK
<1>2. GoingInv
  BY DEF Server!Init, GoingInv
<1>3. LockInv /\ CancelInv
  BY ServerAssumed DEF Server!Init, LockInv, CancelInv, Server!Critical
<1>4. RegistryInv
  BY DEF Server!Init, RegistryInv, Settled, NoneLoaded, Changing
<1> QED
  BY <1>1, <1>2, <1>3, <1>4 DEF ServerInv

LEMMA ServerNext == ServerInv /\ [Server!Next]_server_vars => ServerInv'
<1> SUFFICES ASSUME ServerInv, [Server!Next]_server_vars PROVE ServerInv'
  OBVIOUS
<1>1. CASE Server!Next
  <2>1. PICK t \in Thread : \/ OutsideStep(t) \/ QuietStep(t) \/ EnterStep(t)
                            \/ LifecycleStep(t) \/ Server!Stream(t) \/ Server!Token(t) \/ Server!Release(t)
    BY <1>1, RequestSteps
  <2> QED
    BY <2>1, ShapeStep, LockStep, CancelStep, RegistryStep DEF ServerInv
<1>2. CASE UNCHANGED server_vars
  BY <1>2 DEF ServerInv, Server!TypeOK, GoingInv, LockInv, CancelInv, RegistryInv, Settled,
              NoneLoaded, Changing,
              server_vars, Server!stateVars, Server!reqVars
<1> QED
  BY <1>1, <1>2

LEMMA ServerSpec == MCSpec => Server!Init /\ [][Server!Next]_server_vars
<1>1. MCInit => Server!Init
  BY DEF MCInit
<1>2. [MCNext]_all_vars => [Server!Next]_server_vars
  BY DEF MCNext, all_vars, server_vars
<1> QED
  BY <1>1, <1>2, PTL DEF MCSpec

LEMMA ServerInvariant == MCSpec => []ServerInv
  BY ServerStart, ServerNext, ServerSpec, PTL

\* Whatever the threads do, the server's state keeps its shape, and no generation
\* passes on more than max_tokens tokens.
THEOREM ServerKeepsShape == MCSpec => []Server!TypeOK
<1>1. ServerInv => Server!TypeOK
  BY DEF ServerInv
<1> QED
  BY <1>1, ServerInvariant, PTL

\* Mutual exclusion by a lock that is never waited for: only its holder uses or
\* changes the model, and the model of a generation stays loaded until it ends.
THEOREM ModelStaysMine == MCSpec => []ModelIsMine
<1>1. ServerInv => ModelIsMine
  <2> SUFFICES ASSUME ServerInv, NEW t \in Thread
               PROVE  /\ server_pc[t] \in Server!Critical => gen_lock = t
                      /\ server_pc[t] = "gen" => /\ gen[t] # NoModel /\ gen[t] = model /\ tok = model
                                          /\ status[model] = "loaded"
    BY DEF ModelIsMine, Server!ModelIsMine
  <2>1. server_pc[t] \in Server!Critical => gen_lock = t
    BY DEF ServerInv, LockInv
  <2>2. ASSUME server_pc[t] = "gen"
        PROVE  gen[t] # NoModel /\ gen[t] = model /\ Settled
    <3>1. \A u \in Thread : server_pc[u] \in Server!Critical => u = t
      BY <2>2 DEF ServerInv, LockInv, Server!Critical
    <3> QED
      BY <2>2, <3>1 DEF ServerInv, RegistryInv, Server!Critical
  <2> QED
    BY <2>1, <2>2 DEF Settled
<1> QED
  BY <1>1, ServerInvariant, PTL

\* Loads that fail half way included, the registry tells which model is loaded
\* whenever nobody holds the lock.
THEOREM RegistryStaysTrue == MCSpec => []RegistryTellsLoaded
<1>1. ServerInv => RegistryTellsLoaded
  <2> SUFFICES ASSUME ServerInv, gen_lock = NoThread
               PROVE  /\ tok = model /\ max_context = model
                      /\ \A m \in Model : /\ status[m] = "loaded" <=> m = model
                                          /\ status[m] # "loading"
    BY DEF RegistryTellsLoaded, Server!RegistryTellsLoaded
  <2>1. Settled
    BY ServerAssumed DEF ServerInv, LockInv, RegistryInv, Server!Critical
  <2> QED
    BY <2>1, ServerAssumed DEF Settled, NoneLoaded, ServerInv, Server!TypeOK
<1> QED
  BY <1>1, ServerInvariant, PTL

\* A generation that a cancellation ends was under way when it came.
THEOREM CancelsOnlyAsked == MCSpec => CancelledWasAsked
<1>1. ServerInv => \A t \in Thread : Server!Cancelled(t) => t \in asked
  BY DEF ServerInv, CancelInv, Server!Cancelled
<1>2. ServerInv /\ [Server!Next]_server_vars =>
        [\A t \in Thread : Server!Cancelled(t) => t \in asked]_(Server!vars)
  BY <1>1 DEF Server!vars, Server!stateVars, Server!reqVars, server_vars
<1> QED
  BY <1>2, ServerInvariant, ServerSpec, PTL
     DEF CancelledWasAsked, Server!CancelledWasAsked
=============================================================================
