----------------------------- MODULE CPUThreads -----------------------------
(***************************************************************************)
(* The threads of the CPU device, tinygrad/runtime/ops_cpu.py: a worker that *)
(* takes tasks (lists of commands) from a queue, a pool of threads that each *)
(* run a share of a command, and the host, which waits for a value of the    *)
(* timeline.  HCQDevice takes a task as a start and a finish; this is what   *)
(* lies in between.                                                          *)
(*                                                                         *)
(* A queue keeps an entry until task_done, so that it is empty exactly when  *)
(* its join returns.                                                         *)
(***************************************************************************)
EXTENDS Integers, FiniteSetsExt, SequencesExt

CONSTANTS
  Threads,   \* what a command's threads may be
  MayRaise,  \* whether the worker's share of a command may raise
  MaxTasks   \* bound on the number of tasks

CPUAssumption ==
  Threads \subseteq Nat \ {0} /\ MayRaise \in BOOLEAN /\ MaxTasks \in Nat

VARIABLES
  tasks,     \* the worker's queue
  commands,  \* what is left of the task it is in
  worker,    \* "get", "next", "run" (its share), "join" (the others)
  pool,      \* the queue of each thread of the pool, of command numbers
  busy,      \* the threads of the pool that run the head of their queue
  signal,    \* the value of the timeline signal
  timeline_value, error_state,
  host,      \* "idle", "wait", "sleep", "returned"
  target     \* the value the host waits for

worker_vars == <<tasks, commands, worker>>
pool_vars == <<pool, busy>>
host_vars == <<timeline_value, host, target>>
vars == <<worker_vars, pool_vars, signal, error_state, host_vars>>

PoolThread == 0..(Max(Threads) - 2)

Init ==
  /\ tasks = <<>> /\ commands = <<>> /\ worker = "get"
  /\ pool = [th \in PoolThread |-> <<>>] /\ busy = {}
  /\ signal = 0 /\ timeline_value = 1 /\ error_state = FALSE
  /\ host = "idle" /\ target = 0

-----------------------------------------------------------------------------
Command(op, i, threads, val) == [op |-> op, id |-> <<timeline_value, i>>, threads |-> threads, value |-> val]

\* A wait for the value before, kernels on these numbers of threads, and the signal.
Task(threads) ==
  <<Command("wait", 0, 1, timeline_value - 1)>>
    \o [i \in DOMAIN threads |-> Command("kernel", i, threads[i], timeline_value)]
    \o <<Command("signal", Len(threads) + 1, 1, timeline_value)>>

Submit(threads) ==
  /\ host = "idle" /\ timeline_value <= MaxTasks
  /\ tasks' = Append(tasks, Task(threads)) /\ timeline_value' = timeline_value + 1
  /\ UNCHANGED <<commands, worker, pool_vars, signal, error_state, host, target>>

\* synchronize, which raises when error_state is set.
Synchronize ==
  /\ host = "idle" /\ ~error_state
  /\ host' = "wait" /\ target' = timeline_value - 1
  /\ UNCHANGED <<worker_vars, pool_vars, signal, error_state, timeline_value>>

Wait ==
  /\ host = "wait" /\ host' = (IF signal >= target THEN "returned" ELSE "sleep")
  /\ UNCHANGED <<worker_vars, pool_vars, signal, error_state, timeline_value, target>>

\* _sleep: tasks.join, then the error is looked at.
Sleep ==
  /\ host = "sleep" /\ tasks = <<>>
  /\ host' = (IF error_state THEN "idle" ELSE "wait")
  /\ UNCHANGED <<worker_vars, pool_vars, signal, error_state, timeline_value, target>>

GoOn ==
  /\ host = "returned" /\ host' = "idle"
  /\ UNCHANGED <<worker_vars, pool_vars, signal, error_state, timeline_value, target>>

-----------------------------------------------------------------------------
Take ==
  /\ worker = "get" /\ tasks # <<>>
  /\ commands' = Head(tasks) /\ worker' = "next"
  /\ UNCHANGED <<tasks, pool_vars, signal, error_state, host_vars>>

Others(command) == 0..(command.threads - 2)

\* push_task for every other thread of the command.
Push ==
  /\ worker = "next" /\ commands # <<>>
  /\ pool' = [th \in PoolThread |->
               IF th \in Others(Head(commands)) THEN Append(pool[th], Head(commands).id) ELSE pool[th]]
  /\ worker' = "run"
  /\ UNCHANGED <<tasks, commands, busy, signal, error_state, host_vars>>

Run ==
  /\ worker = "run" /\ worker' = "join"
  /\ Head(commands).op = "wait" => signal >= Head(commands).value
  /\ signal' = IF Head(commands).op = "signal" THEN Head(commands).value ELSE signal
  /\ UNCHANGED <<tasks, commands, pool_vars, error_state, host_vars>>

JoinedMutant(command) == TRUE
\* The pool threads of a command have ended their shares.
Joined(command) == \A th \in Others(command) : pool[th] = <<>>

Join ==
  /\ worker = "join" /\ Joined(Head(commands))
  /\ commands' = Tail(commands) /\ worker' = "next"
  /\ UNCHANGED <<tasks, pool_vars, signal, error_state, host_vars>>

TaskDone ==
  /\ worker = "next" /\ commands = <<>>
  /\ tasks' = Tail(tasks) /\ worker' = "get"
  /\ UNCHANGED <<commands, pool_vars, signal, error_state, host_vars>>

RaisedMutant == tasks
\* task_done is called for a task that raised, too.
Raised == Tail(tasks)

\* A kernel raises, or a wait for a signal that was dropped, when it runs out of time: the
\* rest of the task is dropped.
Raise ==
  /\ worker = "run"
  /\ \/ MayRaise /\ Head(commands).op = "kernel"
     \/ Head(commands).op = "wait" /\ signal < Head(commands).value
  /\ error_state' = TRUE /\ tasks' = Raised /\ commands' = <<>> /\ worker' = "get"
  /\ UNCHANGED <<pool_vars, signal, host_vars>>

PoolTake(th) ==
  /\ th \notin busy /\ pool[th] # <<>> /\ busy' = busy \cup {th}
  /\ UNCHANGED <<worker_vars, pool, signal, error_state, host_vars>>

\* A thread ends its share, or raises: its error is stored on the worker, not the device.
PoolDone(th) ==
  /\ th \in busy /\ busy' = busy \ {th} /\ pool' = [pool EXCEPT ![th] = Tail(@)]
  /\ UNCHANGED <<worker_vars, signal, error_state, host_vars>>

Worker == Take \/ Push \/ Run \/ Join \/ TaskDone \/ Raise
PoolRuns(th) == PoolTake(th) \/ PoolDone(th)
Host == Wait \/ Sleep \/ GoOn

Next ==
  \/ \E threads \in BoundedSeq(Threads, 2) \ {<<>>} : Submit(threads)
  \/ Synchronize \/ Host \/ Worker
  \/ \E th \in PoolThread : PoolRuns(th)

\* All threads run, and every share ends or raises.
FairSpec ==
  /\ Init /\ [][Next]_vars
  /\ WF_vars(Host) /\ WF_vars(Worker) /\ \A th \in PoolThread : WF_vars(PoolRuns(th))

-----------------------------------------------------------------------------
\* Commands that were not begun or not ended: of the worker's task and of later ones.
Left == Range(commands) \cup UNION {Range(t) : t \in Range(IF worker = "get" THEN tasks ELSE Tail(tasks))}

\* Shares of two kernels never run together, nor a share before its kernel: the worker
\* joins the pool between commands (ops_cpu.py:37-39), and after a share that raised the
\* next task does not get past its wait.
OneKernelAtATime ==
  \A th \in PoolThread : \A id \in Range(pool[th]) :
    /\ commands # <<>> /\ Head(commands).op = "kernel" => Head(commands).id = id
    /\ \A c \in Left : c.op = "kernel" => c.id[1] > id[1] \/ (c.id[1] = id[1] /\ c.id[2] >= id[2])

\* A value of the signal means that every share of every kernel up to it has ended, also
\* after tasks that raised; what waits for the value may use their results (ops_cpu.py:48).
SignalIsTrue ==
  /\ \A c \in Left : c.op = "kernel" => c.value > signal
  /\ \A th \in PoolThread : \A id \in Range(pool[th]) : id[1] > signal

\* A synchronize ends, also when tasks raise and drop their signals (ops_cpu.py:14-17, 41).
SyncEnds == (host # "idle") ~> (host = "idle")
=============================================================================
