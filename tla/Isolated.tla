------------------------------ MODULE Isolated ------------------------------
(***************************************************************************)
(* run_isolated of tinygrad/runtime/process_isolated.py: a parent that polls *)
(* a queue for the row of its child until a deadline, and then judges or     *)
(* stops the child.  The row goes through a pipe that holds less than it, in *)
(* pieces, written by a thread of the child.  The child may raise, exit      *)
(* without a row, die, or hang in its callback or while it ends; it may      *)
(* start a helper, which is in its process group.                            *)
(***************************************************************************)
EXTENDS Naturals

CONSTANTS
  Lengths,     \* of rows, in pieces
  PipeSize,    \* pieces the pipe holds
  DiesWriting, \* whether the child may die when only a part of the row is written
  Helpers,     \* whether the callback may start a helper
  MayIgnore    \* the processes that may ignore SIGTERM

IsolatedAssumption ==
  /\ Lengths \subseteq Nat \ {0} /\ PipeSize \in Nat \ {0}
  /\ DiesWriting \in BOOLEAN /\ Helpers \in BOOLEAN /\ MayIgnore \subseteq {"child", "helper"}

VARIABLES
  parent,    \* where run_isolated is
  expired,   \* whether the deadline has passed
  row,       \* the status in the row the parent has, or "none"
  verdict,   \* the status it returns, or "none"
  state,     \* of the child and of the helper
  leader,    \* whether the child has called setsid
  said,      \* the status in the row the child has put
  length,    \* of that row, or 0
  sent, received,  \* how much of it
  code,      \* the child's exit code
  signalled, \* the signal each process has been sent
  ignores    \* the processes that ignore SIGTERM

vars == <<parent, expired, row, verdict, state, leader, said, length, sent, received, code, signalled, ignores>>
mine == <<parent, row, verdict>>
theirs == <<leader, said, length, ignores>>

Process == {"child", "helper"}
Alive == state["child"] # "gone"

Init ==
  /\ parent = "loop" /\ expired = FALSE /\ row = "none" /\ verdict = "none"
  /\ state = [child |-> "starting", helper |-> "none"] /\ leader = FALSE
  /\ said = "none" /\ length = 0 /\ sent = 0 /\ received = 0 /\ code = "none"
  /\ signalled = [p \in Process |-> "none"] /\ ignores \in SUBSET MayIgnore

-----------------------------------------------------------------------------
\* _child
Setsid ==
  /\ state["child"] = "starting"
  /\ state' = [state EXCEPT !["child"] = "running"] /\ leader' = TRUE
  /\ UNCHANGED <<mine, expired, said, length, sent, received, code, signalled, ignores>>

StartHelper ==
  /\ Helpers /\ state["child"] = "running" /\ state["helper"] = "none"
  /\ state' = [state EXCEPT !["helper"] = "running"]
  /\ UNCHANGED <<mine, expired, theirs, sent, received, code, signalled>>

\* The callback returns or raises, and its row is put into the queue.
Put ==
  /\ state["child"] = "running"
  /\ said' \in {"passed", "failed"} /\ length' \in Lengths
  /\ state' = [state EXCEPT !["child"] = "writing"]
  /\ UNCHANGED <<mine, expired, leader, sent, received, code, signalled, ignores>>

\* The thread behind the queue cannot serialize the row and drops it.
PutFails ==
  /\ state["child"] = "running"
  /\ state' = [state EXCEPT !["child"] = "ending"]
  /\ UNCHANGED <<mine, expired, theirs, sent, received, code, signalled>>

\* The thread behind the queue writes another piece.
Feed ==
  /\ state["child"] = "writing" /\ sent - received < PipeSize
  /\ sent' = sent + 1
  /\ state' = [state EXCEPT !["child"] = IF sent' = length THEN "ending" ELSE "writing"]
  /\ UNCHANGED <<mine, expired, theirs, received, code, signalled>>

\* The child exits: at its end, or from inside the callback.
Exit ==
  /\ state["child"] \in {"running", "ending"}
  /\ state' = [state EXCEPT !["child"] = "gone"] /\ code' = "zero"
  /\ UNCHANGED <<mine, expired, theirs, sent, received, signalled>>

Die ==
  /\ Alive /\ (DiesWriting \/ sent \in {0, length})
  /\ state' = [state EXCEPT !["child"] = "gone"] /\ code' = "killed"
  /\ UNCHANGED <<mine, expired, theirs, sent, received, signalled>>

Doomed(p) == signalled[p] = "kill" \/ (signalled[p] = "term" /\ p \notin ignores)

\* A signal takes effect.
Deliver(p) ==
  /\ state[p] \notin {"none", "gone"} /\ Doomed(p)
  /\ state' = [state EXCEPT ![p] = "gone"]
  /\ code' = IF p = "child" THEN "killed" ELSE code
  /\ UNCHANGED <<mine, expired, theirs, sent, received, signalled>>

Expire == ~expired /\ expired' = TRUE /\ UNCHANGED <<mine, state, theirs, sent, received, code, signalled>>

-----------------------------------------------------------------------------
Others == UNCHANGED <<expired, state, theirs, sent, code>>

\* The loop: poll the queue for a moment, until the deadline.
Loop ==
  /\ parent = "loop" /\ parent' = (IF expired THEN "judge" ELSE "get")
  /\ Others /\ UNCHANGED <<row, verdict, received, signalled>>

Get ==
  /\ parent = "get" /\ parent' = (IF sent > 0 THEN "receive" ELSE "empty")
  /\ Others /\ UNCHANGED <<row, verdict, received, signalled>>

EmptyGet ==
  /\ parent = "empty" /\ parent' = (IF Alive THEN "loop" ELSE "judge")
  /\ Others /\ UNCHANGED <<row, verdict, received, signalled>>

\* Queue.get reads the whole row once there is something to read, with no deadline.
Receive ==
  /\ parent \in {"receive", "receive_late"} /\ received < sent
  /\ received' = received + 1
  /\ row' = IF received' = length THEN said ELSE row
  /\ parent' = IF received' < length THEN parent ELSE IF parent = "receive" THEN "join" ELSE "verdict"
  /\ Others /\ UNCHANGED <<verdict, signalled>>

Join ==
  /\ parent = "join" /\ (expired \/ ~Alive) /\ parent' = "judge"
  /\ Others /\ UNCHANGED <<row, verdict, received, signalled>>

\* Where a parent goes that finds its child gone and has no row.
NoRow == "late"

Judge ==
  /\ parent = "judge"
  /\ parent' = IF Alive THEN "term" ELSE IF row = "none" THEN NoRow ELSE "verdict"
  /\ Others /\ UNCHANGED <<row, verdict, received, signalled>>

\* A feeder may finish just after its process has exited.
Late ==
  /\ parent = "late"
  /\ \/ sent > 0 /\ parent' = "receive_late"
     \/ sent = 0 /\ expired /\ parent' = "verdict"
  /\ Others /\ UNCHANGED <<row, verdict, received, signalled>>

\* killpg, which finds no group before the child has called setsid
ToGroup(sig) == IF leader THEN [p \in Process |-> IF state[p] = "none" THEN "none" ELSE sig] ELSE signalled

\* _stop_group, up to each join.
Term ==
  /\ parent = "term" /\ signalled' = ToGroup("term") /\ parent' = "grace"
  /\ Others /\ UNCHANGED <<row, verdict, received>>

AfterTermMutant == parent' = "stopped" /\ UNCHANGED signalled
\* What follows the grace of a SIGTERM.
AfterTerm ==
  IF Alive THEN parent' = "killing" /\ signalled' = ToGroup("kill")
  ELSE parent' = "stopped" /\ UNCHANGED signalled

\* The join returns when the child is gone or the grace is over.
GraceEnds == TRUE

Grace ==
  /\ parent = "grace" /\ GraceEnds /\ AfterTerm
  /\ Others /\ UNCHANGED <<row, verdict, received>>

\* A process that was sent SIGKILL is gone before the grace is over.
Killing ==
  /\ parent = "killing" /\ (Alive => signalled["child"] # "kill")
  /\ parent' = (IF Alive THEN "last" ELSE "stopped")
  /\ signalled' = IF Alive THEN [signalled EXCEPT !["child"] = "kill"] ELSE signalled
  /\ Others /\ UNCHANGED <<row, verdict, received>>

Last ==
  /\ parent = "last" /\ ~Alive /\ parent' = "stopped"
  /\ Others /\ UNCHANGED <<row, verdict, received, signalled>>

Stopped ==
  /\ parent = "stopped" /\ verdict' = "timed_out" /\ parent' = "done"
  /\ Others /\ UNCHANGED <<row, received, signalled>>

JudgedMutant == IF row = "none" THEN "failed" ELSE row
\* The status of a child that is gone.
Judged == IF row = "none" \/ code # "zero" THEN "failed" ELSE row

Verdict ==
  /\ parent = "verdict" /\ verdict' = Judged /\ parent' = "done"
  /\ Others /\ UNCHANGED <<row, received, signalled>>

Parent ==
  \/ Loop \/ Get \/ EmptyGet \/ Receive \/ Join \/ Judge \/ Late \/ Verdict
  \/ Term \/ Grace \/ Killing \/ Last \/ Stopped

Next ==
  \/ Parent \/ Expire
  \/ Setsid \/ StartHelper \/ Put \/ PutFails \/ Feed \/ Exit \/ Die
  \/ \E p \in Process : Deliver(p)

\* The parent runs, time passes, signals arrive, and the thread that feeds the pipe goes
\* on; nothing makes the callback end.
Spec == Init /\ [][Next]_vars
FairSpec ==
  Spec /\ WF_vars(Parent) /\ WF_vars(Expire) /\ WF_vars(Feed) /\ \A p \in Process : WF_vars(Deliver(p))

-----------------------------------------------------------------------------
\* A verdict is never better or worse than what the child did: "passed" is the status of a
\* whole row of a child that then exited with 0, and no such row is missed because the
\* child was gone before the parent looked again (process_isolated.py:117-134).
VerdictIsTrue ==
  verdict \in {"passed", "failed"} =>
    (verdict = "passed" <=> code = "zero" /\ said = "passed" /\ sent = length)

\* No child outlives the call, however it ignores signals (_stop_group).
ChildIsGone == verdict # "none" => ~Alive

\* "hard deadline": the call returns whatever the child does (process_isolated.py:78).
Returns == <>(parent = "done")

\* "process group cleanup": after a timeout nothing of the child's group goes on running
\* (process_isolated.py:4 and 45).
GroupIsGone == verdict = "timed_out" => state["helper"] # "running" \/ Doomed("helper")
=============================================================================
