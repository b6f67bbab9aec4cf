--------------------------- MODULE CellTaskServer ---------------------------
(***************************************************************************)
(* CellTaskServer: producers push tasks on _tasksBuf, one worker moves     *)
(* them to _tasks and runs them.  The log (CELLLog) and the send server of *)
(* every CellServer are such objects.  The worker's thread is a            *)
(* WorkThread.                                                             *)
(*                                                                         *)
(* AddTask and the move to _tasks hold _mutex and are one step each.  The  *)
(* test of _tasksBuf before the move, and the whole of the drain when the  *)
(* worker leaves, do not: every access there is a step of its own.         *)
(*                                                                         *)
(* A task is the number of the AddTask that brought it: 1, 2, 3 ...        *)
(***************************************************************************)
EXTENDS WorkThread, Integers, Sequences, SequencesExt

CONSTANT MaxTasks  \* bound: how many tasks are ever added
ASSUME MaxTasksAssumption == MaxTasks \in Nat \ {0}

VARIABLES
  tasksBuf,  \* _tasksBuf
  tasks,     \* _tasks
  next,      \* position of the iterator of the loop the worker is in
  workPc,    \* where the worker is in OnRun
  added,     \* history: how many tasks AddTask has taken
  promised,  \* history: added, when Close was called
  executed   \* history: the tasks that have been run, in order

taskVars == <<tasksBuf, tasks, next, workPc, added, promised, executed>>
vars     == <<taskVars, threadVars>>

TaskIds == 1..MaxTasks
Leaving == {"drain", "clear", "done"}
WorkPc  == {"none", "loop", "check", "move", "scan", "exec"} \cup Leaving

TypeOK ==
  /\ ThreadTypeOK
  /\ tasksBuf \in Seq(TaskIds)
  /\ tasks \in Seq(TaskIds)
  /\ next \in 1..(MaxTasks + 1)
  /\ workPc \in WorkPc
  /\ added \in 0..MaxTasks
  /\ promised \in 0..MaxTasks
  /\ executed \in Seq(TaskIds) /\ Len(executed) <= added

Init ==
  /\ ThreadInit
  /\ tasksBuf = <<>> /\ tasks = <<>> /\ next = 1 /\ workPc = "none"
  /\ added = 0 /\ promised = 0 /\ executed = <<>>

Goes(from, to) == workPc = from /\ workPc' = to

-----------------------------------------------------------------------------
(* The threads that use the object.                                        *)

AddTask ==
  /\ added < MaxTasks
  /\ tasksBuf' = Append(tasksBuf, added + 1)
  /\ added' = added + 1
  /\ UNCHANGED <<tasks, next, workPc, promised, executed, threadVars>>

Start ==
  /\ Launch
  /\ Goes("none", "loop")
  /\ UNCHANGED <<tasksBuf, tasks, next, added, promised, executed>>

\* Close() stops the thread ...
Close ==
  /\ AskToStop
  /\ promised' = added
  /\ UNCHANGED <<tasksBuf, tasks, next, workPc, added, executed>>

\* ... and returns when the worker has left OnRun.
CloseEnds ==
  /\ ReturnFromClose
  /\ UNCHANGED taskVars

-----------------------------------------------------------------------------
(* The worker, OnRun.                                                      *)

\* while (pThread->IsRun())
LoopTest ==
  /\ workPc = "loop"
  /\ workPc' = IF IsRun THEN "check" ELSE "drain"
  /\ next' = 1
  /\ UNCHANGED <<tasksBuf, tasks, added, promised, executed, threadVars>>

\* if (!_tasksBuf.empty()), without _mutex
CheckBuf ==
  /\ workPc = "check"
  /\ workPc' = IF tasksBuf # <<>> THEN "move" ELSE "scan"
  /\ UNCHANGED <<tasksBuf, tasks, next, added, promised, executed, threadVars>>

\* Mutant: the move reads _tasksBuf but forgets to clear it.
MoveNoClear ==
  /\ Goes("move", "scan")
  /\ tasks' = tasks \o tasksBuf
  /\ UNCHANGED <<tasksBuf, next, added, promised, executed, threadVars>>

\* Mutant: the move drops what it finds when it comes to the lock.
MoveReplaces ==
  /\ Goes("move", "scan")
  /\ tasks' = <<Head(tasksBuf)>>
  /\ tasksBuf' = <<>>
  /\ UNCHANGED <<next, added, promised, executed, threadVars>>

MoveTasks ==
  /\ Goes("move", "scan")
  /\ tasks' = tasks \o tasksBuf
  /\ tasksBuf' = <<>>
  /\ UNCHANGED <<next, added, promised, executed, threadVars>>

\* if (_tasks.empty()) the worker sleeps and goes back to the loop's test
ScanTasks ==
  /\ workPc = "scan"
  /\ workPc' = IF tasks = <<>> THEN "loop" ELSE "exec"
  /\ UNCHANGED <<tasksBuf, tasks, next, added, promised, executed, threadVars>>

RunTask(list) ==
  /\ next <= Len(list)
  /\ executed' = Append(executed, list[next])
  /\ next' = next + 1

ExecTask ==
  /\ workPc = "exec"
  /\ RunTask(tasks)
  /\ UNCHANGED <<tasksBuf, tasks, workPc, added, promised, threadVars>>

\* Mutant: the round ends without _tasks.clear().
ExecEndsNoClear ==
  /\ Goes("exec", "loop")
  /\ next > Len(tasks)
  /\ UNCHANGED <<tasks, tasksBuf, next, added, promised, executed, threadVars>>

ExecEnds ==
  /\ Goes("exec", "loop")
  /\ next > Len(tasks)
  /\ tasks' = <<>>
  /\ UNCHANGED <<tasksBuf, next, added, promised, executed, threadVars>>

\* The worker leaves: it runs what is still in _tasksBuf, without _mutex ...
DrainTask ==
  /\ workPc = "drain"
  /\ RunTask(tasksBuf)
  /\ UNCHANGED <<tasksBuf, tasks, workPc, added, promised, threadVars>>

\* Mutant: OnRun without the last loop over _tasksBuf.
DrainSkipped ==
  /\ Goes("drain", "clear")
  /\ UNCHANGED <<tasksBuf, tasks, next, added, promised, executed, threadVars>>

DrainEnds ==
  /\ Goes("drain", "clear")
  /\ next > Len(tasksBuf)
  /\ UNCHANGED <<tasksBuf, tasks, next, added, promised, executed, threadVars>>

\* ... and clears it, also without _mutex, and OnRun ends.
DrainClear ==
  /\ Goes("clear", "done")
  /\ LeaveCallbacks
  /\ tasksBuf' = <<>>
  /\ UNCHANGED <<tasks, next, added, promised, executed>>

OnRun ==
  \/ LoopTest \/ CheckBuf  \/ MoveTasks \/ ScanTasks \/ ExecTask
  \/ ExecEnds \/ DrainTask \/ DrainEnds \/ DrainClear

-----------------------------------------------------------------------------
Next == AddTask \/ Start \/ Close \/ CloseEnds \/ OnRun

Spec == Init /\ [][Next]_vars

-----------------------------------------------------------------------------
(* Properties.                                                             *)

\* The tasks accepted and neither run nor dropped, the oldest first.
Rest(list) == SubSeq(list, next, Len(list))
Pending ==
  CASE workPc = "exec"             -> Rest(tasks) \o tasksBuf
    [] workPc \in {"drain", "clear"} -> Rest(tasksBuf)
    [] OTHER                       -> tasks \o tasksBuf

\* The object is a first-in first-out queue in front of one thread that runs
\* every task once, and drops only what was added after Close was called.
Queue == INSTANCE TaskQueue WITH pending <- Pending, open <- stage \in {"new", "running"}
ImplementsTaskQueue == Queue!Spec

=============================================================================
