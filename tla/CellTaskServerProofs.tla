------------------------ MODULE CellTaskServerProofs ------------------------
(***************************************************************************)
(* Proofs about CellTaskServer: it implements TaskQueue.  Tasks are        *)
(* numbered as they come, so that their order in the two lists and in the  *)
(* history is a matter of arithmetic: what lies in _tasks follows what has *)
(* been run, and what lies in _tasksBuf follows what lies in _tasks.       *)
(***************************************************************************)
EXTENDS CellTaskServer, SequenceTheorems, TLAPS

InRound == {"loop", "check", "move", "scan", "exec"}

\* Where the worker is, and what its owner knows of it.
WorkerStage ==
  /\ workPc = "none" <=> stage = "new"
  /\ workPc \in InRound => stage \in {"running", "stopping"}
  /\ workPc \in {"drain", "clear"} => stage = "stopping"
  /\ workPc = "done" <=> stage = "ended"

\* How much of the list in hand has been run.
Walked == IF workPc \in {"exec", "drain", "clear"} THEN next - 1 ELSE 0

\* The iterator is in its list, and _tasks is empty outside of a round.
Position ==
  /\ Walked <= Len(executed)
  /\ workPc \in {"check", "move", "scan"} => next = 1
  /\ workPc \notin {"scan", "exec"} => tasks = <<>>
  /\ workPc = "exec" => next <= Len(tasks) + 1
  /\ workPc \in {"drain", "clear"} => next <= Len(tasksBuf) + 1

\* The number of the task before the first of those in the two lists.
Base == Len(executed) - Walked

\* What has been run, what is in _tasks and what is in _tasksBuf are numbered
\* without a gap, up to the last task added.
Numbered ==
  /\ \A i \in 1..Len(executed) : executed[i] = i
  /\ \A i \in 1..Len(tasks) : tasks[i] = Base + i
  /\ workPc # "done" =>
       /\ \A i \in 1..Len(tasksBuf) : tasksBuf[i] = Base + Len(tasks) + i
       /\ added = Base + Len(tasks) + Len(tasksBuf)

\* A worker that has drained the buffer has kept what Close was promised.
Kept ==
  /\ promised <= added
  /\ stage \in {"new", "running"} => promised = 0
  /\ workPc \in {"clear", "done"} => promised <= Len(executed)

IInv == TypeOK /\ WorkerStage /\ Position /\ Numbered /\ Kept

-----------------------------------------------------------------------------
(* Sequences.                                                              *)

LEMMA AppendToSecond ==
  ASSUME NEW S, NEW s \in Seq(S), NEW t \in Seq(S), NEW x \in S
  PROVE  s \o Append(t, x) = Append(s \o t, x)
<1>1. s \o Append(t, x) \in Seq(S) /\ Append(s \o t, x) \in Seq(S)
  OBVIOUS
<1>2. Len(s \o Append(t, x)) = Len(Append(s \o t, x))
  OBVIOUS
<1>3. \A i \in 1..Len(s \o Append(t, x)) : (s \o Append(t, x))[i] = Append(s \o t, x)[i]
  OBVIOUS
<1> QED
  BY <1>1, <1>2, <1>3, SeqEqual

LEMMA AppendToRest ==
  ASSUME NEW S, NEW s \in Seq(S), NEW x \in S, NEW n \in 1..(Len(s) + 1)
  PROVE  SubSeq(Append(s, x), n, Len(Append(s, x))) = Append(SubSeq(s, n, Len(s)), x)
<1> DEFINE l == SubSeq(Append(s, x), n, Len(Append(s, x)))
           r == Append(SubSeq(s, n, Len(s)), x)
<1>1. Append(s, x) \in Seq(S) /\ Len(Append(s, x)) = Len(s) + 1 /\ Len(s) \in Nat
  OBVIOUS
<1>2. /\ SubSeq(s, n, Len(s)) \in Seq(S)
      /\ Len(SubSeq(s, n, Len(s))) = Len(s) - n + 1
      /\ \A i \in 1..(Len(s) - n + 1) : SubSeq(s, n, Len(s))[i] = s[n + i - 1]
  <2>1. \A i \in n..Len(s) : s[i] \in S
    OBVIOUS
  <2> QED
    BY <2>1, <1>1, SubSeqProperties, Z3
<1>3. /\ l \in Seq(S)
      /\ Len(l) = Len(s) - n + 2
      /\ \A i \in 1..(Len(s) - n + 2) : l[i] = Append(s, x)[n + i - 1]
  <2>1. \A i \in n..(Len(s) + 1) : Append(s, x)[i] \in S
    OBVIOUS
  <2> QED
    BY <2>1, <1>1, SubSeqProperties, Z3
<1>4. r \in Seq(S) /\ Len(r) = Len(s) - n + 2
  BY <1>1, <1>2
<1>5. \A i \in 1..Len(l) : l[i] = r[i]
  BY <1>1, <1>2, <1>3
<1> HIDE DEF l, r
<1>6. l = r
  BY <1>3, <1>4, <1>5, SeqEqual
<1> QED
  BY <1>6 DEF l, r

LEMMA TailOfCons ==
  ASSUME NEW S, NEW x \in S, NEW u \in Seq(S)
  PROVE  Tail(<<x>> \o u) = u
<1> DEFINE c == <<x>> \o u
<1>1. c \in Seq(S) /\ Len(c) = 1 + Len(u) /\ \A i \in 1..Len(u) : c[i + 1] = u[i]
  OBVIOUS
<1>2. Tail(c) = SubSeq(c, 2, Len(c))
  <2>1. c # <<>>
    BY <1>1
  <2> QED
    BY <1>1, <2>1, TailIsSubSeq
<1> HIDE DEF c
<1>3. \A i \in 2..Len(c) : c[i] \in S
  BY <1>1
<1>4. /\ SubSeq(c, 2, Len(c)) \in Seq(S)
      /\ Len(SubSeq(c, 2, Len(c))) = Len(u)
      /\ \A i \in 1..Len(u) : SubSeq(c, 2, Len(c))[i] = c[i + 1]
  <2>1. Len(c) \in Int /\ Len(u) \in Nat
    BY <1>1
  <2> QED
    BY <1>1, <1>3, <2>1, SubSeqProperties, Z3
<1>5. Tail(c) = u
  BY <1>1, <1>2, <1>4, SeqEqual
<1> QED
  BY <1>5 DEF c

\* The rest of a list in front of another: its head, and what is left of it.
LEMMA RestHeadTail ==
  ASSUME NEW S, NEW s \in Seq(S), NEW t \in Seq(S), NEW n \in 1..Len(s)
  PROVE  /\ SubSeq(s, n, Len(s)) \o t # <<>>
         /\ Head(SubSeq(s, n, Len(s)) \o t) = s[n]
         /\ Tail(SubSeq(s, n, Len(s)) \o t) = SubSeq(s, n + 1, Len(s)) \o t
<1> DEFINE r == SubSeq(s, n, Len(s))
           q == SubSeq(s, n + 1, Len(s))
<1>1. r = <<s[n]>> \o q
  <2>1. Len(s) \in n..Len(s)
    OBVIOUS
  <2> QED
    BY <2>1, SubSeqRecursiveFirst
<1>2. q \in Seq(S) /\ s[n] \in S
  OBVIOUS
<1> HIDE DEF r, q
<1>3. r \o t = <<s[n]>> \o (q \o t)
  BY <1>1, <1>2, ConcatAssociative
<1>4. q \o t \in Seq(S)
  BY <1>2
<1>5. r \o t # <<>> /\ Head(r \o t) = s[n]
  BY <1>2, <1>3, <1>4
<1>6. Tail(r \o t) = q \o t
  BY <1>2, <1>3, <1>4, TailOfCons
<1> QED
  BY <1>5, <1>6 DEF r, q

-----------------------------------------------------------------------------
(* Type correctness and the numbering of the tasks.                        *)

LEMMA InitIInv == Init => IInv
<1> SUFFICES ASSUME Init PROVE IInv
  OBVIOUS
<1> USE MaxTasksAssumption DEF Init, ThreadInit
<1>1. TypeOK
  <2>1. tasksBuf \in Seq(TaskIds) /\ tasks \in Seq(TaskIds) /\ executed \in Seq(TaskIds)
    OBVIOUS
  <2>2. Len(executed) <= added
    OBVIOUS
  <2>3. next \in 1..(MaxTasks + 1) /\ added \in 0..MaxTasks /\ promised \in 0..MaxTasks
    OBVIOUS
  <2> QED
    BY <2>1, <2>2, <2>3 DEF TypeOK, ThreadTypeOK, WorkPc
<1>2. WorkerStage
  BY DEF WorkerStage, InRound
<1>3. Walked = 0 /\ Base = 0
  BY DEF Walked, Base
<1>4. Position /\ Numbered /\ Kept
  BY <1>3 DEF Position, Numbered, Kept
<1> QED
  BY <1>1, <1>2, <1>4 DEF IInv

\* The lengths of the lists are numbers, and none is longer than MaxTasks.
LEMMA Lengths ==
  ASSUME IInv
  PROVE  /\ Len(executed) \in Nat /\ Len(tasks) \in Nat /\ Len(tasksBuf) \in Nat
         /\ Walked \in Nat /\ Base \in Nat
         /\ \A i \in 1..Len(tasks) : tasks[i] \in TaskIds
         /\ \A i \in 1..Len(tasksBuf) : tasksBuf[i] \in TaskIds
         /\ workPc # "done" => Len(tasks) <= MaxTasks /\ Len(tasksBuf) <= MaxTasks
<1> USE DEF IInv, TypeOK
<1>1. Len(executed) \in Nat /\ Len(tasks) \in Nat /\ Len(tasksBuf) \in Nat
  BY LenProperties
<1>2. Walked \in Nat
  BY MaxTasksAssumption DEF Walked
<1>3. Base \in Nat
  BY <1>1, <1>2 DEF Position, Base
<1>4. /\ \A i \in 1..Len(tasks) : tasks[i] \in TaskIds
      /\ \A i \in 1..Len(tasksBuf) : tasksBuf[i] \in TaskIds
  BY ElementOfSeq
<1>5. workPc # "done" => Len(tasks) <= MaxTasks /\ Len(tasksBuf) <= MaxTasks
  BY <1>1, <1>3, MaxTasksAssumption DEF Numbered
<1> QED
  BY <1>1, <1>2, <1>3, <1>4, <1>5

LEMMA AddTaskIInv ==
  ASSUME IInv, AddTask
  PROVE  IInv'
<1> USE DEF IInv, AddTask, threadVars
<1>0. added + 1 \in TaskIds
  BY MaxTasksAssumption DEF TypeOK, TaskIds
<1>1. /\ tasksBuf' \in Seq(TaskIds) /\ Len(tasksBuf') = Len(tasksBuf) + 1
      /\ \A i \in 1..Len(tasksBuf) : tasksBuf'[i] = tasksBuf[i]
      /\ tasksBuf'[Len(tasksBuf) + 1] = added + 1
  BY <1>0 DEF TypeOK
<1>2. TypeOK'
  BY <1>1, MaxTasksAssumption, Lengths DEF TypeOK, ThreadTypeOK
<1>3. WorkerStage'
  BY DEF WorkerStage
<1>4. Walked' = Walked /\ Base' = Base
  BY DEF Walked, Base
<1>5. Position'
  <2>1. Walked' <= Len(executed)'
    BY <1>4 DEF Position
  <2>2. workPc \in {"drain", "clear"} => next <= Len(tasksBuf)' + 1
    BY <1>1, Lengths DEF Position, TypeOK
  <2> QED
    BY <2>1, <2>2 DEF Position
<1>6. Numbered'
  <2>1. ASSUME workPc # "done", NEW i \in 1..(Len(tasksBuf) + 1)
        PROVE  tasksBuf'[i] = Base + Len(tasks) + i
    <3>1. CASE i = Len(tasksBuf) + 1
      <4>1. added = Base + Len(tasks) + Len(tasksBuf)
        BY <2>1 DEF Numbered
      <4> QED
        BY <1>1, <3>1, <4>1, Lengths
    <3>2. CASE i \in 1..Len(tasksBuf)
      BY <1>1, <2>1, <3>2 DEF Numbered
    <3> QED
      BY <3>1, <3>2, Lengths
  <2>2. workPc # "done" => added' = Base + Len(tasks) + Len(tasksBuf)'
    BY <1>1, Lengths DEF Numbered
  <2> QED
    BY <1>1, <1>4, <2>1, <2>2 DEF Numbered
<1>7. Kept'
  BY DEF Kept, TypeOK
<1> QED
  BY <1>2, <1>3, <1>5, <1>6, <1>7

\* What the owner of the worker does touches no list.
LEMMA OwnerIInv ==
  ASSUME IInv, Start \/ Close \/ CloseEnds
  PROVE  IInv'
<1> USE DEF IInv
<1>1. CASE Start
  BY <1>1 DEF Start, Launch, Goes, TypeOK, ThreadTypeOK, WorkPc, WorkerStage, InRound, Position,
     Walked, Numbered, Base, Kept
<1>2. CASE Close
  BY <1>2 DEF Close, AskToStop, TypeOK, ThreadTypeOK, WorkerStage, InRound, Leaving, WorkPc,
     Position, Walked, Numbered, Base, Kept
<1>3. CASE CloseEnds
  BY <1>3 DEF CloseEnds, ReturnFromClose, taskVars, TypeOK, ThreadTypeOK, WorkerStage, Position,
     Walked, Numbered, Base, Kept
<1> QED
  BY <1>1, <1>2, <1>3

\* RunTask runs the task whose number follows those that have been run.
LEMMA RunTaskExecuted ==
  ASSUME IInv, NEW list \in Seq(TaskIds), RunTask(list), list[next] = Len(executed) + 1,
         Len(executed) < added
  PROVE  /\ executed' \in Seq(TaskIds) /\ Len(executed') = Len(executed) + 1
         /\ \A i \in 1..Len(executed') : executed'[i] = i
         /\ next' = next + 1 /\ next' \in 2..(Len(list) + 1)
<1>1. next \in 1..Len(list) /\ list[next] \in TaskIds
  BY MaxTasksAssumption DEF RunTask, IInv, TypeOK
<1>2. executed' = Append(executed, Len(executed) + 1) /\ Len(executed) + 1 \in TaskIds
  BY <1>1 DEF RunTask
<1> QED
  BY <1>1, <1>2 DEF RunTask, IInv, TypeOK, Numbered

LEMMA ExecTaskIInv ==
  ASSUME IInv, ExecTask
  PROVE  IInv'
<1> USE DEF IInv, ExecTask, threadVars
<1>1. /\ tasks[next] = Len(executed) + 1 /\ next \in 1..Len(tasks)
      /\ Len(executed) < added
  BY Lengths DEF RunTask, TypeOK, Numbered, Base, Walked
<1>2. /\ executed' \in Seq(TaskIds) /\ Len(executed') = Len(executed) + 1
      /\ \A i \in 1..Len(executed') : executed'[i] = i
      /\ next' = next + 1 /\ next' \in 2..(Len(tasks) + 1)
  BY <1>1, RunTaskExecuted DEF TypeOK
<1>3. TypeOK'
  BY <1>1, <1>2, Lengths, MaxTasksAssumption DEF TypeOK, ThreadTypeOK
<1>4. Base' = Base /\ Walked' = Walked + 1
  BY <1>1, <1>2, Lengths DEF Walked, Base
<1>5. WorkerStage' /\ Kept'
  BY DEF WorkerStage, Kept
<1>6. Position'
  BY <1>2, <1>4, Lengths DEF Position
<1>7. Numbered'
  BY <1>2, <1>4, Lengths DEF Numbered
<1> QED
  BY <1>3, <1>5, <1>6, <1>7

LEMMA DrainTaskIInv ==
  ASSUME IInv, DrainTask
  PROVE  IInv'
<1> USE DEF IInv, DrainTask, threadVars
<1>1. /\ tasksBuf[next] = Len(executed) + 1 /\ next \in 1..Len(tasksBuf)
      /\ Len(executed) < added /\ Len(tasks) = 0
  <2>1. tasks = <<>>
    BY DEF Position
  <2> QED
    BY <2>1, Lengths DEF RunTask, TypeOK, Numbered, Base, Walked
<1>2. /\ executed' \in Seq(TaskIds) /\ Len(executed') = Len(executed) + 1
      /\ \A i \in 1..Len(executed') : executed'[i] = i
      /\ next' = next + 1 /\ next' \in 2..(Len(tasksBuf) + 1)
  BY <1>1, RunTaskExecuted DEF TypeOK
<1>3. TypeOK'
  BY <1>1, <1>2, Lengths, MaxTasksAssumption DEF TypeOK, ThreadTypeOK
<1>4. Base' = Base /\ Walked' = Walked + 1
  BY <1>1, <1>2, Lengths DEF Walked, Base
<1>5. WorkerStage' /\ Kept'
  BY DEF WorkerStage, Kept
<1>6. Position'
  BY <1>2, <1>4, Lengths DEF Position
<1>7. Numbered'
  BY <1>2, <1>4, Lengths DEF Numbered
<1> QED
  BY <1>3, <1>5, <1>6, <1>7

LEMMA MoveTasksIInv ==
  ASSUME IInv, MoveTasks
  PROVE  IInv'
<1> USE DEF IInv, MoveTasks, Goes, threadVars
<1>1. tasks = <<>> /\ next = 1 /\ workPc = "move" /\ workPc' = "scan"
  BY DEF Position
<1>2. tasks' = tasksBuf /\ tasksBuf' = <<>>
  BY <1>1, ConcatEmptySeq DEF TypeOK
<1>3. TypeOK'
  BY <1>2 DEF TypeOK, ThreadTypeOK, WorkPc
<1>4. WorkerStage' /\ Kept'
  BY <1>1 DEF WorkerStage, InRound, Kept
<1>5. Walked' = Walked /\ Base' = Base
  BY <1>1 DEF Walked, Base
<1>6. Position'
  BY <1>1, <1>5 DEF Position
<1>7. Numbered'
  BY <1>1, <1>2, <1>5, Lengths DEF Numbered
<1> QED
  BY <1>3, <1>4, <1>6, <1>7

\* Where the worker only goes on, or clears a list it has walked.
LEMMA GoesOnIInv ==
  ASSUME IInv, LoopTest \/ CheckBuf \/ ScanTasks \/ ExecEnds \/ DrainEnds \/ DrainClear
  PROVE  IInv'
<1> USE Lengths DEF IInv, threadVars, TypeOK, ThreadTypeOK, WorkPc, Leaving, WorkerStage, InRound,
        Position, Kept, Goes
<1>1. CASE LoopTest
  BY <1>1, MaxTasksAssumption DEF LoopTest, IsRun, Walked, Base, Numbered
<1>2. CASE CheckBuf
  BY <1>2 DEF CheckBuf, Walked, Base, Numbered
<1>3. CASE ScanTasks
  BY <1>3 DEF ScanTasks, Walked, Base, Numbered
<1>4. CASE ExecEnds
  <2>1. Base' = Base + Len(tasks) /\ Walked' = 0
    BY <1>4 DEF ExecEnds, Walked, Base
  <2>2. tasks' = <<>> /\ Len(tasks') = 0
    BY <1>4 DEF ExecEnds
  <2>3. Numbered'
    BY <1>4, <2>1, <2>2 DEF ExecEnds, Numbered
  <2> QED
    BY <1>4, <2>1, <2>2, <2>3 DEF ExecEnds
<1>5. CASE DrainEnds
  BY <1>5 DEF DrainEnds, Walked, Base, Numbered
<1>6. CASE DrainClear
  BY <1>6 DEF DrainClear, LeaveCallbacks, Walked, Base, Numbered
<1> QED
  BY <1>1, <1>2, <1>3, <1>4, <1>5, <1>6

LEMMA NextIInv == IInv /\ [Next]_vars => IInv'
<1> SUFFICES ASSUME IInv, [Next]_vars PROVE IInv'
  OBVIOUS
<1>1. CASE UNCHANGED vars
  BY <1>1 DEF vars, taskVars, threadVars, IInv, TypeOK, ThreadTypeOK, WorkerStage, Position,
     Walked, Numbered, Base, Kept
<1>2. CASE Next
  BY <1>2, AddTaskIInv, OwnerIInv, MoveTasksIInv, ExecTaskIInv, DrainTaskIInv, GoesOnIInv
     DEF Next, OnRun
<1> QED
  BY <1>1, <1>2

\* The state of a task server has its type, and its tasks are numbered without
\* a gap over what has been run and the two lists.
THEOREM TaskServerInvariant == Spec => []IInv
BY InitIInv, NextIInv, PTL DEF Spec

\* Every state of a task server is well typed.
THEOREM TaskServerTypes == Spec => []TypeOK
<1>1. IInv => TypeOK
  BY DEF IInv
<1> QED
  BY <1>1, TaskServerInvariant, PTL

-----------------------------------------------------------------------------
(* The refinement.                                                         *)

Open == stage \in {"new", "running"}

LEMMA InitQueue == Init => Queue!Init
BY DEF Init, ThreadInit, Queue!Init, Pending

LEMMA AddTaskQueue ==
  ASSUME IInv, AddTask
  PROVE  Queue!Add
<1> USE DEF AddTask, threadVars
<1>1. /\ tasksBuf \in Seq(TaskIds) /\ tasks \in Seq(TaskIds)
      /\ added + 1 \in TaskIds
  BY MaxTasksAssumption DEF IInv, TypeOK, TaskIds
<1>2. Pending' = Append(Pending, added + 1)
  <2>1. CASE workPc = "exec"
    <3>1. Rest(tasks) \in Seq(TaskIds)
      BY <1>1, <2>1, MaxTasksAssumption DEF Rest, IInv, TypeOK
    <3> HIDE DEF AddTask
    <3>2. Rest(tasks) \o Append(tasksBuf, added + 1) = Append(Rest(tasks) \o tasksBuf, added + 1)
      BY <1>1, <3>1, AppendToSecond
    <3>3. Pending = Rest(tasks) \o tasksBuf /\ Pending' = Rest(tasks) \o Append(tasksBuf, added + 1)
      BY <2>1 DEF Pending, Rest, AddTask
    <3> QED
      BY <3>2, <3>3
  <2>2. CASE workPc \in {"drain", "clear"}
    <3>1. next \in 1..(Len(tasksBuf) + 1)
      BY <2>2, Lengths DEF IInv, Position, TypeOK
    <3>2. Pending = Rest(tasksBuf) /\ Pending' = Rest(tasksBuf)'
      BY <2>2 DEF Pending, Rest
    <3> QED
      BY <1>1, <3>1, <3>2, AppendToRest DEF Rest
  <2>3. CASE workPc \notin {"exec", "drain", "clear"}
    <3>1. Pending = tasks \o tasksBuf /\ Pending' = tasks \o Append(tasksBuf, added + 1)
      BY <2>3 DEF Pending
    <3> QED
      BY <1>1, <3>1, AppendToSecond
  <2> QED
    BY <2>1, <2>2, <2>3
<1> QED
  BY <1>2 DEF Queue!Add

LEMMA CloseQueue ==
  ASSUME IInv, Close
  PROVE  Queue!Shut
BY DEF IInv, WorkerStage, InRound, Close, AskToStop, Pending, Rest, Queue!Shut

\* A task that is run is the head of what is pending.
LEMMA ExecTaskQueue ==
  ASSUME IInv, ExecTask
  PROVE  Queue!Run
<1> USE DEF ExecTask, threadVars
<1>1. /\ tasks \in Seq(TaskIds) /\ tasksBuf \in Seq(TaskIds) /\ next \in 1..Len(tasks)
      /\ next' = next + 1 /\ executed' = Append(executed, tasks[next])
  BY Lengths DEF IInv, TypeOK, RunTask
<1>2. Pending = SubSeq(tasks, next, Len(tasks)) \o tasksBuf
  BY DEF Pending, Rest
<1>3. Pending' = SubSeq(tasks, next + 1, Len(tasks)) \o tasksBuf
  BY <1>1 DEF Pending, Rest
<1>4. Pending # <<>> /\ Head(Pending) = tasks[next] /\ Tail(Pending) = Pending'
  BY <1>1, <1>2, <1>3, RestHeadTail
<1> QED
  BY <1>1, <1>4 DEF Queue!Run

LEMMA DrainTaskQueue ==
  ASSUME IInv, DrainTask
  PROVE  Queue!Run
<1> USE DEF DrainTask, threadVars
<1>1. /\ tasksBuf \in Seq(TaskIds) /\ next \in 1..Len(tasksBuf)
      /\ next' = next + 1 /\ executed' = Append(executed, tasksBuf[next])
  BY Lengths DEF IInv, TypeOK, RunTask
<1>2. Pending = SubSeq(tasksBuf, next, Len(tasksBuf))
  BY DEF Pending, Rest
<1>3. Pending' = SubSeq(tasksBuf, next + 1, Len(tasksBuf))
  BY <1>1 DEF Pending, Rest
<1>4. /\ SubSeq(tasksBuf, next, Len(tasksBuf)) \o <<>> = SubSeq(tasksBuf, next, Len(tasksBuf))
      /\ SubSeq(tasksBuf, next + 1, Len(tasksBuf)) \o <<>> = SubSeq(tasksBuf, next + 1, Len(tasksBuf))
  BY <1>1, ConcatEmptySeq
<1>5. <<>> \in Seq(TaskIds)
  OBVIOUS
<1>6. Pending # <<>> /\ Head(Pending) = tasksBuf[next] /\ Tail(Pending) = Pending'
  BY <1>1, <1>2, <1>3, <1>4, <1>5, RestHeadTail
<1> QED
  BY <1>1, <1>6 DEF Queue!Run

\* What the drained buffer still holds was added after Close was called.
LEMMA DrainClearQueue ==
  ASSUME IInv, DrainClear
  PROVE  Queue!Drop
<1> USE DEF DrainClear, LeaveCallbacks, Goes
<1>1. tasks = <<>> /\ tasksBuf \in Seq(TaskIds) /\ next \in 1..(Len(tasksBuf) + 1)
  BY Lengths DEF IInv, Position, TypeOK
<1>2. Pending' = <<>>
  BY <1>1 DEF Pending
<1>3. Pending = SubSeq(tasksBuf, next, Len(tasksBuf))
  BY DEF Pending, Rest
<1>4. \A i \in 1..Len(Pending) : Pending[i] = tasksBuf[next - 1 + i] /\ next - 1 + i \in 1..Len(tasksBuf)
  BY <1>1, <1>3
<1>5. \A i \in 1..Len(tasksBuf) : tasksBuf[i] = Len(executed) - (next - 1) + i
  BY <1>1, Lengths DEF IInv, Numbered, Base, Walked
<1>6. promised <= Len(executed) /\ promised \in Nat /\ Len(executed) \in Nat
  BY Lengths DEF IInv, Kept, TypeOK
<1>7. \A i \in 1..Len(Pending) : Pending[i] > promised
  <2> SUFFICES ASSUME NEW i \in 1..Len(Pending) PROVE Pending[i] > promised
    OBVIOUS
  <2>1. i \in Nat \ {0}
    BY <1>1, <1>3
  <2>2. Pending[i] = Len(executed) - (next - 1) + (next - 1 + i)
    BY <1>4, <1>5
  <2> QED
    BY <1>1, <1>6, <2>1, <2>2
<1> QED
  BY <1>2, <1>7 DEF Queue!Drop

\* The other steps move tasks from one place to another and leave the queue as it is.
LEMMA StutterQueue ==
  ASSUME IInv,
         \/ Start \/ CloseEnds \/ LoopTest \/ CheckBuf \/ MoveTasks \/ ScanTasks
         \/ ExecEnds \/ DrainEnds \/ UNCHANGED vars
  PROVE  UNCHANGED <<Pending, executed, added, promised, Open>>
<1> USE DEF threadVars, Open, Goes
<1>1. tasks \in Seq(TaskIds) /\ tasksBuf \in Seq(TaskIds) /\ next \in 1..(MaxTasks + 1)
  BY DEF IInv, TypeOK
<1>2. CASE Start
  BY <1>2 DEF Start, Launch, Pending
<1>3. CASE CloseEnds
  BY <1>3 DEF CloseEnds, ReturnFromClose, taskVars, Pending, Rest
<1>4. CASE LoopTest
  <2>1. tasks = <<>> /\ tasks \o tasksBuf = tasksBuf
    BY <1>1, <1>4, ConcatEmptySeq DEF LoopTest, IInv, Position
  <2>2. SubSeq(tasksBuf, 1, Len(tasksBuf)) = tasksBuf
    BY <1>1, SubSeqFull
  <2> QED
    BY <1>4, <2>1, <2>2 DEF LoopTest, Pending, Rest
<1>5. CASE CheckBuf
  BY <1>5 DEF CheckBuf, Pending
<1>6. CASE MoveTasks
  <2>1. tasks \o tasksBuf = tasksBuf /\ tasksBuf \o <<>> = tasksBuf
    BY <1>1, <1>6, ConcatEmptySeq DEF MoveTasks, IInv, Position
  <2> QED
    BY <1>6, <2>1 DEF MoveTasks, Pending
<1>7. CASE ScanTasks
  <2>1. next = 1 /\ SubSeq(tasks, 1, Len(tasks)) = tasks
    BY <1>1, <1>7, SubSeqFull DEF ScanTasks, IInv, Position
  <2> QED
    BY <1>7, <2>1 DEF ScanTasks, Pending, Rest
<1>8. CASE ExecEnds
  <2>1. SubSeq(tasks, next, Len(tasks)) = <<>>
    BY <1>1, <1>8, SubSeqEmpty, Lengths DEF ExecEnds
  <2> QED
    BY <1>8, <2>1 DEF ExecEnds, Pending, Rest
<1>9. CASE DrainEnds
  BY <1>9 DEF DrainEnds, Pending, Rest
<1>10. CASE UNCHANGED vars
  BY <1>10 DEF vars, taskVars, Pending, Rest
<1> QED
  BY <1>2, <1>3, <1>4, <1>5, <1>6, <1>7, <1>8, <1>9, <1>10

LEMMA NextQueue == IInv /\ [Next]_vars => [Queue!Next]_(Queue!queueVars)
<1> SUFFICES ASSUME IInv, [Next]_vars PROVE [Queue!Next]_(Queue!queueVars)
  OBVIOUS
<1>1. CASE AddTask
  BY <1>1, AddTaskQueue DEF Queue!Next
<1>2. CASE Close
  BY <1>2, CloseQueue DEF Queue!Next
<1>3. CASE ExecTask
  BY <1>3, ExecTaskQueue DEF Queue!Next
<1>4. CASE DrainTask
  BY <1>4, DrainTaskQueue DEF Queue!Next
<1>5. CASE DrainClear
  BY <1>5, DrainClearQueue DEF Queue!Next
<1>6. CASE \/ Start \/ CloseEnds \/ LoopTest \/ CheckBuf \/ MoveTasks \/ ScanTasks
           \/ ExecEnds \/ DrainEnds \/ UNCHANGED vars
  BY <1>6, StutterQueue DEF Queue!queueVars, Open
<1> QED
  BY <1>1, <1>2, <1>3, <1>4, <1>5, <1>6 DEF Next, OnRun

\* For every number of tasks: each is run once, in the order they were added, and
\* none that was added before Close was called is dropped, although the worker
\* looks at _tasksBuf and drains it without the lock.
THEOREM TaskQueueImplemented == Spec => ImplementsTaskQueue
BY InitQueue, NextQueue, TaskServerInvariant, PTL DEF Spec, ImplementsTaskQueue, Queue!Spec

=============================================================================
