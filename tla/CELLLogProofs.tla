---------------------------- MODULE CELLLogProofs ----------------------------
(***************************************************************************)
(* Proofs about CELLLog.  Its steps are steps of the task server in it, so *)
(* that what is proved of that one holds here: the lines are run in order. *)
(* What is left to show is that the file is there when they are, and that  *)
(* it holds two parts for each line that has been run.                     *)
(***************************************************************************)
EXTENDS CELLLog, CellTaskServerProofs

\* Main has called setLogPath at most once, and the file could be opened.
Single == calls <= 1 /\ failed = {}

\* The head that is written belongs to the line the worker is at.
HalfLine == half => workPc \in {"exec", "drain"} /\ next <= Len(InHand)

\* A file is open where main closes it.
OpenFile ==
  /\ calls = 0 => mainPc \in {"start", "idle"}
  /\ pLogFile <= calls
  /\ mainPc \in {"fclose", "last"} => pLogFile # NULL

\* What main has done with the worker and with the file.
MainIsAt ==
  /\ mainPc \notin {"fclose", "forget"}
  /\ mainPc = "start" => calls = 0
  /\ mainPc = "start" <=> stage = "new"
  /\ mainPc \in {"idle", "fopen", "tell"} => stage = "running"
  /\ mainPc = "closing" => stage \in {"stopping", "ended"}
  /\ mainPc \in {"closed", "last", "over"} => stage = "ended"

FileIsAt ==
  /\ pLogFile = IF calls = 0 \/ mainPc \in {"fopen", "over"} THEN NULL ELSE 1
  /\ closed = IF mainPc = "over" THEN {1} ELSE {}
  /\ calls = 0 \/ mainPc \in {"fopen", "tell"} => added = 0

\* The file holds the lines that have been run, and the head of the next.
Contents ==
  /\ Len(written[1]) = 2 * Len(executed) + (IF half THEN 1 ELSE 0)
  /\ \A i \in 1..Len(written[1]) :
       written[1][i] = <<IF i % 2 = 1 THEN "head" ELSE "text", (i + 1) \div 2>>

LogIInv ==
  /\ IInv /\ LogTypeOK /\ HalfLine /\ OpenFile
  /\ Single => ~crashed /\ MainIsAt /\ FileIsAt /\ Contents

-----------------------------------------------------------------------------
(* The log's steps as steps of the task server.                            *)

LEMMA InfoNext == Info => [Next]_vars
BY DEF Info, serverVars, vars, Next

LEMMA MainNext == Main => [Next]_vars
BY InfoNext DEF Main, Construct, SetLogPath, SetLogPathCloses, SetLogPathForgets, SetLogPathOpens,
   SetLogPathReturns, Destruct, DestructWaits, DestructLogs, DestructEnds, serverVars, vars, Next

LEMMA LogOnRunNext == LogOnRun => [Next]_vars
BY DEF LogOnRun, WriteHead, WriteText, serverVars, vars, Next, OnRun

LEMMA LogNextNext == [LogNext]_allVars => [Next]_vars
BY MainNext, LogOnRunNext DEF LogNext, WriteLog, Next, allVars, serverVars, vars

\* The task server in the log behaves as one.
THEOREM LogUsesTaskServer == LogSpec => Spec
<1>1. LogInit => Init
  BY DEF LogInit
<1> QED
  BY <1>1, LogNextNext, PTL DEF LogSpec, Spec

\* So it implements the task queue, whatever main does with the file meanwhile.
THEOREM LogImplementsTaskQueue == LogSpec => ImplementsTaskQueue
BY LogUsesTaskServer, TaskQueueImplemented, PTL

-----------------------------------------------------------------------------
(* The lines in the file.                                                  *)

LEMMA LogInitInv == LogInit => LogIInv
<1> SUFFICES ASSUME LogInit PROVE LogIInv
  OBVIOUS
<1> USE DEF LogInit
<1>1. IInv /\ TypeOK
  BY InitIInv DEF IInv
<1>2. written \in [Files -> Seq(Parts \X TaskIds)]
  <2>1. <<>> \in Seq(Parts \X TaskIds)
    OBVIOUS
  <2> QED
    BY <2>1
<1>3. calls \in 0..MaxFiles /\ closed \subseteq 1..calls /\ failed \subseteq 1..calls
  BY MaxFilesAssumption
<1>4. LogTypeOK
  BY <1>1, <1>2, <1>3 DEF LogTypeOK
<1>5. written[1] = <<>>
  BY MaxFilesAssumption DEF Files
<1> QED
  BY <1>1, <1>4, <1>5 DEF LogIInv, OpenFile, NULL, Single, HalfLine, MainIsAt, FileIsAt, Contents, Init, ThreadInit

\* What a step does to the server leaves the half written line in its list.
LEMMA HalfLineStays ==
  ASSUME IInv, IInv', HalfLine, UNCHANGED half,
         \/ AddTask \/ Start \/ Close \/ CloseEnds \/ LoopTest \/ CheckBuf \/ MoveTasks
         \/ ScanTasks \/ ExecEnds \/ DrainEnds \/ DrainClear \/ UNCHANGED serverVars
  PROVE  HalfLine'
<1> USE Lengths DEF HalfLine, InHand, Goes, IInv, TypeOK
<1>1. CASE AddTask
  BY <1>1 DEF AddTask
<1>2. CASE Start
  BY <1>2 DEF Start
<1>3. CASE Close \/ CloseEnds
  BY <1>3 DEF Close, CloseEnds, taskVars
<1>4. CASE LoopTest \/ CheckBuf \/ MoveTasks \/ ScanTasks
  BY <1>4 DEF LoopTest, CheckBuf, MoveTasks, ScanTasks
<1>5. CASE ExecEnds \/ DrainEnds
  BY <1>5 DEF ExecEnds, DrainEnds
<1>6. CASE DrainClear
  BY <1>6 DEF DrainClear
<1>7. CASE UNCHANGED serverVars
  BY <1>7 DEF serverVars, taskVars
<1> QED
  BY <1>1, <1>2, <1>3, <1>4, <1>5, <1>6, <1>7

\* A thread that logs.
LEMMA WriteLogInv ==
  ASSUME LogIInv, IInv', WriteLog
  PROVE  LogIInv'
<1> USE DEF LogIInv, WriteLog, logVars, fileVars, lineVars
<1>1. LogTypeOK'
  BY DEF LogTypeOK, IInv
<1>2. HalfLine' /\ OpenFile'
  BY HalfLineStays DEF OpenFile
<1>3. Single' => ~crashed' /\ MainIsAt' /\ FileIsAt' /\ Contents'
  BY DEF Single, MainIsAt, FileIsAt, Contents, AddTask, threadVars, LogTypeOK
<1> QED
  BY <1>1, <1>2, <1>3

\* A step of main: only these variables of the server matter to the lines.
LEMMA MainInv ==
  ASSUME LogIInv, IInv', Main
  PROVE  LogIInv'
<1> USE DEF LogIInv
<1>a. calls \in Nat /\ calls <= MaxFiles /\ MaxFiles \in Nat /\ failed \subseteq 1..calls
  BY MaxFilesAssumption DEF LogTypeOK
<1>b. UNCHANGED lineVars /\ (Info \/ Start \/ Close \/ CloseEnds \/ UNCHANGED serverVars)
  BY DEF Main, Construct, SetLogPath, SetLogPathCloses, SetLogPathForgets, SetLogPathOpens,
     SetLogPathReturns, Destruct, DestructWaits, DestructLogs, DestructEnds
<1>c. HalfLine'
  BY <1>b, HalfLineStays DEF Info, lineVars
<1>d. executed' = executed
  BY <1>b DEF Info, AddTask, Start, Close, CloseEnds, taskVars, serverVars
<1>e. TypeOK' /\ (Contents => Contents')
  BY <1>b, <1>d DEF IInv, Contents, lineVars
<1>f. Info => UNCHANGED stage
  BY DEF Info, AddTask, threadVars, serverVars
<1> USE <1>a, <1>c, <1>e, <1>f DEF MainGoes, fileVars, lineVars, LogTypeOK, Files, NULL, OpenFile
<1>1. CASE Construct
  BY <1>1 DEF Construct, Start, Launch, Single, MainIsAt, FileIsAt
<1>2. CASE SetLogPath
  <2>1. LogTypeOK'
    BY <1>2 DEF SetLogPath
  <2>2. Single' => calls = 0 /\ pLogFile = NULL /\ mainPc' = "fopen" /\ UNCHANGED serverVars
    BY <1>2 DEF SetLogPath, Single, FileIsAt
  <2>3. Single' => MainIsAt' /\ FileIsAt'
    BY <1>2, <2>2 DEF SetLogPath, Single, MainIsAt, FileIsAt, serverVars, taskVars, threadVars
  <2> QED
    BY <1>2, <2>1, <2>3 DEF SetLogPath, Single
<1>3. CASE SetLogPathCloses
  <2>1. LogTypeOK'
    <3>1. pLogFile \in 1..calls
      BY <1>3 DEF SetLogPathCloses
    <3> QED
      BY <1>3, <3>1 DEF SetLogPathCloses
  <2> QED
    BY <1>3, <2>1 DEF SetLogPathCloses, Single, MainIsAt
<1>4. CASE SetLogPathForgets
  BY <1>4 DEF SetLogPathForgets, Single, MainIsAt
<1>5. CASE SetLogPathOpens
  <2>0. calls \in 1..MaxFiles
    BY <1>5 DEF SetLogPathOpens
  <2>1. LogTypeOK'
    <3>1. failed \cup {calls} \subseteq 1..calls /\ calls \in Files
      BY <2>0
    <3>2. failed' \subseteq 1..calls /\ pLogFile' \in {NULL} \cup Files
      BY <1>5, <3>1 DEF SetLogPathOpens
    <3> QED
      BY <1>5, <3>2 DEF SetLogPathOpens
  <2>2. Single' => calls = 1 /\ pLogFile' = 1 /\ Single
    BY <1>5 DEF SetLogPathOpens, Single, MainIsAt
  <2>3. Single' => MainIsAt' /\ FileIsAt'
    BY <1>5, <2>2 DEF SetLogPathOpens, MainIsAt, FileIsAt, serverVars, taskVars, threadVars
  <2> QED
    BY <1>5, <2>1, <2>2, <2>3 DEF SetLogPathOpens
<1>6. CASE SetLogPathReturns
  BY <1>6 DEF SetLogPathReturns, Single, MainIsAt, FileIsAt
<1>7. CASE Destruct
  BY <1>7 DEF Destruct, Close, AskToStop, Single, MainIsAt, FileIsAt
<1>8. CASE DestructWaits
  BY <1>8 DEF DestructWaits, CloseEnds, ReturnFromClose, Single, MainIsAt, FileIsAt
<1>9. CASE DestructLogs
  <2>1. LogTypeOK' /\ OpenFile'
    BY <1>9 DEF DestructLogs
  <2>2. Single' => mainPc' = "last" /\ calls = 1
    BY <1>9 DEF DestructLogs, Single, FileIsAt
  <2>3. Single' => MainIsAt' /\ FileIsAt'
    BY <1>9, <2>2 DEF DestructLogs, Single, MainIsAt, FileIsAt
  <2> QED
    BY <1>9, <2>1, <2>3 DEF DestructLogs, Single
<1>10. CASE DestructEnds
  <2>1. pLogFile \in 1..calls
    BY <1>10 DEF DestructEnds
  <2>2. LogTypeOK' /\ OpenFile'
    BY <1>10, <2>1 DEF DestructEnds
  <2>3. Single' => MainIsAt' /\ FileIsAt'
    BY <1>10 DEF DestructEnds, Single, MainIsAt, FileIsAt, serverVars, threadVars
  <2> QED
    BY <1>10, <2>2, <2>3 DEF DestructEnds, Single
<1> QED
  BY <1>1, <1>2, <1>3, <1>4, <1>5, <1>6, <1>7, <1>8, <1>9, <1>10 DEF Main

\* The worker, where it writes nothing.
LEMMA WorkerGoesOnInv ==
  ASSUME LogIInv, IInv', UNCHANGED logVars,
         \/ LoopTest \/ CheckBuf \/ MoveTasks \/ ScanTasks \/ ExecEnds \/ DrainEnds \/ DrainClear
  PROVE  LogIInv'
<1> USE DEF LogIInv, logVars, fileVars, lineVars
<1>1. LogTypeOK' /\ OpenFile'
  BY DEF LogTypeOK, IInv, OpenFile
<1>2. HalfLine'
  BY HalfLineStays
<1>3. executed' = executed /\ added' = added /\ (stage' = stage \/ (stage = "stopping" /\ stage' = "ended"))
  BY DEF LoopTest, CheckBuf, MoveTasks, ScanTasks, ExecEnds, DrainEnds, DrainClear, LeaveCallbacks,
     threadVars
<1>4. Single' => ~crashed' /\ MainIsAt' /\ FileIsAt' /\ Contents'
  BY <1>3 DEF Single, MainIsAt, FileIsAt, Contents
<1> QED
  BY <1>1, <1>2, <1>4

\* The line that the worker writes is the one after those it has run, and where
\* setLogPath was called once, the file is open.
LEMMA LineInHand ==
  ASSUME LogIInv, workPc \in {"exec", "drain"}, next <= Len(InHand)
  PROVE  /\ InHand[next] = Len(executed) + 1 /\ InHand[next] \in TaskIds
         /\ Single => /\ pLogFile = 1 /\ pLogFile \notin closed
                      /\ mainPc \notin {"start", "fopen", "tell", "closed", "last", "over"}
<1> USE DEF LogIInv
<1>1. next \in 1..Len(InHand) /\ Len(InHand) \in Nat
  BY Lengths DEF InHand, IInv, TypeOK
<1>2. InHand[next] = Len(executed) + 1 /\ InHand[next] \in TaskIds
  <2>1. CASE workPc = "exec"
    BY <1>1, <2>1, Lengths DEF InHand, IInv, Numbered, Base, Walked, TypeOK
  <2>2. CASE workPc = "drain"
    <3>1. tasks = <<>> /\ Len(tasks) = 0
      BY <2>2 DEF IInv, Position
    <3> QED
      BY <1>1, <2>2, <3>1, Lengths DEF InHand, IInv, Numbered, Base, Walked, TypeOK
  <2> QED
    BY <2>1, <2>2
<1>3. added > 0
  BY <1>1, Lengths DEF InHand, IInv, Numbered
<1>4. stage \in {"running", "stopping"}
  BY DEF IInv, WorkerStage, InRound
<1> QED
  BY <1>2, <1>3, <1>4 DEF MainIsAt, FileIsAt, NULL

\* The numbers of the parts of line n + 1 in the file.
LEMMA PartNumbers ==
  \A n \in Nat : /\ (2 * n + 1) % 2 = 1 /\ ((2 * n + 1) + 1) \div 2 = n + 1
                 /\ (2 * n + 2) % 2 = 0 /\ ((2 * n + 2) + 1) \div 2 = n + 1
OBVIOUS

LEMMA WriteTypes ==
  ASSUME LogTypeOK, NEW part \in Parts, NEW n \in TaskIds, Write(part, n)
  PROVE  /\ written' \in [Files -> Seq(Parts \X TaskIds)] /\ crashed' \in BOOLEAN
         /\ (pLogFile = 1 /\ pLogFile \notin closed) =>
              crashed' = crashed /\ written'[1] = Append(written[1], <<part, n>>)
<1>1. CASE pLogFile # NULL /\ pLogFile \notin closed
  <2>1. pLogFile \in Files /\ <<part, n>> \in Parts \X TaskIds
    BY <1>1 DEF LogTypeOK
  <2>2. Append(written[pLogFile], <<part, n>>) \in Seq(Parts \X TaskIds)
    BY <2>1 DEF LogTypeOK
  <2>3. written' = [written EXCEPT ![pLogFile] = Append(written[pLogFile], <<part, n>>)]
    BY <1>1 DEF Write
  <2> QED
    BY <1>1, <2>1, <2>2, <2>3 DEF Write, LogTypeOK
<1>2. CASE ~(pLogFile # NULL /\ pLogFile \notin closed)
  <2>1. written' = written /\ ~(pLogFile = 1 /\ pLogFile \notin closed)
    <3>1. written' = written
      BY <1>2, Zenon DEF Write
    <3>2. ~(pLogFile = 1 /\ pLogFile \notin closed)
      BY <1>2 DEF NULL
    <3> QED
      BY <3>1, <3>2
  <2>2. crashed' \in BOOLEAN
    BY <1>2, Zenon DEF Write
  <2> QED
    BY <2>1, <2>2 DEF LogTypeOK
<1> QED
  BY <1>1, <1>2

\* A part that comes at its place keeps the file in order.
LEMMA ContentsGrow ==
  ASSUME LogTypeOK, Contents, NEW part \in Parts, NEW n \in TaskIds,
         written'[1] = Append(written[1], <<part, n>>), Len(executed) \in Nat,
         Len(written[1]) + 1 = 2 * Len(executed)' + (IF half' THEN 1 ELSE 0),
         <<part, n>> = <<IF (Len(written[1]) + 1) % 2 = 1 THEN "head" ELSE "text",
                         (Len(written[1]) + 1 + 1) \div 2>>
  PROVE  Contents'
<1>1. written[1] \in Seq(Parts \X TaskIds)
  BY MaxFilesAssumption DEF LogTypeOK, Files
<1>2. /\ Len(written'[1]) = Len(written[1]) + 1 /\ Len(written[1]) \in Nat
      /\ \A i \in 1..Len(written[1]) : written'[1][i] = written[1][i]
      /\ written'[1][Len(written[1]) + 1] = <<part, n>>
  <2> DEFINE w == written[1]
             e == <<part, n>>
  <2>1. w \in Seq(Parts \X TaskIds) /\ e \in Parts \X TaskIds
    BY <1>1
  <2>2. written'[1] = Append(w, e)
    OBVIOUS
  <2> HIDE DEF w, e
  <2>3. /\ Len(Append(w, e)) = Len(w) + 1 /\ Len(w) \in Nat
        /\ \A i \in 1..Len(w) : Append(w, e)[i] = w[i]
        /\ Append(w, e)[Len(w) + 1] = e
    BY <2>1
  <2>4. /\ Len(written'[1]) = Len(w) + 1 /\ Len(w) \in Nat
        /\ \A i \in 1..Len(w) : written'[1][i] = w[i]
        /\ written'[1][Len(w) + 1] = e
    BY <2>2, <2>3
  <2> QED
    BY <2>4 DEF w, e
<1>3. ASSUME NEW i \in 1..Len(written'[1])
      PROVE  written'[1][i] = <<IF i % 2 = 1 THEN "head" ELSE "text", (i + 1) \div 2>>
  <2>1. CASE i \in 1..Len(written[1])
    BY <1>2, <2>1 DEF Contents
  <2>2. CASE i = Len(written[1]) + 1
    BY <1>2, <2>2
  <2> QED
    BY <1>2, <2>1, <2>2
<1> QED
  BY <1>2, <1>3 DEF Contents

LEMMA WriteHeadInv ==
  ASSUME LogIInv, IInv', WriteHead
  PROVE  LogIInv'
<1> USE DEF LogIInv, WriteHead, serverVars, taskVars, threadVars, fileVars
<1>1. InHand[next] = Len(executed) + 1 /\ InHand[next] \in TaskIds
  BY LineInHand
<1>2. /\ written' \in [Files -> Seq(Parts \X TaskIds)] /\ crashed' \in BOOLEAN
      /\ (pLogFile = 1 /\ pLogFile \notin closed) =>
           crashed' = crashed /\ written'[1] = Append(written[1], <<"head", InHand[next]>>)
  BY <1>1, WriteTypes DEF Parts
<1>3. LogTypeOK' /\ OpenFile'
  BY <1>2 DEF LogTypeOK, IInv, OpenFile
<1>4. HalfLine'
  BY DEF HalfLine, InHand
<1>5. ASSUME Single' PROVE ~crashed' /\ MainIsAt' /\ FileIsAt' /\ Contents'
  <2>1. Single /\ pLogFile = 1 /\ pLogFile \notin closed
    BY <1>5, LineInHand DEF Single
  <2>2. ~crashed' /\ MainIsAt' /\ FileIsAt'
    BY <1>2, <2>1 DEF MainIsAt, FileIsAt
  <2>3. Len(written[1]) = 2 * Len(executed) /\ Len(executed) \in Nat
    BY <2>1, Lengths DEF Contents
  <2>4. Contents'
    BY <1>1, <1>2, <2>1, <2>3, PartNumbers, ContentsGrow DEF Parts
  <2> QED
    BY <2>2, <2>4
<1> QED
  BY <1>3, <1>4, <1>5

LEMMA WriteTextInv ==
  ASSUME LogIInv, IInv', WriteText
  PROVE  LogIInv'
<1> USE DEF LogIInv, WriteText, taskVars, threadVars, fileVars
<1>1. workPc \in {"exec", "drain"} /\ next <= Len(InHand) /\ half
  BY DEF HalfLine
<1>2. InHand[next] = Len(executed) + 1 /\ InHand[next] \in TaskIds
  BY <1>1, LineInHand
<1>3. /\ written' \in [Files -> Seq(Parts \X TaskIds)] /\ crashed' \in BOOLEAN
      /\ (pLogFile = 1 /\ pLogFile \notin closed) =>
           crashed' = crashed /\ written'[1] = Append(written[1], <<"text", InHand[next]>>)
  BY <1>2, WriteTypes DEF Parts
<1>4. LogTypeOK' /\ OpenFile'
  BY <1>3 DEF LogTypeOK, IInv, OpenFile
<1>5. HalfLine'
  BY DEF HalfLine
<1>6. /\ Len(executed)' = Len(executed) + 1 /\ Len(executed) \in Nat
      /\ UNCHANGED <<stage, added>>
  BY Lengths DEF ExecTask, DrainTask, RunTask, IInv, TypeOK
<1>7. ASSUME Single' PROVE ~crashed' /\ MainIsAt' /\ FileIsAt' /\ Contents'
  <2>1. Single /\ pLogFile = 1 /\ pLogFile \notin closed
    BY <1>1, <1>7, LineInHand DEF Single
  <2>2. ~crashed' /\ MainIsAt' /\ FileIsAt'
    BY <1>3, <1>6, <2>1 DEF MainIsAt, FileIsAt
  <2>3. Len(written[1]) = 2 * Len(executed) + 1
    BY <1>1, <2>1 DEF Contents
  <2>4. Contents'
    BY <1>2, <1>3, <1>6, <2>1, <2>3, PartNumbers, ContentsGrow DEF Parts
  <2> QED
    BY <2>2, <2>4
<1> QED
  BY <1>4, <1>5, <1>7

LEMMA LogNextInv == LogIInv /\ [LogNext]_allVars => LogIInv'
<1> SUFFICES ASSUME LogIInv, [LogNext]_allVars PROVE LogIInv'
  OBVIOUS
<1>1. IInv'
  BY LogNextNext, NextIInv DEF LogIInv
<1>2. CASE WriteLog
  BY <1>1, <1>2, WriteLogInv
<1>3. CASE Main
  BY <1>1, <1>3, MainInv
<1>4. CASE LogOnRun
  BY <1>1, <1>4, WriteHeadInv, WriteTextInv, WorkerGoesOnInv DEF LogOnRun
<1>5. CASE UNCHANGED allVars
  <2>1. HalfLine'
    BY <1>5 DEF allVars, serverVars, taskVars, logVars, lineVars, LogIInv, HalfLine, InHand
  <2> QED
    BY <1>1, <1>5, <2>1 DEF allVars, serverVars, taskVars, threadVars, logVars, fileVars, lineVars,
       LogIInv, IInv, LogTypeOK, OpenFile, Single, MainIsAt, FileIsAt, Contents
<1> QED
  BY <1>2, <1>3, <1>4, <1>5 DEF LogNext

\* The log, its task server, the threads and the destructor keep the invariant.
THEOREM LogInvariant == LogSpec => []LogIInv
BY LogInitInv, LogNextInv, PTL DEF LogSpec

\* The state of the log, and of the task server in it, has its type.
THEOREM LogTypes == LogSpec => []LogTypeOK
<1>1. LogIInv => LogTypeOK
  BY DEF LogIInv
<1> QED
  BY <1>1, LogInvariant, PTL

\* With one call of setLogPath nobody writes to no file or to one that is closed,
\* and a log that is gone leaves every line that was logged before its destructor
\* began, each in one piece and in order: for every number of lines.
THEOREM LogComplete == LogSpec => []LogIsComplete
<1>1. LogIInv => LogIsComplete
  <2> SUFFICES ASSUME LogIInv, OneFile PROVE /\ ~crashed
                                             /\ mainPc = "over" => \E n \in promised..MaxTasks : written[1] = Lines(n)
    BY DEF LogIsComplete
  <2>1. Single /\ ~crashed /\ MainIsAt /\ Contents
    BY DEF LogIInv, OneFile, Single
  <2>2. ASSUME mainPc = "over" PROVE \E n \in promised..MaxTasks : written[1] = Lines(n)
    <3>1. workPc = "done" /\ ~half
      BY <2>1, <2>2 DEF MainIsAt, LogIInv, IInv, WorkerStage, HalfLine
    <3>2. Len(executed) \in promised..MaxTasks /\ Len(executed) \in Nat
      BY <3>1, Lengths, MaxTasksAssumption DEF LogIInv, IInv, TypeOK, Kept
    <3>3. written[1] \in Seq(Parts \X TaskIds)
      BY MaxFilesAssumption DEF LogIInv, LogTypeOK, Files
    <3>4. /\ written[1] = [i \in 1..(2 * Len(executed)) |-> written[1][i]]
          /\ Len(written[1]) = 2 * Len(executed)
      <4>1. Len(written[1]) = 2 * Len(executed)
        BY <2>1, <3>1, <3>2 DEF Contents
      <4> QED
        BY <3>3, <4>1, LenProperties
    <3>5. written[1] = Lines(Len(executed))
      BY <2>1, <3>4 DEF Contents, Lines
    <3> QED
      BY <3>2, <3>5
  <2> QED
    BY <2>1, <2>2
<1> QED
  BY <1>1, LogInvariant, PTL

=============================================================================
