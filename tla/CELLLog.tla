------------------------------- MODULE CELLLog -------------------------------
(***************************************************************************)
(* The log: a CellTaskServer whose tasks each write a line to the file     *)
(* that setLogPath has opened.  The object is a static of Instance(): main *)
(* makes it when it calls setLogPath, its first statement, and destroys it *)
(* after it has returned.  The threads that log are started in between,    *)
(* and may still log while the object is being destroyed.                  *)
(*                                                                         *)
(* _pLogFile is a plain pointer: main writes it, and every fprintf of the  *)
(* worker reads it.  A line is two of them, the head (type and time) and   *)
(* the text.                                                               *)
(***************************************************************************)
EXTENDS CellTaskServer

CONSTANT MaxFiles  \* bound: how often setLogPath is called
ASSUME MaxFilesAssumption == MaxFiles \in Nat \ {0}

VARIABLES
  mainPc,   \* where main is
  pLogFile, \* _pLogFile: the number of a file, or NULL
  calls,    \* how often setLogPath has been called
  failed,   \* which of them failed
  closed,   \* which files have been closed
  written,  \* what is in each file
  half,     \* the head of the line in hand has been written
  crashed   \* the process has ended in fprintf

fileVars == <<pLogFile, calls, failed, closed>>
lineVars == <<written, half, crashed>>
logVars  == <<mainPc, fileVars, lineVars>>
serverVars == <<taskVars, threadVars>>

NULL  == 0
Files == 1..MaxFiles
Parts == {"head", "text"}

LogTypeOK ==
  /\ TypeOK
  /\ mainPc \in {"start", "idle", "fclose", "forget", "fopen", "tell", "closing",
                 "closed", "last", "over"}
  /\ pLogFile \in {NULL} \cup Files
  /\ calls \in 0..MaxFiles
  /\ failed \subseteq 1..calls /\ closed \subseteq 1..calls
  /\ written \in [Files -> Seq(Parts \X TaskIds)]
  /\ half \in BOOLEAN /\ crashed \in BOOLEAN

LogInit ==
  /\ Init
  /\ mainPc = "start"
  /\ pLogFile = NULL /\ calls = 0 /\ failed = {} /\ closed = {}
  /\ written = [f \in Files |-> <<>>] /\ half = FALSE /\ crashed = FALSE

MainGoes(from, to) == mainPc = from /\ mainPc' = to

-----------------------------------------------------------------------------
(* The threads that log, and main.                                         *)

\* WriteLog, once setLogPath has returned: of Info, Debug, Warning, Error and PError.
WriteLog ==
  /\ calls > 0 /\ mainPc # "over"
  /\ calls = 1 => mainPc \notin {"fopen", "tell"}
  /\ AddTask
  /\ UNCHANGED logVars

\* A line that main logs; it goes on without it when the bound is reached.
Info == AddTask \/ (added = MaxTasks /\ UNCHANGED serverVars)

\* Instance() for the first time: the constructor starts the task server.
Construct ==
  /\ MainGoes("start", "idle")
  /\ Start
  /\ UNCHANGED <<fileVars, lineVars>>

\* setLogPath.  A file that is open is closed and forgotten ...
SetLogPath ==
  /\ mainPc = "idle" /\ calls < MaxFiles
  /\ calls' = calls + 1
  /\ IF pLogFile = NULL
       THEN mainPc' = "fopen" /\ UNCHANGED serverVars
       ELSE mainPc' = "fclose" /\ Info
  /\ UNCHANGED <<pLogFile, failed, closed, lineVars>>

SetLogPathCloses ==
  /\ MainGoes("fclose", "forget")
  /\ closed' = closed \cup {pLogFile}
  /\ UNCHANGED <<serverVars, pLogFile, calls, failed, lineVars>>

SetLogPathForgets ==
  /\ MainGoes("forget", "fopen")
  /\ pLogFile' = NULL
  /\ UNCHANGED <<serverVars, calls, failed, closed, lineVars>>

\* ... and the new one is opened, or not, which setLogPath only logs.
SetLogPathOpens ==
  /\ MainGoes("fopen", "tell")
  /\ \/ pLogFile' = calls /\ UNCHANGED failed
     \/ failed' = failed \cup {calls} /\ UNCHANGED pLogFile
  /\ UNCHANGED <<serverVars, calls, closed, lineVars>>

SetLogPathReturns ==
  /\ MainGoes("tell", "idle")
  /\ Info
  /\ UNCHANGED <<fileVars, lineVars>>

\* Mutant: the destructor closes the file first.
DestructClosesFirst ==
  /\ MainGoes("idle", "closing") /\ calls > 0
  /\ Close
  /\ closed' = IF pLogFile = NULL THEN closed ELSE closed \cup {pLogFile}
  /\ UNCHANGED <<pLogFile, calls, failed, lineVars>>

\* The destructor: the task server is closed, a line is logged that nobody will
\* write, and the file is closed.
Destruct ==
  /\ MainGoes("idle", "closing") /\ calls > 0
  /\ Close
  /\ UNCHANGED <<fileVars, lineVars>>

DestructWaits ==
  /\ MainGoes("closing", "closed")
  /\ CloseEnds
  /\ UNCHANGED <<fileVars, lineVars>>

DestructLogs ==
  /\ mainPc = "closed"
  /\ IF pLogFile = NULL
       THEN mainPc' = "over" /\ UNCHANGED serverVars
       ELSE mainPc' = "last" /\ Info
  /\ UNCHANGED <<fileVars, lineVars>>

DestructEnds ==
  /\ MainGoes("last", "over")
  /\ closed' = closed \cup {pLogFile} /\ pLogFile' = NULL
  /\ UNCHANGED <<serverVars, calls, failed, lineVars>>

Main ==
  \/ Construct \/ SetLogPath \/ SetLogPathCloses \/ SetLogPathForgets \/ SetLogPathOpens
  \/ SetLogPathReturns \/ Destruct \/ DestructWaits \/ DestructLogs \/ DestructEnds

-----------------------------------------------------------------------------
(* The worker.                                                             *)

\* fprintf of a part of line n.  Without a file the process ends; what it does
\* with one that is closed is undefined: it may end, or nothing is written.
Write(part, n) ==
  IF pLogFile # NULL /\ pLogFile \notin closed
    THEN /\ written' = [written EXCEPT ![pLogFile] = Append(@, <<part, n>>)]
         /\ UNCHANGED crashed
    ELSE /\ crashed' \in IF pLogFile = NULL THEN {TRUE} ELSE BOOLEAN
         /\ UNCHANGED written

InHand == IF workPc = "exec" THEN tasks ELSE tasksBuf

\* WriteLogReal, the task that OnRun runs: the head ...
WriteHead ==
  /\ workPc \in {"exec", "drain"} /\ next <= Len(InHand) /\ ~half
  /\ Write("head", InHand[next])
  /\ half' = TRUE
  /\ UNCHANGED <<serverVars, mainPc, fileVars>>

\* ... and the text.
WriteText ==
  /\ half
  /\ ExecTask \/ DrainTask
  /\ Write("text", InHand[next])
  /\ half' = FALSE
  /\ UNCHANGED <<mainPc, fileVars>>

LogOnRun ==
  \/ WriteHead \/ WriteText
  \/ /\ LoopTest \/ CheckBuf \/ MoveTasks \/ ScanTasks \/ ExecEnds \/ DrainEnds \/ DrainClear
     /\ UNCHANGED logVars

-----------------------------------------------------------------------------
LogNext == ~crashed /\ (WriteLog \/ Main \/ LogOnRun)

allVars == <<serverVars, logVars>>

\* The worker is scheduled, and main goes on in what it has begun.
LogFairness ==
  /\ WF_allVars(~crashed /\ LogOnRun)
  /\ WF_allVars(~crashed /\ mainPc # "idle" /\ Main)

LogSpec == LogInit /\ [][LogNext]_allVars

LogFairSpec == LogSpec /\ LogFairness

-----------------------------------------------------------------------------
(* Properties.                                                             *)

\* A program that calls setLogPath once, and whose file can be opened.
OneFile == calls = 1 /\ failed = {}

\* Lines 1, 2 ... up to n, each in one piece.
Lines(n) == [i \in 1..(2 * n) |-> <<IF i % 2 = 1 THEN "head" ELSE "text", (i + 1) \div 2>>]

\* The worker does not write to no file or to one that is closed: _pLogFile is
\* set before the first line is logged, and the destructor waits for the worker
\* before it closes the file (calling setLogPath again breaks this).  And when
\* the object is gone, its file holds in order all that was logged before the
\* destructor began, and perhaps more, every line whole; but never the last
\* line, "close log file".
LogIsComplete ==
  OneFile => /\ ~crashed
             /\ mainPc = "over" => \E n \in promised..MaxTasks : written[1] = Lines(n)

\* A line logged while the worker runs is written, even if the destructor begins.
LinesAreWritten ==
  \A n \in TaskIds :
    (added >= n /\ stage = "running" /\ OneFile)
      ~> \/ \E i \in 1..Len(written[1]) : written[1][i] = <<"text", n>>
         \/ ~OneFile

=============================================================================
