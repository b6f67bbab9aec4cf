----------------------------- MODULE CELLThread -----------------------------
(***************************************************************************)
(* One CELLThread object: the threads that call Start and Close on it, the *)
(* detached worker threads that run OnWork, and the owner that deletes the *)
(* object once its Close has returned (client.cpp, EasyTcpServer::Close).  *)
(*                                                                         *)
(* A step is one access to the state the threads share: _bRun is a plain   *)
(* bool, written under _mutex by Start, Close and Exit but read by IsRun   *)
(* and cleared at the end of OnWork without it.                            *)
(***************************************************************************)
EXTENDS CELLSemaphore, FiniteSets

CONSTANTS
  Callers,    \* threads that call Start and Close
  NoCaller,   \* _mutex is free
  MaxStarts,  \* bound: how many worker threads Start creates
  ErrorExit   \* TRUE: onRun may fail and leave through Exit()

ASSUME CallersAssumption == Callers # {} /\ NoCaller \notin Callers
ASSUME StartsAssumption  == MaxStarts \in Nat \ {0}
ASSUME ExitAssumption    == ErrorExit \in BOOLEAN

VARIABLES
  bRun,      \* _bRun
  mutex,     \* the caller that holds _mutex across steps, or NoCaller
  callerPc,  \* where each caller is
  workPc,    \* where each worker thread is in OnWork
  deleted    \* the object has been destroyed

vars == <<bRun, mutex, callerPc, workPc, deleted, waitNum, wakeupNum>>

Workers == 1..MaxStarts

\* What a caller's last Close did, since the last Start: "closed", it stopped
\* the worker and waited for it; "skipped", it found _bRun false.
Returned == {"closed", "skipped"}
Resting  == {"idle"} \cup Returned
CallerPc == Resting \cup {"close", "wait", "blocked"}

\* The worker is still in onCreate, onRun or onDestory.
InCallback == {"create", "run", "exit", "destory"}
\* The worker has passed (or never reached) the code of the callbacks.
Quiet      == {"none", "clear", "done"}
WorkPc     == InCallback \cup Quiet \cup {"wakeup"}

TypeOK ==
  /\ SemTypeOK
  /\ bRun \in BOOLEAN
  /\ mutex \in Callers \cup {NoCaller}
  /\ callerPc \in [Callers -> CallerPc]
  /\ workPc \in [Workers -> WorkPc]
  /\ deleted \in BOOLEAN

Init ==
  /\ SemInit
  /\ bRun = FALSE
  /\ mutex = NoCaller
  /\ callerPc = [c \in Callers |-> "idle"]
  /\ workPc = [w \in Workers |-> "none"]
  /\ deleted = FALSE

CallerGoes(c, from, to) ==
  /\ callerPc[c] \in from
  /\ callerPc' = [callerPc EXCEPT ![c] = to]

WorkerGoes(w, from, to) ==
  /\ workPc[w] = from
  /\ workPc' = [workPc EXCEPT ![w] = to]

-----------------------------------------------------------------------------
(* The callers.                                                            *)

\* Worker threads are numbered in the order Start creates them.
NextWorker(w) == workPc[w] = "none" /\ \A v \in 1..(w - 1) : workPc[v] # "none"

\* Start() that finds _bRun false: set it and create the worker thread.
Start(c) ==
  /\ ~deleted
  /\ mutex = NoCaller
  /\ ~bRun
  /\ callerPc[c] \in Resting
  /\ callerPc' = [d \in Callers |-> IF callerPc[d] \in Returned THEN "idle" ELSE callerPc[d]]
  /\ bRun' = TRUE
  /\ \E w \in Workers : NextWorker(w) /\ WorkerGoes(w, "none", "create")
  /\ UNCHANGED <<mutex, deleted, semVars>>

\* A caller enters Close() and asks for _mutex.
CloseCall(c) ==
  /\ ~deleted
  /\ CallerGoes(c, Resting, "close")
  /\ UNCHANGED <<bRun, mutex, workPc, deleted, semVars>>

\* Mutant: Close that forgets to tell the worker to stop.
CloseStopNoClear(c) ==
  /\ mutex = NoCaller
  /\ bRun
  /\ CallerGoes(c, {"close"}, "wait")
  /\ mutex' = c
  /\ UNCHANGED <<bRun, workPc, deleted, semVars>>

\* Close() under _mutex, thread running: clear _bRun, go on to the semaphore.
CloseStop(c) ==
  /\ mutex = NoCaller
  /\ bRun
  /\ CallerGoes(c, {"close"}, "wait")
  /\ bRun' = FALSE
  /\ mutex' = c
  /\ UNCHANGED <<workPc, deleted, semVars>>

\* Mutant: Close that tests _bRun before it takes _mutex.
CloseSkipNoLock(c) ==
  /\ ~bRun
  /\ CallerGoes(c, {"close"}, "skipped")
  /\ UNCHANGED <<bRun, mutex, workPc, deleted, semVars>>

\* Close() under _mutex, thread not running: nothing to do.
CloseSkip(c) ==
  /\ mutex = NoCaller
  /\ ~bRun
  /\ CallerGoes(c, {"close"}, "skipped")
  /\ UNCHANGED <<bRun, mutex, workPc, deleted, semVars>>

\* The semaphore's Wait inside Close(), with _mutex still held; it returns at
\* once, or blocks and later resumes.  _mutex is released on return.
CloseWaitReturns(c) ==
  /\ CallerGoes(c, {"wait"}, "closed")
  /\ WaitReturns
  /\ mutex' = NoCaller
  /\ UNCHANGED <<bRun, workPc, deleted>>

CloseWaitBlocks(c) ==
  /\ CallerGoes(c, {"wait"}, "blocked")
  /\ WaitBlocks
  /\ UNCHANGED <<bRun, mutex, workPc, deleted>>

CloseResumes(c) ==
  /\ CallerGoes(c, {"blocked"}, "closed")
  /\ WaitResumes
  /\ mutex' = NoCaller
  /\ UNCHANGED <<bRun, workPc, deleted>>

\* The owner deletes the object after its Close returned, nobody else using it.
Destroy(c) ==
  /\ ~deleted
  /\ callerPc[c] \in Returned
  /\ \A d \in Callers : callerPc[d] \in Resting
  /\ deleted' = TRUE
  /\ UNCHANGED <<bRun, mutex, callerPc, workPc, semVars>>

CloseStep(c) ==
  \/ CloseStop(c)        \/ CloseSkip(c)
  \/ CloseWaitReturns(c) \/ CloseWaitBlocks(c) \/ CloseResumes(c)

Caller(c) == Start(c) \/ CloseCall(c) \/ CloseStep(c) \/ Destroy(c)

-----------------------------------------------------------------------------
(* The workers.                                                            *)

\* OnWork runs onCreate and enters onRun.
OnCreate(w) ==
  /\ WorkerGoes(w, "create", "run")
  /\ UNCHANGED <<bRun, mutex, callerPc, deleted, semVars>>

\* Mutant: an onRun that returns without Exit while _bRun is still set.
RunReturns(w) ==
  /\ WorkerGoes(w, "run", "destory")
  /\ UNCHANGED <<bRun, mutex, callerPc, deleted, semVars>>

\* onRun's loop, while (pThread->IsRun()), reads _bRun false and ends.
RunEnds(w) ==
  /\ ~bRun
  /\ WorkerGoes(w, "run", "destory")
  /\ UNCHANGED <<bRun, mutex, callerPc, deleted, semVars>>

\* The body of onRun's loop meets an error and is about to call Exit().
RunFails(w) ==
  /\ ErrorExit
  /\ WorkerGoes(w, "run", "exit")
  /\ UNCHANGED <<bRun, mutex, callerPc, deleted, semVars>>

\* Exit(), which takes _mutex; onRun then breaks out of its loop.
Exit(w) ==
  /\ mutex = NoCaller
  /\ WorkerGoes(w, "exit", "destory")
  /\ bRun' = FALSE
  /\ UNCHANGED <<mutex, callerPc, deleted, semVars>>

\* OnWork runs onDestory.
OnDestory(w) ==
  /\ WorkerGoes(w, "destory", "wakeup")
  /\ UNCHANGED <<bRun, mutex, callerPc, deleted, semVars>>

\* Mutant: OnWork announces its end before it runs the callbacks.
WorkWakeupEarly(w) ==
  /\ workPc[w] \in {"create", "wakeup"}
  /\ workPc' = [workPc EXCEPT ![w] = IF @ = "create" THEN "run" ELSE "clear"]
  /\ IF workPc[w] = "create" THEN Wakeup ELSE UNCHANGED semVars
  /\ UNCHANGED <<bRun, mutex, callerPc, deleted>>

\* OnWork announces that it is done ...
WorkWakeup(w) ==
  /\ WorkerGoes(w, "wakeup", "clear")
  /\ Wakeup
  /\ UNCHANGED <<bRun, mutex, callerPc, deleted>>

\* ... and then clears _bRun once more, outside _mutex.
WorkClear(w) ==
  /\ WorkerGoes(w, "clear", "done")
  /\ bRun' = FALSE
  /\ UNCHANGED <<mutex, callerPc, deleted, semVars>>

OnWork(w) ==
  \/ OnCreate(w)  \/ RunEnds(w)    \/ RunFails(w) \/ Exit(w)
  \/ OnDestory(w) \/ WorkWakeup(w) \/ WorkClear(w)

-----------------------------------------------------------------------------
Next ==
  \/ \E c \in Callers : Caller(c)
  \/ \E w \in Workers : OnWork(w)

\* A runnable thread is eventually scheduled; nobody has to call Start, Close
\* or delete, and std::mutex promises no order among the threads that want it.
Fairness ==
  /\ \A w \in Workers : WF_vars(OnWork(w))
  /\ \A c \in Callers : WF_vars(CloseWaitReturns(c) \/ CloseWaitBlocks(c) \/ CloseResumes(c))

Spec == Init /\ [][Next]_vars

FairSpec == Spec /\ Fairness

-----------------------------------------------------------------------------
(* Properties.                                                             *)

\* Close() "must make sure that OnRun has exited first" (CELLThread.hpp:41):
\* until the object is started again, a caller whose Close stopped the thread
\* and came back from the semaphore finds no worker inside onCreate, onRun or
\* onDestory.
StartedOnce == \A w \in Workers : w > 1 => workPc[w] = "none"
WaitedCloseIsSynchronous ==
  StartedOnce /\ (\E c \in Callers : callerPc[c] = "closed")
    => \A w \in Workers : workPc[w] \in Quiet

\* The same promise as a rule about every return from Close(), the one that
\* found _bRun false included: the step that returns finds every worker quiet.
CloseReturnsQuiet ==
  [][\A c \in Callers :
        (callerPc[c] \notin Returned /\ callerPc'[c] \in Returned)
          => \A w \in Workers : workPc[w] \in Quiet]_vars

\* Both at once, and that the worker does not leave before it is told to: for
\* its owner, an object that is started once and whose onRun never calls Exit
\* is a WorkThread.
Stage ==
  CASE workPc[1] = "none"                        -> "new"
    [] workPc[1] \in {"wakeup", "clear", "done"} -> "ended"
    [] workPc[1] \in InCallback                  -> IF bRun THEN "running" ELSE "stopping"
SomeCloseReturned == \E c \in Callers : callerPc[c] \in Returned
Contract == INSTANCE WorkThread WITH stage <- Stage, returned <- SomeCloseReturned
ImplementsWorkThread == Contract!ThreadSpec

\* A Close that has stopped the thread comes back: the worker leaves its loop
\* and its Wakeup is never lost, whichever of Wait and Wakeup comes first, and
\* however often the object is restarted.  The one exception is a worker that
\* calls Exit (see ExitAvoidsDeadlock).
CloseReturns ==
  \A c \in Callers :
    callerPc[c] \in {"wait", "blocked"} ~>
      callerPc[c] = "closed" \/ \E w \in Workers : workPc[w] = "exit"

\* Whenever _bRun is set, some worker is there to read it and to call Wakeup
\* later: a Close that finds _bRun set never waits for a thread that is gone,
\* however often the object is restarted.
RunFlagHasWorker == bRun => \E w \in Workers : workPc[w] \in InCallback

\* "To leave from inside the run function, call Exit, it avoids a deadlock on
\* the semaphore" (CELLThread.hpp:22): no caller of Close sits on the semaphore
\* holding the mutex that the worker needs in Exit to reach its Wakeup.
ExitAvoidsDeadlock ==
  ~ \E c \in Callers, w \in Workers :
      /\ callerPc[c] = "blocked" /\ mutex = c /\ wakeupNum = 0
      /\ workPc[w] = "exit"

\* Close() "waits until OnWork has completely exited" (CELLThread.hpp:83), so
\* the owner may delete the object: no worker still has a statement to run.
NoUseAfterFree ==
  deleted => \A w \in Workers : workPc[w] \in {"none", "done"}

=============================================================================
