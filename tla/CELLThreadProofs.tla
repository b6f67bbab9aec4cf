-------------------------- MODULE CELLThreadProofs --------------------------
(***************************************************************************)
(* Theorems about one CELLThread, for every set of callers: TypeCorrect    *)
(* and FlagHasWorker for any number of starts, WaitedCloseSynchronous up   *)
(* to the second start, these with and without Exit(); CloseQuiet and      *)
(* WorkThreadImplemented for an object that is started once (MaxStarts =   *)
(* 1) and whose callbacks never call Exit().                               *)
(***************************************************************************)
EXTENDS CELLThread, TLAPS

\* The first worker has already called Wakeup.
Announced == workPc[1] \in {"clear", "done"}

\* A caller is inside Close's critical section exactly when it holds _mutex.
HolderInv ==
  \A c \in Callers : callerPc[c] \in {"wait", "blocked"} <=> mutex = c

\* Nothing has run before Start, and Close only waits for a started worker.
StartedInv ==
  workPc[1] = "none" =>
    /\ ~bRun
    /\ mutex = NoCaller

\* A worker that was told to stop: _bRun is never set again, so at most one
\* caller of Close has ever got past the test of _bRun.
StoppedInv == mutex # NoCaller => ~bRun

\* Before the worker's Wakeup the semaphore counts exactly the blocked caller.
SemaphoreInv ==
  ~Announced =>
    /\ wakeupNum = 0
    /\ waitNum = IF \E c \in Callers : callerPc[c] = "blocked" THEN 1 ELSE 0

\* A caller came back from the semaphore: the worker has left its callbacks.
WaitedInv ==
  (\E c \in Callers : callerPc[c] = "closed") => \A w \in Workers : workPc[w] \in Quiet

IInv ==
  /\ TypeOK
  /\ HolderInv
  /\ StartedInv
  /\ StoppedInv
  /\ SemaphoreInv
  /\ WaitedInv

-----------------------------------------------------------------------------
(* Type correctness, for any number of starts.                             *)

\* Every step keeps the variables in their types; in particular no wakeup is
\* consumed that was not counted (CELLSemaphore::Wait).
THEOREM TypeCorrect == Spec => []TypeOK
<1> USE CallersAssumption, StartsAssumption DEF TypeOK, SemTypeOK, Workers, CallerPc,
        Resting, Returned, WorkPc, InCallback, Quiet
<1>1. Init => TypeOK
  <2>1. Init => bRun \in BOOLEAN /\ deleted \in BOOLEAN
    BY DEF Init
  <2>2. QED
    BY <2>1 DEF Init, SemInit
<1>2. TypeOK /\ [Next]_vars => TypeOK'
  <2> SUFFICES ASSUME TypeOK, [Next]_vars
               PROVE  TypeOK'
    OBVIOUS
  <2>1. ASSUME NEW c \in Callers, Start(c)
        PROVE  TypeOK'
    BY <2>1 DEF Start, WorkerGoes, semVars
  <2>2. ASSUME NEW c \in Callers, CloseCall(c)
        PROVE  TypeOK'
    BY <2>2 DEF CloseCall, CallerGoes, semVars
  <2>3. ASSUME NEW c \in Callers, CloseStep(c)
        PROVE  TypeOK'
    <3>1. CASE CloseStop(c) \/ CloseSkip(c)
      <4>1. bRun' \in BOOLEAN
        BY <3>1 DEF CloseStop, CloseSkip
      <4>2. QED
        BY <3>1, <4>1 DEF CloseStop, CloseSkip, CallerGoes, semVars
    <3>2. CASE CloseWaitReturns(c) \/ CloseWaitBlocks(c) \/ CloseResumes(c)
      BY <3>2 DEF CloseWaitReturns, CloseWaitBlocks, CloseResumes, CallerGoes,
                  WaitReturns, WaitBlocks, WaitResumes
    <3>3. QED
      BY <2>3, <3>1, <3>2 DEF CloseStep
  <2>4. ASSUME NEW c \in Callers, Destroy(c)
        PROVE  TypeOK'
    BY <2>4 DEF Destroy, semVars
  <2>5. ASSUME NEW w \in Workers, OnWork(w)
        PROVE  TypeOK'
    <3>1. bRun' \in BOOLEAN
      BY <2>5 DEF OnWork, OnCreate, RunEnds, RunFails, Exit, OnDestory, WorkWakeup, WorkClear
    <3>2. QED
      BY <2>5, <3>1 DEF OnWork, OnCreate, RunEnds, RunFails, Exit, OnDestory, WorkWakeup,
                        WorkClear, WorkerGoes, Wakeup, semVars
  <2>6. CASE UNCHANGED vars
    BY <2>6 DEF vars
  <2>7. QED
    BY <2>1, <2>2, <2>3, <2>4, <2>5, <2>6 DEF Next, Caller
<1>3. QED
  BY <1>1, <1>2, PTL DEF Spec

-----------------------------------------------------------------------------
(* The run flag and its worker, for any number of starts and with Exit.    *)

\* The worker that reads _bRun is still before its decision to leave: a worker
\* passes "run" only when it reads _bRun false, and "exit" by clearing it.
FlagInv == bRun => \E w \in Workers : workPc[w] \in {"create", "run", "exit"}

\* A step that sets _bRun creates a worker, and one that takes the last worker
\* past its loop finds or leaves _bRun false.
LEMMA FlagStep ==
  ASSUME TypeOK, FlagInv, [Next]_vars
  PROVE  FlagInv'
<1> SUFFICES ASSUME bRun'
             PROVE  \E w \in Workers : workPc'[w] \in {"create", "run", "exit"}
  BY DEF FlagInv
<1>0. workPc \in [Workers -> WorkPc]
  BY DEF TypeOK
<1>1. ASSUME NEW c \in Callers, Start(c)
      PROVE  \E w \in Workers : workPc'[w] \in {"create", "run", "exit"}
  <2>1. PICK w \in Workers : WorkerGoes(w, "none", "create")
    BY <1>1 DEF Start
  <2>2. workPc'[w] = "create"
    BY <1>0, <2>1 DEF WorkerGoes
  <2>3. QED
    BY <2>1, <2>2
<1>2. ASSUME NEW c \in Callers, CloseCall(c) \/ CloseStep(c) \/ Destroy(c)
      PROVE  \E w \in Workers : workPc'[w] \in {"create", "run", "exit"}
  <2>1. workPc' = workPc /\ bRun
    BY <1>2 DEF CloseCall, CloseStep, Destroy, CloseStop, CloseSkip, CloseWaitReturns,
                CloseWaitBlocks, CloseResumes
  <2>2. QED
    BY <2>1 DEF FlagInv
<1>3. ASSUME NEW v \in Workers, OnWork(v)
      PROVE  \E w \in Workers : workPc'[w] \in {"create", "run", "exit"}
  <2>1. bRun
    BY <1>3 DEF OnWork, OnCreate, RunEnds, RunFails, Exit, OnDestory, WorkWakeup, WorkClear
  <2>2. PICK w \in Workers : workPc[w] \in {"create", "run", "exit"}
    BY <2>1 DEF FlagInv
  <2>3. CASE OnCreate(v) \/ RunFails(v)
    <3>1. workPc'[w] = workPc[w] \/ workPc'[w] \in {"run", "exit"}
      BY <1>0, <2>3 DEF OnCreate, RunFails, WorkerGoes
    <3>2. QED
      BY <2>2, <3>1
  <2>4. CASE OnDestory(v) \/ WorkWakeup(v)
    <3>1. workPc'[w] = workPc[w]
      BY <1>0, <2>2, <2>4 DEF OnDestory, WorkWakeup, WorkerGoes
    <3>2. QED
      BY <2>2, <3>1
  <2>5. ~(RunEnds(v) \/ Exit(v) \/ WorkClear(v))
    BY <2>1, <1>3 DEF RunEnds, Exit, WorkClear
  <2>6. QED
    BY <1>3, <2>3, <2>4, <2>5 DEF OnWork
<1>4. CASE UNCHANGED vars
  BY <1>4 DEF vars, FlagInv
<1>5. QED
  BY <1>1, <1>2, <1>3, <1>4 DEF Next, Caller

\* However often the object is restarted and whoever calls Exit, a set _bRun has
\* a worker inside its callbacks that will read it: a Close that finds _bRun set
\* never waits for the Wakeup of a thread that is gone (CELLThread.hpp:80).
THEOREM FlagHasWorker == Spec => []RunFlagHasWorker
<1>1. Init => FlagInv
  BY DEF Init, FlagInv
<1>2. TypeOK /\ FlagInv /\ [Next]_vars => FlagInv'
  BY FlagStep
<1>3. FlagInv => RunFlagHasWorker
  BY DEF FlagInv, RunFlagHasWorker, InCallback
<1>4. QED
  BY TypeCorrect, <1>1, <1>2, <1>3, PTL DEF Spec

-----------------------------------------------------------------------------
(* Up to the second start.                                                 *)

\* Without Exit, a worker that has not announced its end means that _bRun is
\* still set or that some caller of Close is waiting for it, and a worker that
\* has left onRun has read it false.
RunningInv ==
  /\ workPc[1] # "exit"
  /\ workPc[1] = "destory" => ~bRun
  /\ workPc[1] \notin Quiet => bRun \/ mutex # NoCaller

\* The initial states are in the invariant.
LEMMA InitIInv == Init => IInv /\ RunningInv
<1> SUFFICES ASSUME Init
             PROVE  IInv /\ RunningInv
  OBVIOUS
<1>1. ~bRun /\ bRun \in BOOLEAN /\ deleted \in BOOLEAN
  BY DEF Init
<1>2. 1 \in Workers
  BY StartsAssumption DEF Workers
<1>3. QED
  BY <1>1, <1>2, CallersAssumption DEF Init, IInv, RunningInv, TypeOK, SemTypeOK, SemInit, Workers,
     CallerPc, Resting, Returned, WorkPc, InCallback, Quiet, HolderInv, StartedInv,
     StoppedInv, SemaphoreInv, Announced, WaitedInv

\* Workers only ever leave "none".
LEMMA StartsAreKept ==
  ASSUME TypeOK, [Next]_vars, StartedOnce'
  PROVE  StartedOnce
<1>1. \A w \in Workers : workPc'[w] = "none" => workPc[w] = "none"
  <2>1. ASSUME NEW c \in Callers, Caller(c), NEW w \in Workers, workPc'[w] = "none"
        PROVE  workPc[w] = "none"
    BY <2>1 DEF Caller, CloseStep, Start, CloseCall, CloseStop, CloseSkip, CloseWaitReturns,
       CloseWaitBlocks, CloseResumes, Destroy, WorkerGoes, TypeOK
  <2>2. ASSUME NEW v \in Workers, OnWork(v), NEW w \in Workers, workPc'[w] = "none"
        PROVE  workPc[w] = "none"
    BY <2>2 DEF OnWork, OnCreate, RunEnds, RunFails, Exit, OnDestory, WorkWakeup, WorkClear,
       WorkerGoes, TypeOK
  <2>3. CASE UNCHANGED vars
    BY <2>3 DEF vars
  <2>4. QED
    BY <2>1, <2>2, <2>3 DEF Next
<1>2. QED
  BY <1>1 DEF StartedOnce

\* Only the first worker takes steps.
LEMMA OneWorker ==
  ASSUME StartedOnce, NEW w \in Workers, workPc[w] # "none"
  PROVE  w = 1
BY StartsAssumption DEF StartedOnce, Workers

\* A Close that comes back from the semaphore has seen the worker's Wakeup.
LEMMA WaitSeesWakeup ==
  ASSUME IInv, NEW c \in Callers, CloseWaitReturns(c) \/ CloseResumes(c)
  PROVE  Announced
BY DEF CloseWaitReturns, CloseResumes, WaitReturns, WaitResumes, MustWait, CallerGoes, IInv,
       SemaphoreInv, HolderInv, TypeOK, SemTypeOK

\* The inductive step.  The parts of IInv lean on each other: HolderInv makes
\* the blocked caller unique, StoppedInv and StartedInv keep a second Close
\* and a second Start out, SemaphoreInv then says that a Wait which returns
\* at once has been preceded by the worker's Wakeup.
LEMMA NextIInv ==
  ASSUME StartedOnce, StartedOnce', IInv, [Next]_vars
  PROVE  IInv'
<1>0. 1 \in Workers /\ \A w \in Workers : w > 1 \/ w = 1
  BY StartsAssumption DEF Workers
<1> USE CallersAssumption DEF IInv, HolderInv, StartedInv, StoppedInv, SemaphoreInv,
        Announced, WaitedInv, TypeOK, SemTypeOK, CallerPc, Resting,
        Returned, WorkPc, InCallback, Quiet
<1>1. ASSUME NEW c \in Callers, Start(c)
      PROVE  IInv'
  BY <1>0, <1>1 DEF StartedOnce, Start, NextWorker, WorkerGoes, semVars
<1>2. ASSUME NEW c \in Callers, CloseCall(c)
      PROVE  IInv'
  BY <1>2 DEF CloseCall, CallerGoes, semVars
<1>3. ASSUME NEW c \in Callers, CloseStop(c) \/ CloseSkip(c)
      PROVE  IInv'
  <2>1. CASE CloseStop(c)
    <3>1. bRun' \in BOOLEAN /\ ~bRun'
      BY <2>1 DEF CloseStop
    <3>2. QED
      BY <2>1, <3>1 DEF CloseStop, CallerGoes, semVars
  <2>2. CASE CloseSkip(c)
    BY <2>2 DEF CloseSkip, CallerGoes, semVars
  <2>3. QED
    BY <1>3, <2>1, <2>2
<1>4. ASSUME NEW c \in Callers, CloseWaitReturns(c)
      PROVE  IInv'
  <2>1. \A v \in Workers : workPc[v] \in {"none", "clear", "done"}
    BY <1>0, <1>4, WaitSeesWakeup DEF StartedOnce
  <2>2. Announced
    BY <1>4, WaitSeesWakeup
  <2>3. TypeOK'
    BY <1>4 DEF CloseWaitReturns, WaitReturns, MustWait, CallerGoes
  <2>4. HolderInv' /\ WaitedInv'
    BY <1>4, <2>1 DEF CloseWaitReturns, CallerGoes
  <2>5. QED
    BY <1>4, <2>2, <2>3, <2>4 DEF CloseWaitReturns
<1>5. ASSUME NEW c \in Callers, CloseWaitBlocks(c)
      PROVE  IInv'
  BY <1>5 DEF CloseWaitBlocks, WaitBlocks, MustWait, CallerGoes
<1>6. ASSUME NEW c \in Callers, CloseResumes(c)
      PROVE  IInv'
  <2>1. \A v \in Workers : workPc[v] \in {"none", "clear", "done"}
    BY <1>0, <1>6, WaitSeesWakeup DEF StartedOnce
  <2>2. Announced
    BY <1>6, WaitSeesWakeup
  <2>3. TypeOK'
    BY <1>6 DEF CloseResumes, WaitResumes, CallerGoes
  <2>4. HolderInv' /\ WaitedInv'
    BY <1>6, <2>1 DEF CloseResumes, CallerGoes
  <2>5. QED
    BY <1>6, <2>2, <2>3, <2>4 DEF CloseResumes
<1>7. ASSUME NEW c \in Callers, Destroy(c)
      PROVE  IInv'
  <2>1. deleted' \in BOOLEAN
    BY <1>7 DEF Destroy
  <2>2. QED
    BY <1>7, <2>1 DEF Destroy, semVars
<1>8. ASSUME NEW w \in Workers, OnCreate(w) \/ RunEnds(w) \/ RunFails(w) \/ OnDestory(w)
      PROVE  IInv'
  <2>1. w = 1
    BY <1>8, OneWorker DEF OnCreate, RunEnds, RunFails, OnDestory, WorkerGoes
  <2>2. workPc[1] \in InCallback /\ workPc' = [workPc EXCEPT ![1] = workPc'[1]]
    BY <1>0, <1>8, <2>1 DEF OnCreate, RunEnds, RunFails, OnDestory, WorkerGoes
  <2>3. workPc'[1] \in {"run", "exit", "destory", "wakeup"}
    BY <1>0, <1>8, <2>1 DEF OnCreate, RunEnds, RunFails, OnDestory, WorkerGoes
  <2>4. UNCHANGED <<bRun, mutex, callerPc, deleted, waitNum, wakeupNum>>
    BY <1>8 DEF OnCreate, RunEnds, RunFails, OnDestory, semVars
  <2>5. QED
    BY <1>0, <2>2, <2>3, <2>4
<1>9. ASSUME NEW w \in Workers, Exit(w) \/ WorkClear(w)
      PROVE  IInv'
  <2>1. bRun' \in BOOLEAN /\ ~bRun'
    BY <1>9 DEF Exit, WorkClear
  <2>2. w = 1
    BY <1>9, OneWorker DEF Exit, WorkClear, WorkerGoes
  <2>3. CASE Exit(w)
    BY <1>0, <2>1, <2>2, <2>3 DEF Exit, WorkerGoes, semVars
  <2>4. CASE WorkClear(w)
    BY <1>0, <2>1, <2>2, <2>4 DEF WorkClear, WorkerGoes, semVars
  <2>5. QED
    BY <1>9, <2>3, <2>4
<1>10. ASSUME NEW w \in Workers, WorkWakeup(w)
       PROVE  IInv'
  <2>1. w = 1
    BY <1>10, OneWorker DEF WorkWakeup, WorkerGoes
  <2>2. QED
    BY <1>0, <1>10, <2>1 DEF WorkWakeup, Wakeup, WorkerGoes
<1>11. CASE UNCHANGED vars
  BY <1>11 DEF vars
<1>12. QED
  BY <1>1, <1>2, <1>3, <1>4, <1>5, <1>6, <1>7, <1>8, <1>9, <1>10, <1>11
     DEF Next, Caller, CloseStep, OnWork

\* RunningInv is inductive with IInv when onRun never calls Exit.
LEMMA NextRunning ==
  ASSUME MaxStarts = 1, ErrorExit = FALSE, IInv, RunningInv, [Next]_vars
  PROVE  RunningInv'
<1> USE DEF RunningInv, Quiet
<1> workPc \in [1..1 -> WorkPc]
  BY DEF IInv, TypeOK, Workers
<1>1. ASSUME NEW c \in Callers, Start(c)
      PROVE  RunningInv'
  <2>1. bRun'
    BY <1>1 DEF Start
  <2>2. workPc'[1] = "create"
    BY <1>1 DEF Start, WorkerGoes, Workers
  <2>3. QED
    BY <2>1, <2>2
<1>2. ASSUME NEW c \in Callers, CloseCall(c) \/ CloseSkip(c) \/ CloseWaitBlocks(c) \/ Destroy(c)
      PROVE  RunningInv'
  BY <1>2 DEF CloseCall, CloseSkip, CloseWaitBlocks, Destroy
<1>3. ASSUME NEW c \in Callers, CloseStop(c)
      PROVE  RunningInv'
  BY <1>3, CallersAssumption DEF CloseStop
<1>4. ASSUME NEW c \in Callers, CloseWaitReturns(c) \/ CloseResumes(c)
      PROVE  RunningInv'
  <2>1. Announced
    BY <1>4, WaitSeesWakeup
  <2>2. QED
    BY <1>4, <2>1 DEF CloseWaitReturns, CloseResumes, Announced
<1>5. ASSUME NEW w \in Workers, OnCreate(w) \/ RunEnds(w) \/ OnDestory(w)
      PROVE  RunningInv'
  BY <1>5 DEF OnCreate, RunEnds, OnDestory, WorkerGoes, Workers
<1>6. ASSUME NEW w \in Workers, WorkWakeup(w) \/ WorkClear(w)
      PROVE  RunningInv'
  BY <1>6 DEF WorkWakeup, WorkClear, WorkerGoes, Workers, RunningInv
<1>7. ASSUME NEW w \in Workers, RunFails(w) \/ Exit(w)
      PROVE  FALSE
  BY <1>7 DEF RunFails, Exit, WorkerGoes, Workers
<1>8. CASE UNCHANGED vars
  BY <1>8 DEF vars
<1>9. QED
  BY <1>1, <1>2, <1>3, <1>4, <1>5, <1>6, <1>7, <1>8 DEF Next, Caller, CloseStep, OnWork

-----------------------------------------------------------------------------
(* The theorems.                                                           *)

\* The inductive invariant holds up to the second start.
THEOREM IInvCorrect == Spec => [](StartedOnce => IInv)
<1>1. Init => (StartedOnce => IInv)
  BY InitIInv
<1>2. TypeOK /\ (StartedOnce => IInv) /\ [Next]_vars => (StartedOnce => IInv)'
  BY NextIInv, StartsAreKept
<1>3. QED
  BY <1>1, <1>2, TypeCorrect, PTL DEF Spec

\* With and without Exit, a Close that stopped the thread and came back from
\* the semaphore finds no worker inside a callback (CELLThread::Close).
THEOREM WaitedCloseSynchronous == Spec => []WaitedCloseIsSynchronous
<1>1. (StartedOnce => IInv) => WaitedCloseIsSynchronous
  BY DEF IInv, WaitedInv, WaitedCloseIsSynchronous
<1>2. QED
  BY <1>1, IInvCorrect, PTL

\* If no callback calls Exit, every return from Close, by whichever caller and
\* along whichever path, finds the worker out of its callbacks.
THEOREM CloseQuiet ==
  ASSUME MaxStarts = 1, ErrorExit = FALSE
  PROVE  Spec => CloseReturnsQuiet
<1> DEFINE Returns(c) == callerPc[c] \notin Returned /\ callerPc'[c] \in Returned
           AllQuiet   == \A w \in Workers : workPc[w] \in Quiet
<1>1. ASSUME IInv, RunningInv, [Next]_vars, NEW c \in Callers, Returns(c)
      PROVE  AllQuiet
  <2> workPc \in [1..1 -> WorkPc] /\ callerPc \in [Callers -> CallerPc] /\ Workers = 1..1
    BY <1>1 DEF IInv, TypeOK, Workers
  <2>1. CASE \E d \in Callers : CloseWaitReturns(d) \/ CloseResumes(d)
    BY <1>1, <2>1, WaitSeesWakeup DEF Announced, Quiet
  <2>2. CASE \E d \in Callers : CloseSkip(d)
    BY <1>1, <2>2 DEF CloseSkip, RunningInv, Quiet
  <2>3. CASE \E d \in Callers : Start(d) \/ CloseCall(d) \/ CloseStop(d) \/ CloseWaitBlocks(d) \/ Destroy(d)
    BY <1>1, <2>3 DEF Start, CloseCall, CloseStop, CloseWaitBlocks, Destroy, CallerGoes, Returned
  <2>4. CASE \E w \in Workers : OnWork(w)
    BY <1>1, <2>4 DEF OnWork, OnCreate, RunEnds, RunFails, Exit, OnDestory, WorkWakeup, WorkClear
  <2>5. CASE UNCHANGED vars
    BY <1>1, <2>5 DEF vars
  <2>6. QED
    BY <1>1, <2>1, <2>2, <2>3, <2>4, <2>5 DEF Next, Caller, CloseStep
<1>2. IInv /\ RunningInv /\ [Next]_vars =>
        [\A c \in Callers : Returns(c) => AllQuiet]_vars
  BY <1>1
<1>3. Init => IInv /\ RunningInv
  BY InitIInv
<1>4. IInv /\ RunningInv /\ [Next]_vars => (IInv /\ RunningInv)'
  <2>1. StartedOnce /\ StartedOnce'
    BY DEF StartedOnce, Workers
  <2>2. QED
    BY <2>1, NextIInv, NextRunning
<1>5. QED
  BY <1>2, <1>3, <1>4, PTL DEF Spec, CloseReturnsQuiet

\* The same assumptions make the object a WorkThread for its owner: the owner
\* sees Start, the order to stop, the end of the callbacks and the return of
\* Close in that order, whatever the semaphore and the mutex do in between.
THEOREM WorkThreadImplemented ==
  ASSUME MaxStarts = 1, ErrorExit = FALSE
  PROVE  Spec => ImplementsWorkThread
<1> USE DEF Stage, InCallback
<1>1. Init => Contract!ThreadInit
  <2> SUFFICES ASSUME Init
               PROVE  Contract!ThreadInit
    OBVIOUS
  <2>1. Stage = "new"
    BY DEF Init, Workers
  <2>2. SomeCloseReturned = FALSE
    BY DEF Init, SomeCloseReturned, Returned
  <2>3. QED
    BY <2>1, <2>2 DEF Contract!ThreadInit
<1>2. ASSUME IInv, RunningInv, [Next]_vars
      PROVE  [Contract!ThreadNext]_(Contract!threadVars)
  <2> workPc \in [1..1 -> WorkPc] /\ callerPc \in [Callers -> CallerPc] /\ Workers = 1..1
    BY <1>2 DEF IInv, TypeOK, Workers
  <2> workPc[1] \in WorkPc
    OBVIOUS
  <2> USE DEF WorkPc, Quiet
  <2>1. ASSUME NEW c \in Callers, Start(c)
        PROVE  Contract!Launch
    <3>1. Stage = "new"
      BY <2>1 DEF Start, WorkerGoes
    <3>2. workPc'[1] = "create" /\ bRun'
      BY <2>1 DEF Start, WorkerGoes
    <3>3. Stage' = "running"
      BY <3>2
    <3>4. SomeCloseReturned' = FALSE
      BY <2>1 DEF Start, SomeCloseReturned, Returned
    <3>5. QED
      BY <3>1, <3>3, <3>4 DEF Contract!Launch
  <2>2. ASSUME NEW c \in Callers, CloseCall(c)
        PROVE  Contract!CallAgain \/ UNCHANGED <<Stage, SomeCloseReturned>>
    <3>1. Stage' = Stage
      BY <2>2 DEF CloseCall
    <3>2. SomeCloseReturned' => SomeCloseReturned
      BY <2>2 DEF CloseCall, CallerGoes, SomeCloseReturned, Returned
    <3>3. QED
      BY <3>1, <3>2 DEF Contract!CallAgain, SomeCloseReturned
  <2>3. ASSUME NEW c \in Callers, CloseStop(c)
        PROVE  Contract!AskToStop \/ UNCHANGED <<Stage, SomeCloseReturned>>
    <3>1. ~bRun' /\ bRun
      BY <2>3 DEF CloseStop
    <3>2. SomeCloseReturned' <=> SomeCloseReturned
      BY <2>3 DEF CloseStop, CallerGoes, SomeCloseReturned, Returned, CallerPc, Resting
    <3>3. (Stage = "running" /\ Stage' = "stopping") \/ Stage' = Stage
      BY <2>3, <3>1, <1>2 DEF CloseStop, IInv, StartedInv
    <3>4. QED
      BY <3>2, <3>3 DEF Contract!AskToStop, SomeCloseReturned
  <2>4. ASSUME NEW c \in Callers, CloseSkip(c) \/ CloseWaitReturns(c) \/ CloseResumes(c)
        PROVE  Contract!ReturnFromClose
    <3>1. workPc[1] \in Quiet
      <4>1. CASE CloseSkip(c)
        BY <1>2, <4>1 DEF CloseSkip, RunningInv
      <4>2. CASE CloseWaitReturns(c) \/ CloseResumes(c)
        BY <1>2, <4>2, WaitSeesWakeup DEF Announced
      <4>3. QED
        BY <2>4, <4>1, <4>2
    <3>2. Stage \in {"new", "ended"} /\ Stage' = Stage
      BY <2>4, <3>1 DEF CloseSkip, CloseWaitReturns, CloseResumes
    <3>3. callerPc'[c] \in Returned
      BY <2>4 DEF CloseSkip, CloseWaitReturns, CloseResumes, CallerGoes, Returned
    <3>4. SomeCloseReturned' = TRUE
      BY <3>3 DEF SomeCloseReturned
    <3>5. QED
      BY <3>2, <3>4 DEF Contract!ReturnFromClose
  <2>5. ASSUME NEW c \in Callers, CloseWaitBlocks(c) \/ Destroy(c)
        PROVE  UNCHANGED <<Stage, SomeCloseReturned>>
    <3>1. Stage' = Stage
      BY <2>5 DEF CloseWaitBlocks, Destroy
    <3>2. SomeCloseReturned' <=> SomeCloseReturned
      BY <2>5 DEF CloseWaitBlocks, Destroy, CallerGoes, SomeCloseReturned, Returned, CallerPc, Resting
    <3>3. QED
      BY <3>1, <3>2 DEF SomeCloseReturned
  <2>6. ASSUME NEW w \in Workers, OnWork(w)
        PROVE  Contract!LeaveCallbacks \/ UNCHANGED <<Stage, SomeCloseReturned>>
    <3>1. callerPc' = callerPc
      BY <2>6 DEF OnWork, OnCreate, RunEnds, RunFails, Exit, OnDestory, WorkWakeup, WorkClear
    <3>2. SomeCloseReturned' = SomeCloseReturned
      BY <3>1 DEF SomeCloseReturned
    <3>3. CASE OnDestory(w)
      <4>1. Stage = "stopping" /\ Stage' = "ended"
        BY <1>2, <3>3 DEF OnDestory, WorkerGoes, RunningInv
      <4>2. QED
        BY <3>2, <4>1 DEF Contract!LeaveCallbacks
    <3>4. CASE OnCreate(w) \/ RunEnds(w)
      <4>1. Stage' = Stage
        BY <3>4 DEF OnCreate, RunEnds, WorkerGoes
      <4>2. QED
        BY <3>2, <4>1
    <3>5. CASE WorkWakeup(w) \/ WorkClear(w)
      <4>1. Stage' = Stage
        BY <3>5 DEF WorkWakeup, WorkClear, WorkerGoes
      <4>2. QED
        BY <3>2, <4>1
    <3>6. CASE RunFails(w) \/ Exit(w)
      BY <1>2, <3>6 DEF RunFails, Exit, WorkerGoes, RunningInv
    <3>7. QED
      BY <2>6, <3>3, <3>4, <3>5, <3>6 DEF OnWork
  <2>7. CASE UNCHANGED vars
    BY <2>7 DEF vars, SomeCloseReturned, Contract!threadVars
  <2>8. QED
    BY <1>2, <2>1, <2>2, <2>3, <2>4, <2>5, <2>6, <2>7
       DEF Next, Caller, CloseStep, Contract!ThreadNext, Contract!threadVars
<1>3. Init => IInv /\ RunningInv
  BY InitIInv
<1>4. IInv /\ RunningInv /\ [Next]_vars => (IInv /\ RunningInv)'
  <2>1. StartedOnce /\ StartedOnce'
    BY DEF StartedOnce, Workers
  <2>2. QED
    BY <2>1, NextIInv, NextRunning
<1>5. QED
  BY <1>1, <1>2, <1>3, <1>4, PTL DEF Spec, ImplementsWorkThread, Contract!ThreadSpec

=============================================================================
