----------------------------- MODULE WorkThread -----------------------------
(***************************************************************************)
(* What a CELLThread promises the object that owns it, when it is started  *)
(* once and its onRun only ends because IsRun() answers false: the worker  *)
(* leaves its callbacks after it was told to stop and never before, and no *)
(* Close returns while the worker is inside them.                          *)
(*                                                                         *)
(* CELLThread implements this specification (ImplementsWorkThread there);  *)
(* the modules of the objects that own a CELLThread are built on it.       *)
(***************************************************************************)
VARIABLES
  stage,    \* of the worker: "new", "running", "stopping" or "ended"
  returned  \* a Close has returned, and was not called again since

threadVars == <<stage, returned>>

ThreadTypeOK ==
  /\ stage \in {"new", "running", "stopping", "ended"}
  /\ returned \in BOOLEAN

ThreadInit ==
  /\ stage = "new"
  /\ returned = FALSE

IsRun == stage = "running"

\* Start() creates the worker.
Launch ==
  /\ stage = "new"
  /\ stage' = "running"
  /\ returned' = FALSE

\* Close() clears the flag that IsRun() reads.
AskToStop ==
  /\ stage = "running"
  /\ stage' = "stopping"
  /\ UNCHANGED returned

\* The worker comes out of its last callback.
LeaveCallbacks ==
  /\ stage = "stopping"
  /\ stage' = "ended"
  /\ UNCHANGED returned

\* The caller whose Close returned calls it once more.
CallAgain ==
  /\ returned
  /\ returned' = FALSE
  /\ UNCHANGED stage

\* Close() returns: the worker has left, or was never started.
ReturnFromClose ==
  /\ stage \in {"new", "ended"}
  /\ returned' = TRUE
  /\ UNCHANGED stage

ThreadNext == Launch \/ AskToStop \/ LeaveCallbacks \/ CallAgain \/ ReturnFromClose

ThreadSpec == ThreadInit /\ [][ThreadNext]_threadVars

=============================================================================
