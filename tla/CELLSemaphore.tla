--------------------------- MODULE CELLSemaphore ---------------------------
(***************************************************************************)
(* CELLSemaphore: a counter of waiters, a counter of wakeups and a         *)
(* condition variable.  Each operation below is one critical section of    *)
(* the semaphore's own mutex.  The condition variable re-evaluates its     *)
(* predicate under that mutex, so a blocked caller leaves exactly when it  *)
(* finds wakeupNum > 0, whether a notification or a spurious wakeup made   *)
(* it look.                                                                *)
(***************************************************************************)
EXTENDS Integers

VARIABLES
  waitNum,    \* _waitNum: +1 by every Wait, -1 by every Wakeup
  wakeupNum   \* _wakeupNum: wakeups nobody has consumed yet

semVars == <<waitNum, wakeupNum>>

SemTypeOK ==
  /\ waitNum \in Int
  /\ wakeupNum \in Nat

SemInit ==
  /\ waitNum = 0
  /\ wakeupNum = 0

\* ++_waitNum > 0: only then does Wait look at the wakeups at all.
MustWait == waitNum + 1 > 0

\* Wait, returning at once.
WaitReturns ==
  /\ waitNum' = waitNum + 1
  /\ IF MustWait
       THEN wakeupNum > 0 /\ wakeupNum' = wakeupNum - 1
       ELSE UNCHANGED wakeupNum

\* Wait, blocking in the condition variable.
WaitBlocks ==
  /\ MustWait
  /\ wakeupNum = 0
  /\ waitNum' = waitNum + 1
  /\ UNCHANGED wakeupNum

\* Mutant: the condition variable without its predicate.
ResumeNoPredicate ==
  /\ wakeupNum' = wakeupNum - 1
  /\ UNCHANGED waitNum

\* A blocked Wait finds its predicate true and returns.
WaitResumes ==
  /\ wakeupNum > 0
  /\ wakeupNum' = wakeupNum - 1
  /\ UNCHANGED waitNum

\* Mutant: the wakeup is only counted when nobody waits (< for <=).
WakeupStrict ==
  /\ waitNum' = waitNum - 1
  /\ wakeupNum' = IF waitNum - 1 < 0 THEN wakeupNum + 1 ELSE wakeupNum

Wakeup ==
  /\ waitNum' = waitNum - 1
  /\ wakeupNum' = IF waitNum - 1 <= 0 THEN wakeupNum + 1 ELSE wakeupNum

=============================================================================
