----------------------------- MODULE TaskQueue ------------------------------
(***************************************************************************)
(* What a CellTaskServer promises: tasks are numbered as they are added,   *)
(* wait in one queue and are run one at a time in that order.  While the   *)
(* server is open nothing leaves the queue but by being run; afterwards    *)
(* tasks added since it was closed may be dropped, and only those.         *)
(***************************************************************************)
EXTENDS Integers, Sequences

VARIABLES
  pending,   \* the tasks that wait
  executed,  \* the tasks that have been run
  added,     \* how many have been added
  promised,  \* how many had been added when the server was closed
  open       \* the server has not been closed

queueVars == <<pending, executed, added, promised, open>>

Init ==
  /\ pending = <<>> /\ executed = <<>>
  /\ added = 0 /\ promised = 0
  /\ open = TRUE

Add ==
  /\ added' = added + 1
  /\ pending' = Append(pending, added')
  /\ UNCHANGED <<executed, promised, open>>

Run ==
  /\ pending # <<>>
  /\ executed' = Append(executed, Head(pending))
  /\ pending' = Tail(pending)
  /\ UNCHANGED <<added, promised, open>>

Shut ==
  /\ open
  /\ open' = FALSE
  /\ promised' = added
  /\ UNCHANGED <<pending, executed, added>>

Drop ==
  /\ ~open
  /\ \A i \in 1..Len(pending) : pending[i] > promised
  /\ pending' = <<>>
  /\ UNCHANGED <<executed, added, promised, open>>

Next == Add \/ Run \/ Shut \/ Drop

Spec == Init /\ [][Next]_queueVars

=============================================================================
