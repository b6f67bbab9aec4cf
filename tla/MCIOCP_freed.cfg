\* Two operations are posted when the connection goes away.
SPECIFICATION FairSpec
CONSTANTS
  RecvCap = 4
  SendCap = 3
  HeaderLen = 2
  MsgLens = {2, 3}
  MaxBytes = 3
  Faults = {"fin", "reset"}
\* The connection may be idle, or gone.
CHECK_DEADLOCK FALSE
INVARIANTS PostedIsNotDeleted
