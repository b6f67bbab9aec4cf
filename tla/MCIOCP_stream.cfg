\* Everything that can go wrong with the connection.
SPECIFICATION FairSpec
CONSTANTS
  RecvCap = 4
  SendCap = 3
  HeaderLen = 2
  MsgLens = {2, 3}
  MaxBytes = 5
  Faults = {"fin", "reset", "refused", "error", "heart"}
\* The connection may be idle, or gone.
CHECK_DEADLOCK FALSE
INVARIANTS TypeOK RecvIntact
PROPERTIES WireInOrder MessagesAreHandled RepliesAreSent GoneClientLeaves
