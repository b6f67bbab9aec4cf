\* Messages of up to four items, some of which fill the buffer.
SPECIFICATION Spec
CONSTANTS
  Cap = 8
  LengthSize = 1
  LengthMod = 16
  CountSize = 2
  Sizes = {1, 2}
  MaxCount = 2
  MaxItems = 5
\* The message has been read.
CHECK_DEADLOCK FALSE
INVARIANTS TypeOK InBounds RoundTrip MessageConsumed
