\* More connections than the limit allows, in one burst.
SPECIFICATION FairSpec
CONSTANTS
  NServers = 2
  MaxClient = 2
  MaxAccepts = 3
  Kinds = {"iocp"}
  Faults = {}
\* A closed server stops.
CHECK_DEADLOCK FALSE
INVARIANTS LimitKept
