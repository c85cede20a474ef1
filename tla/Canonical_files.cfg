\* Three files and stdout over three descriptors, two writes each, of counts
\* below and from ADDR_MIN up.
SPECIFICATION Spec
CONSTANTS
  MAX_FD = 3
  MAX_OPENS = 3
  MAX_EVENTS = 2
  MAX_COUNT = 3
  ADDR_MIN = 3
CONSTRAINT Comparing
INVARIANTS
  TypeOK
  OpenFilesDistinct
  TracesTellWritesApart
