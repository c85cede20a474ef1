\* Three cases, two writes to a pipe, models that may leave helpers holding it.
SPECIFICATION Spec
CONSTANTS
  N = 3
  MAX_WRITES = 2
INVARIANTS
  TypeOK
  ReportIsTrue
PROPERTIES
  HonoursContract
  RoundEnds
