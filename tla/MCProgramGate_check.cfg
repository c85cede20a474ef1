\* Up to two nominations and two hidden inputs out of four draws
\* over inputs of every kind; every job output of up to three lines.
SPECIFICATION Spec
CONSTANTS
  plain = plain
  other = other
  jittery = jittery
  racy = racy
  broken = broken
  NotJson = NotJson
  BadShape = BadShape
  CompileLine = CompileLine
  BadCase = BadCase
  Traces <- MCTraces
  Outcomes <- MCOutcomes
  Crashes = {"crash"}
  Inputs = {other, racy, jittery, broken}
  Stream = {other, jittery, broken}
  Claims <- MCClaims
  Bulky <- MCBulky
  Spellings = {"aa"}
  HIDDEN_N = 2
  REDRAWS = 2
  MAX_CASES = 2
  MAX_LINES = 3
INVARIANTS
  TypeOK
  AcceptIsEarned
  HiddenSuiteSound
  FaithfulNeverBlamed
  StarvationIsSpent
PROPERTY EveryCheckEnds
