\* Leaf functions, and writers the screen sees or cannot scan.
SPECIFICATION Spec
CONSTANTS
  Inputs = {"bump", "wild", "spin", "wide", "tear"}
  Unpackable = {"wide"}
  Guest = {0, 1, 2}
  Outside = {0, 1, 2}
  BootGuest = 0
  BootOutside = 0
  Nothing = Nothing
  ReadBack <- MCReadBack
  MAX_ROUND = 3
  Functions <- Screened
INVARIANTS
  TypeOK
  PristineStart
  ProbeFaultsSurface
PROPERTY AnswersAsFresh
