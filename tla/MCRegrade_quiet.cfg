\* Two checks of every kind, re-graded after any change of judge and image.
SPECIFICATION Spec
CONSTANTS
  Images = {"a", "b"}
  MAX_JUDGE = 2
  Decide <- MCDecide
  NeedsJob <- MCNeedsJob
  Draws <- MCDraws
  Offered <- MCOffered
  Submissions = {"good", "flaky", "early"}
  LIVE_REBUILDS = FALSE
  MAX_CHECKS = 2
INVARIANTS
  TypeOK
  RowsComplete
  JudgedIsReplayable
  FlipsOfSteadyAreTheJudges
