\* The image may be rebuilt while the re-grade runs: who is to blame for a flip?
SPECIFICATION Spec
CONSTANTS
  Images = {"a", "b"}
  MAX_JUDGE = 2
  Decide <- MCDecide
  NeedsJob <- MCNeedsJob
  Draws <- MCDraws
  Offered <- MCOffered
  Submissions = {"good", "early"}
  LIVE_REBUILDS = TRUE
  MAX_CHECKS = 1
INVARIANT FlipsAreTheJudges
