\* Any number of requests and a budget of two probes; four submissions
\* of which the third exact and the fourth near repeat are refused.
SPECIFICATION Spec
CONSTANTS
  Requests <- MCRequests
  Bundles <- MCBundles
  Outcomes <- MCOutcomes
  Close <- MCClose
  Absent = Absent
  Junk = Junk
  MAX_ARGS = 2
  MAX_ARG = 2
  MAX_STDIN = 2
  MAX_BUFFER_LEN = 2
  BAREGS = 6
  I32 = {0, 1, 2}
  BUDGET = 2
  SUBMISSIONS = 4
  EXACT_REPEATS = 2
  NEAR_REPEATS = 3
  WINDOW = 4
CHECK_DEADLOCK FALSE
INVARIANTS
  TypeOK
  RecordingsPaid
  ProbedCanBeNominated
  CorrectionsReachTheCheck
  NoFurtherCheck
PROPERTY RepeatsFree
