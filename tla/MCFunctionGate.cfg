\* Four cases, the first of which a scout may take.
SPECIFICATION Spec
CONSTANTS
  p = p
  q = q
  slow = slow
  wild = wild
  huge = huge
  Unpackable = {huge}
  Timeout = Timeout
  MemFault = MemFault
  BadSpec = BadSpec
  BadValue = BadValue
  CrashReport = CrashReport
  Points = {p, q, slow, wild, huge}
  Values <- MCValues
  Outcomes <- MCOutcomes
  Specs <- MCSpecs
  ScoutPools <- MCScoutPools
  Claims <- MCClaims
  N_FUZZ = 4
  SCOUT_SLICE_MAX = 2
  MAX_ARGS = 6
INVARIANTS
  TypeOK
  AcceptIsEarned
  RoundNotVacuous
  ScoutsDecideNothing
  FaithfulNeverBlamed
