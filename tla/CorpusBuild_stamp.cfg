\* Does the stamp vouch for every entry when builds may be filtered?
SPECIFICATION Spec
CONSTANTS
  Seeds = {"calc"}
  Builders = {"maker"}
  MAX_EDITS = 1
  MAX_CODE = 2
  MAX_BUILDS = 2
  Torn = Torn
CHECK_DEADLOCK FALSE
INVARIANT StampTrue
