\* A campaign writer beside another builder, both cut off anywhere, across
\* edits and upgrades.
SPECIFICATION CSpec
CONSTANTS
  Seeds = {"calc"}
  Builders = {"writer", "maker"}
  Writer = "writer"
  Requests <- MCRequests
  FUNCS = 1
  MAX_EDITS = 2
  MAX_CODE = 2
  MAX_BUILDS = 2
  Torn = Torn
  Unknown = Unknown
CHECK_DEADLOCK FALSE
INVARIANTS
  TypeOK
  FullStampTrue
  EntriesMatchBinaries
  TargetedKeepsOthers
  CampaignWhole
  TasksAgree
  RebuildSuffices
