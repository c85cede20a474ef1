\* Does an extra read-open ever shift the numbering?
SPECIFICATION Spec
CONSTANTS
  MAX_FD = 3
  MAX_OPENS = 2
  MAX_EVENTS = 1
  MAX_COUNT = 3
  ADDR_MIN = 3
CONSTRAINT Comparing
INVARIANT ExtraReadsInvisible
