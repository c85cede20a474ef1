\* Is every started case reported when the model may leave a helper?
SPECIFICATION Spec
CONSTANTS
  N = 1
  MAX_WRITES = 1
PROPERTY CaseReported
