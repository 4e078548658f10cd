SPECIFICATION FairStartSpec
CONSTANTS
  Requests = {r1, r2}
  r1 = r1
  r2 = r2
  Faults = {"answer_lost"}
PROPERTIES
  LiveRunShown
CHECK_DEADLOCK FALSE
