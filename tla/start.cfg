SPECIFICATION FairStartSpec
CONSTANTS
  Requests = {r1, r2, r3}
  r1 = r1
  r2 = r2
  r3 = r3
  Faults = {"commit_lost", "start_lost", "answer_lost", "handle_lost", "mark_lost", "api_dies"}
INVARIANTS
  StartTypeOK OneActiveRow AnswersTrue NoOrphanRow
PROPERTIES
  ProjectionCatchesUp
CHECK_DEADLOCK FALSE
