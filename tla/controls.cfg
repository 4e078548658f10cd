SPECIFICATION FairControlSpec
CONSTANTS
  Events = {"paid"}
  TypeOf <- MCTypeOf
  Actions = {}
  Decisions <- NoActions
  Persistent = TRUE
  MaxControls = 4
  Requests = {"pause", "resume", "terminate", "paid"}
  Asks <- MCAsks
INVARIANTS
  ControlTypeOK AcceptedEventKept
PROPERTIES
  TerminateHeeded HoldReachesRow
CHECK_DEADLOCK FALSE
