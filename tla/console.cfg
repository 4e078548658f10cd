SPECIFICATION Spec
CONSTANTS
  Uses <- MCUses
CHECK_DEADLOCK FALSE
INVARIANTS
  ConsoleTypeOK
PROPERTIES
  ViewNeverGoesBack PendingResolves PageSettles
