SPECIFICATION FairStoreSpec
CONSTANTS
  Deeds = {d1}
  Attempts = {a1, a2, a3}
  MaximumAttempts = 3
  MaxTransitions = 2
  d1 = d1
  a1 = a1
  a3 = a3
  a2 = a2
INVARIANTS
  StoreTypeOK RowMatchesLog
PROPERTIES
  OneRowPerKey ImplementsAuditLog EveryTransitionStored
CHECK_DEADLOCK FALSE
