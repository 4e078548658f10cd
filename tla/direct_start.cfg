SPECIFICATION FairSpec
CONSTANTS
  Events = {"paid", "delayed", "delivered"}
  TypeOf <- MCTypeOf
  Actions = {"notify_customer", "create_internal_note"}
  Decisions <- OneAction
  Persistent = FALSE
  MaxControls = 2
PROPERTIES
  EventsSettle KeepsContract
