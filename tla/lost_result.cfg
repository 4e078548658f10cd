SPECIFICATION Spec
CONSTANTS
  Events = {"delayed"}
  TypeOf <- MCTypeOf
  Actions = {"notify_customer", "create_internal_note"}
  Decisions <- OneAction
  Persistent = TRUE
  MaxControls = 0
PROPERTIES
  FiresOncePerEvent
