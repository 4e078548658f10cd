SPECIFICATION Spec
CONSTANTS
  Events = {"delayed", "refund"}
  TypeOf <- MCTypeOf
  Actions = {"notify_customer", "create_internal_note"}
  Decisions <- NoActions
  Persistent = TRUE
  MaxControls = 2
PROPERTIES
  MissedDeadlineReviewed
