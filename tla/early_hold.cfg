SPECIFICATION Spec
CONSTANTS
  Events = {"delayed"}
  TypeOf <- MCTypeOf
  Actions = {"notify_customer", "create_internal_note"}
  Decisions <- NoActions
  Persistent = TRUE
  MaxControls = 1
INVARIANTS
  HeldRunShowsHold
