SPECIFICATION FairSpec
CONSTANTS
  Events = {"delayed"}
  TypeOf <- MCTypeOf
  Actions = {"notify_customer", "create_internal_note"}
  Decisions <- OnePlan
  Persistent = TRUE
  MaxControls = 2
PROPERTIES
  TerminationCompletes EventsSettle SupervisionContinues HoldStopsAutomation OncePerCause
