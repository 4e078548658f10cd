SPECIFICATION Spec
CONSTANTS
  Events = {"paid", "delayed", "delivered"}
  TypeOf <- MCTypeOf
  Actions = {"notify_customer", "create_internal_note"}
  Decisions <- NoActions
  Persistent = TRUE
  MaxControls = 2
INVARIANTS
  TypeOK PlacesAgree EventsInOrder ProjectionFollows DeadlinesKept OutcomeDecided
PROPERTIES
  HoldStaysShown OverdueAnswered ImplementsContract
