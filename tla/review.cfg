SPECIFICATION Spec
CONSTANTS
  ContextMaxChars = 12
  ActivityLimit = 3
  InstructionLimit = 3
  ActivityFloor = 1
  InstructionFloor = 1
  Actions = {"message_logistics_team", "message_customer"}
  Texts = {"a", "b", "c", "long"}
  Cut <- MCCut
  MemoryItems = 2
  MemoryShown = 2
  FinalActivityLimit = 3
  TextChars <- MCTextChars
  ItemChars = 1
  HeadChars = 1
  DetailChars = 1
  Events = {"d1", "d2", "p1"}
  TypeOf <- MCTypeOf
  Configurations <- MCConfigurations
  Plans <- MCPlans
  Recollections <- MCRecollections
  BaseChars = 1
  InitialChars = 1
INVARIANTS
  ReviewTypeOK MemoryHonest ReportNamesExecuted ContextSound AnalyticsTrue
PROPERTIES
  InstructionsRemembered
