SPECIFICATION SchemaSpec
CONSTANTS
  MAX_NESTING = 4
  MAX_ENTRIES_PER_KEY = 2
  CODES <- MCCodes
  MAX_SCHEMA_DEPTH = 3
  SAMPLE = 2
  SCORES <- MCScores
  SchemaCases <- MCSchemaCases
INVARIANTS DeadlineRefusesAlignment EveryChangeIsLogged AmbiguityIsDisclosed AnswersAreFixed
CHECK_DEADLOCK FALSE
