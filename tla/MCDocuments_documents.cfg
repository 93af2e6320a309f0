SPECIFICATION CallSpec
CONSTANTS
  Calls <- AllCalls
  Files <- AllFiles
  LaterFiles <- Replacements
  MaxChanges = 1
  SNIFF_PREFIX = 1
  CHUNK = 2
  DEFAULT_LIMIT = 3
  MAX_INPUT_READ = 5
  MAX_OBJECT_NESTING = 2
  MAX_INFLATED_BYTES = 9
  INFLATE <- MCInflate
  MAX_TABLE_PRIMITIVES = 2
  MAX_LABEL_CHARS = 22
  ROMAN_TAIL_MAX = 16
  LETTERS = 4
  MAX_U64 = 100
  MAX_CALL_IMAGE_BYTES = 40
  DEFAULT_MAX_IMAGE_BYTES = 24
  PdfCases <- MCPdfCases
INVARIANTS InputIsBounded EngineSeesWholeDocument CapabilityRefusedFirst PathServesWhatDataServes
  ScanMatchesNesting OneDoor BoxesInOneFrame LabelsReadBack BudgetBinds
CHECK_DEADLOCK FALSE
