SPECIFICATION PdfSpec
CONSTANTS
  MAX_OBJECT_NESTING = 2
  MAX_INFLATED_BYTES = 9
  INFLATE <- MCInflate
  MAX_TABLE_PRIMITIVES = 2
  MAX_LABEL_CHARS = 22
  ROMAN_TAIL_MAX = 16
  LETTERS = 4
  MAX_U64 = 100
  MAX_CALL_IMAGE_BYTES = 40
  DEFAULT_MAX_IMAGE_BYTES = 24
  PdfCases <- ImageCases
INVARIANT InflationRefusesTheRest
CHECK_DEADLOCK FALSE
