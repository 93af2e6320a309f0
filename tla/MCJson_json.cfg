SPECIFICATION JsonSpec
CONSTANTS
  MAX_NESTING = 8
  MAX_ENTRIES_PER_KEY = 2
  CODES <- MCCodes
  CODE_OF <- MCCodeOf
  STACK_WORDS = 2
  WORD = 2
  INT_DIGITS = 3
  MAX_EXPONENT = 3
  ValidTexts <- MCValidTexts
  RepairTexts <- MCRepairTexts
  RepairOptions <- MCRepairOptions
  FenceTexts <- MCFenceTexts
INVARIANTS LookaheadsExact RepairedIsJson DeadlineRefuses ReadersAgree FenceViewsAgree StackIsFaithful
CHECK_DEADLOCK FALSE
