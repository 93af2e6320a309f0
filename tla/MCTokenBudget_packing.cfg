SPECIFICATION FairSpec
CONSTANTS
  Calls <- MCCalls
  MaxTokens = 3
  Counts = {0, 1, 3, 4}
INVARIANTS BudgetKept CountsCertified NothingWasted
PROPERTIES Terminates Covers
CHECK_DEADLOCK FALSE
