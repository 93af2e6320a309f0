SPECIFICATION Spec
CONSTANTS
  TextCalls <- MCTextCalls
  SegmentCalls <- MCSegmentCalls
  HierarchicalCalls <- MCHierarchicalCalls
INVARIANTS ChunksAdvance WithinBudget SegmentWindows PretestIsSound CoarsestRules OnlySeparatorsLost
PROPERTY TextCovers
CHECK_DEADLOCK FALSE
