SPECIFICATION Spec
CONSTANTS
  TextCalls <- MCTextCalls
  SegmentCalls <- MCSegmentCalls
  HierarchicalCalls <- MCHierarchicalCalls
INVARIANT SectionsNeverMerge
CHECK_DEADLOCK FALSE
