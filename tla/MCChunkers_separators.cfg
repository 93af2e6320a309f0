SPECIFICATION Spec
CONSTANTS
  TextCalls <- MCTextCalls
  SegmentCalls <- MCSegmentCalls
  HierarchicalCalls <- MCHierarchicalCalls
INVARIANT NoChunkOpensOnASeparator
CHECK_DEADLOCK FALSE
