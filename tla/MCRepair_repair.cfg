SPECIFICATION FairSpec
CONSTANTS
  Callers <- EveryCaller
  MAX_NESTING = 3
INVARIANTS SnapshotIsJson OffsetsHold CleanTextPasses DeltasConcatenate
PROPERTIES CommittedNumbersStay PushesReturn
