SPECIFICATION SimilaritySpec
CONSTANTS
  Methods = {"simhash", "shingle", "minhash"}
  Den = 3
  Width = 3
  Corpus <- SmallCorpus
  MaxTexts = 3
  MetricCalls <- AllMetricCalls
  LatestClock = 1
  WORD = 3
  POLL = 2
  WORK_POLL = 3
  CUTOFF_UNIT = 3
INVARIANTS FirstComeGroups ShortcutsAreExact NoMatchIsLost
CHECK_DEADLOCK FALSE
