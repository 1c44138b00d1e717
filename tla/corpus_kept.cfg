SPECIFICATION CorpusSpec
CONSTANTS
  Contents = {v1, v2}
  MaxEdits = 1
  MaxPasses = 1
PROPERTIES GitFailureKeepsCorpus
CHECK_DEADLOCK FALSE
