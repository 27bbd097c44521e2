\* A server that writes more to stderr than the tail and the pipe hold, and answers or not.
SPECIFICATION FairSpec
CONSTANTS
  TailCap = 2
  Chunk = 2
  PipeCap = 2
  MaxBytes = 5
  Needs = 3
  SettleLimit = 1
  RequestLimit = 2
  ProbeLimit = 2
  StartLimit = 4
  MaxTime = 6
INVARIANTS TailIsLastWords NoLostWakeup NoServerLeftBehind
PROPERTIES LastWordsComplete ProbeEnds StderrNeverBlocks
