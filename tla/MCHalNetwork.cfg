CONSTANTS
  t1 = t1
  Threads <- MCThreads
  Slots <- Registered
  BufLens <- MCBufLens
  JavaAnswers <- MCJavaAnswers
SPECIFICATION Spec
INVARIANT NetworkStatusTruthful
CHECK_DEADLOCK FALSE
