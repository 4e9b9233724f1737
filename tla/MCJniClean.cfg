CONSTANTS
  t1 = t1
  t2 = t2
  NoRef = NoRef
  Threads <- MCThreads
  Slots <- MCSlots
  BufLens <- MCBufLens
  JavaAnswers <- MCJavaAnswers
  Provided <- AllMethods
  Faults <- NoFaults
  MaxStarts = 2
SPECIFICATION FairSpec
CHECK_DEADLOCK FALSE
INVARIANT CleanRunsSurvive
PROPERTY EveryCallReturns
