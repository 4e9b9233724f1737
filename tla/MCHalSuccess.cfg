CONSTANTS
  t1 = t1
  Threads <- MCThreads
  Slots <- JsonText
  BufLens <- MCBufLens
  JavaAnswers <- JsonAnswers
SPECIFICATION Spec
INVARIANT SuccessWritesOutput
CHECK_DEADLOCK FALSE
