CONSTANTS
  t1 = t1
  Threads <- MCThreads
  Slots <- Wrappers
  BufLens <- MCBufLens
  JavaAnswers <- MCJavaAnswers
SPECIFICATION Spec
INVARIANTS
  OutputOnlyOnSuccess
  TextFitsBuffer
  MissingMethodReported
  DbmDelivered
  SuccessWritesOutputElsewhere
CHECK_DEADLOCK FALSE
