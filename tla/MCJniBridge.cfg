CONSTANTS
  t1 = t1
  t2 = t2
  NoRef = NoRef
  Threads <- MCThreads
  Slots <- MCSlots
  BufLens <- MCBufLens
  JavaAnswers <- MCJavaAnswers
  Provided <- MCProvided
  Faults <- AllFaults
  MaxStarts = 2
SYMMETRY Sym
SPECIFICATION Spec
INVARIANTS
  TypeOK
  ClassRefLive
  IdleDetached
  NullEnvExplained
PROPERTIES
  LeakedThreadDoomed
  ImplementsHal
CHECK_DEADLOCK FALSE
