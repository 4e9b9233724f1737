CONSTANTS
  t1 = t1
  t2 = t2
  NoRef = NoRef
  Threads <- MCThreads
  Slots <- MCSlots
  BufLens <- MCBufLens
  JavaAnswers <- MCJavaAnswers
  Provided <- ReadmeMethods
  Faults <- NoFaults
  MaxStarts = 1
SYMMETRY Sym
SPECIFICATION Spec
CHECK_DEADLOCK FALSE
INVARIANT TemplateServes
