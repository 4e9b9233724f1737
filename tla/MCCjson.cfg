SPECIFICATION Spec
CHECK_DEADLOCK FALSE
CONSTANTS
  IntMax = 40
  NumberBuf = 6
  NestingLimit = 2
  DefaultSize = 4
  Calls <- MCCalls
  Jobs <- MCJobs
  Trees <- MCTrees
  NewStrings <- MCStrings
  NewNumbers <- MCNumbers
INVARIANTS
  NothingLeaks
  NestingBounded
  ParserInBounds
  ErrorInText
  ParsesExactly
  RoundTrip
  PrinterInBounds
  PrintKeepsNothing
  PrintsExactly
