CONSTANTS
  Samples <- OkSamples
  Addresses <- LiteralDomain
  MaxCalls = 1
SPECIFICATION Spec
INVARIANT DelayMeasured
CHECK_DEADLOCK FALSE
