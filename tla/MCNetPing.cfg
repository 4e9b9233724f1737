CONSTANTS
  Samples <- MCSamples
  Addresses <- MCAddresses
  MaxCalls = 2
SPECIFICATION FairSpec
INVARIANTS
  TypeOK
  DiesOnlyInRelease
  LateMessageHarmless
  DelayFromOwnSamples
  GivesUpOnTwoInARow
PROPERTIES
  ChainsPersist
  RestsAfterRelease
CHECK_DEADLOCK FALSE
