CONSTANTS
  t1 = t1
  t2 = t2
  Threads <- MCThreads
  Signals = {10, 31, 99}
  MaxQueue = 4
  MaxListeners = 2
SYMMETRY Sym
SPECIFICATION Spec
INVARIANTS
  ModemConsistent
CHECK_DEADLOCK FALSE
