CONSTANTS
  h1 = h1
  h2 = h2
  e1 = e1
  e2 = e2
  e3 = e3
  NULL = NULL
  Heads <- MCHeads
  Entries <- MCEntries
SYMMETRY Sym
SPECIFICATION Spec
INVARIANTS
  TypeOK
  Mirrored
  TestsAgreeWithWalk
  LoopMissesNothing
PROPERTIES
  ImplementsLists
