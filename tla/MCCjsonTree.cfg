CONSTANTS
  n1 = n1
  n2 = n2
  n3 = n3
  n4 = n4
  NULL = NULL
  Nodes <- MCNodes
  Keys <- MCKeys
  Lower <- MCLower
  Given = {"k"}
  MaxRefs = 1
SYMMETRY Sym
SPECIFICATION Spec
INVARIANTS
  TypeOK
  ListsWellFormed
  NamesOwned
  OnlyReferencesLeak
PROPERTIES
  ImplementsTree
CHECK_DEADLOCK FALSE
