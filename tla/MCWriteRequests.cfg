\* Two environments, two keys, requests written for versions 0 and 1.
CONSTANTS
  e1 = e1
  e2 = e2
  x = x
  y = y
  NULL = NULL
  MaxDoc = 1
CONSTANTS
  Env <- MCEnv
  Key <- MCKey
SPECIFICATION Spec
INVARIANTS
  NoEditLost
PROPERTIES
  ImplementsAtomicWrites
  OnlyWhileWriter
  EveryRequestEnds
