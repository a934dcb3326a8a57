\* Three items with up to three relations between them.
CONSTANTS
  NULL = NULL
  MaxLinks = 3
CONSTANTS
  Kinds <- MCKinds
  Types <- RelationType
  Positions <- MCPositions
  Backups <- MCBackups
SPECIFICATION Spec
INVARIANTS
  NoLoops
  OneAnswer
  Restorable
