\* Four items, each of them part of another or of none.
CONSTANTS
  NULL = NULL
  MaxLinks = 3
CONSTANTS
  Kinds <- MCKinds
  Types <- MCTypes
  Positions <- MCPositions
  Backups <- MCBackups
SPECIFICATION Spec
PROPERTIES
  LandsWhereAsked
  Outlined
