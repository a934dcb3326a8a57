\* Two processes of either of two builds, and three migrations.
CONSTANTS
  Process = {p1, p2}
  Label = {production, preview}
  UNLABELLED = UNLABELLED
  NULL = NULL
  MaxCrashes = 2
  MaxTimeouts = 1
CONSTANTS
  Scripts <- MCScripts
  Builds <- MCBuilds
SPECIFICATION Spec
INVARIANTS
  SchemaIsWhole
  OneEnvironment
PROPERTY
  StartsEnd
