\* As MCSchema: who changes the tables of a database that is claimed.
CONSTANTS
  Process = {p1, p2}
  Label = {production, preview}
  UNLABELLED = UNLABELLED
  NULL = NULL
  MaxCrashes = 2
  MaxTimeouts = 1
CONSTANTS
  Scripts <- MCScripts
  Builds <- MCBuilds
SPECIFICATION Spec
PROPERTY
  OthersDoNotMigrate
