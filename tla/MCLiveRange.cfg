\* As MCChangeApproval: whether a live range always has its delegation.
CONSTANTS
  ann = ann
  bob = bob
  k1 = k1
  c1 = c1
  c2 = c2
  NULL = NULL
  e1 = e1
CONSTANTS
  Person <- MCPerson
  Connection <- MCConnection
  OwnerOf <- MCOwnerOf
  ScopeChoices <- MCScopeChoices
  Change <- MCChange
  Edit <- MCEdit
  Content <- MCContent
  RangeChoices <- MCRangeChoices
  Memberships <- MCMemberships
SPECIFICATION Spec
CONSTRAINT Small
SYMMETRY Symmetry
INVARIANT
  LiveRangeHasDelegation
