\* Three colleagues, one outsider, three invitations.
CONSTANTS
  ann = ann
  bob = bob
  cid = cid
  eve = eve
  i1 = i1
  i2 = i2
  i3 = i3
  NULL = NULL
  MaxVersion = 8
CONSTANTS
  Person <- MCPerson
  Colleague <- MCColleague
  Invitation <- MCInvitation
SPECIFICATION Spec
SYMMETRY Symmetry
INVARIANTS
  AlwaysAnOwner
  PendingFromOwner
  AcceptedIsMember
  AnswersAreTrue
PROPERTY
  VersionCoversMembers
