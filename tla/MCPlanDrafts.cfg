\* One delegation, two conversations and two calls to link at once; one
\* draft and the workspace it is copied to.
CONSTANTS
  k1 = k1
  c1 = c1
  c2 = c2
  w1 = w1
  w2 = w2
  x1 = x1
  x2 = x2
  q1 = q1
  q2 = q2
  d1 = d1
  NULL = NULL
  MaxRev = 2
  MaxBusy = 2
CONSTANTS
  Connection <- MCConnection
  Conversation <- MCConversation
  Workspace <- MCWorkspace
  Key <- MCKey
  Caller <- MCCaller
  Draft <- MCDraft
  Mentioned <- MCMentioned
  Content <- MCContent
  Graphs <- MCGraphs
  ScopeChoices <- MCScopeChoices
SPECIFICATION Spec
SYMMETRY Symmetry
INVARIANTS
  AnswersAgree
  DraftAnchored
  HistoryIsWhole
  LoopsAreRefused
PROPERTIES
  LinksEndWithDelegation
  ImplementsLinkTable
