\* Two requests at a time over the life of one session; one delegation asked
\* for twice, with codes, tokens and one rotation.
CONSTANTS
  p1 = p1
  p2 = p2
  t1 = t1
  NONE = NONE
  Lifetime = 2
  Window = 1
  MaxNow = 2
  MaxToken = 2
  k1 = k1
  q1 = q1
  q2 = q2
  c1 = c1
  c2 = c2
  a1 = a1
  a2 = a2
  r1 = r1
  r2 = r2
  NULL = NULL
CONSTANTS
  Place <- MCPlace
  Tenant <- MCTenant
  TokenLives <- MCTokenLives
  Connection <- MCConnection
  Request <- MCRequest
  Code <- MCCode
  Access <- MCAccessToken
  Renewal <- MCRenewal
  ScopeChoices <- MCScopeChoices
SPECIFICATION AccessSpec
SYMMETRY Symmetry
INVARIANTS
  ServedWithinLifetime
  OneCodePerRequest
  OneSuccessor
  LiveIsDelegated
  NeverWider
  ReplayedIsDead
PROPERTIES
  SignedOutStaysOut
  EndsForAReason
\* A session may be over, every request decided and every token used up, and
\* then nothing has to follow.
CHECK_DEADLOCK FALSE
