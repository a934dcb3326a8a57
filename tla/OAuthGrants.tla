----------------------------- MODULE OAuthGrants -----------------------------
(***************************************************************************)
(* The authorization server in front of the MCP endpoint (oauth.rs): a     *)
(* client's authorization request, the person's decision on it, the code   *)
(* that decision yields, and the access and refresh tokens descended from  *)
(* the code.  The delegation they stand for is a row of McpConnections.    *)
(*                                                                         *)
(* Each of these is one locked read of a grant and the writes that follow  *)
(* in the same transaction, so it is one action.  Allowing a request is    *)
(* not: the request is read and the delegation row ensured first, and it   *)
(* is consumed in a second transaction (click).  Clients retry, so a used  *)
(* code or refresh token may be presented again at any time.               *)
(***************************************************************************)
EXTENDS McpConnections

CONSTANTS
  Request,    \* identities of authorization requests
  Code,       \* identities of codes; new_id prefixes them with their kind
  Access,     \* identities of access tokens
  Renewal,    \* identities of refresh tokens
  NULL        \* a row that does not exist yet

VARIABLES
  request,    \* mcp_grants of kind "request"
  click,      \* decisions to allow whose second transaction is outstanding
  grant,      \* mcp_grants of kind "code", "access" and "refresh"
  replayed    \* history: families whose used code or refresh token came back

vars == <<conn, request, click, grant, replayed>>

Grant == Code \cup Access \cup Renewal

ASSUME KindAssumption ==
  Code \cap Access = {} /\ Code \cap Renewal = {} /\ Access \cap Renewal = {}

RequestRow == [scopes : ScopeChoices, consumed : BOOLEAN, expired : BOOLEAN]

(* chain is the family, named by the code it starts with; request is the   *)
(* authorization request it goes back to, which the table does not record. *)
GrantRow ==
  [conn     : Connection,
   scopes   : (SUBSET Scope) \ {{}},
   chain    : Code,
   request  : Request,
   consumed : BOOLEAN,
   expired  : BOOLEAN]

Click == [request : Request, conn : Connection, scopes : ScopeChoices]

ASSUME NullAssumption == NULL \notin RequestRow /\ NULL \notin GrantRow

TypeOK ==
  /\ ConnTypeOK
  /\ request \in [Request -> RequestRow \cup {NULL}]
  /\ click \subseteq Click
  /\ grant \in [Grant -> GrantRow \cup {NULL}]
  /\ replayed \subseteq Code

Init ==
  /\ ConnInit
  /\ request = [q \in Request |-> NULL]
  /\ click = {}
  /\ grant = [g \in Grant |-> NULL]
  /\ replayed = {}

Issued == {g \in Grant : grant[g] # NULL}

(* Unconsumed; it may have run out. *)
Live(g) == g \in Issued /\ ~grant[g].consumed

Unused(g) == grant[g] = NULL
Family(c) == {g \in Issued : grant[g].chain = c}

-----------------------------------------------------------------------------
(* begin_authorization: a request for these scopes waits for a person. *)
BeginAuthorization(q, scopes) ==
  /\ request[q] = NULL
  /\ request' = [request EXCEPT ![q] =
        [scopes |-> scopes, consumed |-> FALSE, expired |-> FALSE]]
  /\ UNCHANGED <<conn, click, grant, replayed>>

(* Mutant: the request is there, whatever became of it. *)
KnownRequest(q) == request[q] # NULL

(* live_request *)
LiveRequest(q) ==
  /\ request[q] # NULL
  /\ ~request[q].consumed
  /\ ~request[q].expired

(* decide, to allow, before its second transaction: the request is live, the  *)
(* scopes are among those asked for, and the delegation row exists.        *)
Press(d) ==
  /\ LiveRequest(d.request)
  /\ d.scopes \subseteq request[d.request].scopes
  /\ \/ EnsurePending(d.conn)
     \/ conn[d.conn].status # "none" /\ UNCHANGED conn
  /\ click' = click \cup {d}
  /\ UNCHANGED <<request, grant, replayed>>

ConsumeRequest(q) == request' = [request EXCEPT ![q].consumed = TRUE]

NewCode(d, g) ==
  [conn |-> d.conn, scopes |-> d.scopes, chain |-> g,
   request |-> d.request, consumed |-> FALSE, expired |-> FALSE]

(* The second transaction: the request is read again, consumed, the        *)
(* delegation granted and the code issued, in a family of its own.         *)
Allow(d, g) ==
  /\ d \in click
  /\ LiveRequest(d.request)
  /\ Unused(g)
  /\ ConsumeRequest(d.request)
  /\ GrantFromConsent(d.conn, d.scopes)
  /\ grant' = [grant EXCEPT ![g] = NewCode(d, g)]
  /\ click' = click \ {d}
  /\ UNCHANGED replayed

(* It finds the request gone, or is never run. *)
Abandon(d) ==
  /\ d \in click
  /\ click' = click \ {d}
  /\ UNCHANGED <<conn, request, grant, replayed>>

Deny(q) ==
  /\ LiveRequest(q)
  /\ ConsumeRequest(q)
  /\ UNCHANGED <<conn, click, grant, replayed>>

-----------------------------------------------------------------------------
Token(from, scopes) ==
  [grant[from] EXCEPT !.scopes = scopes, !.consumed = FALSE, !.expired = FALSE]

(* Mutant: the presented secret keeps working beside the new pair. *)
IssueBeside(from, scopes, a, r) ==
  /\ Unused(a) /\ Unused(r)
  /\ grant' = [grant EXCEPT ![a] = Token(from, scopes),
                            ![r] = Token(from, scopes)]

(* consume and issue_pair: the presented secret is used up, and two new    *)
(* ones take its place in the family.                                      *)
Issue(from, scopes, a, r) ==
  /\ Unused(a) /\ Unused(r)
  /\ grant' = [grant EXCEPT ![from].consumed = TRUE,
                            ![a] = Token(from, scopes),
                            ![r] = Token(from, scopes)]

(* exchange_code.  The delegation is not looked at. *)
ExchangeCode(g, a, r) ==
  /\ Live(g)
  /\ ~grant[g].expired
  /\ Issue(g, grant[g].scopes, a, r)
  /\ UNCHANGED <<conn, request, click, replayed>>

(* Mutant: the person's present grant replaces what the token was for. *)
PresentScopes(g) == conn[grant[g].conn].scopes

(* Never wider than what the person currently grants. *)
Narrowed(g) == grant[g].scopes \cap conn[grant[g].conn].scopes

(* refresh: the delegation may have been revoked or narrowed meanwhile. *)
Refresh(g, a, r) ==
  /\ Live(g)
  /\ ~grant[g].expired
  /\ conn[grant[g].conn].status = "active"
  /\ Narrowed(g) # {}
  /\ Issue(g, Narrowed(g), a, r)
  /\ UNCHANGED <<conn, request, click, replayed>>

Consumed(gone) ==
  [g \in Grant |-> IF g \in Issued \cap gone
                   THEN [grant[g] EXCEPT !.consumed = TRUE]
                   ELSE grant[g]]

(* Mutant: a replay takes the refresh tokens only. *)
RevokedRefreshes(c) == Family(c) \cap Renewal

(* revoke_chain: everything live that descends from the code. *)
RevokedByReplay(c) == Family(c)

(* A code or a refresh token already used is presented again. *)
Replay(g) ==
  /\ g \in Issued
  /\ grant[g].consumed
  /\ grant' = Consumed(RevokedByReplay(grant[g].chain))
  /\ replayed' = replayed \cup {grant[g].chain}
  /\ UNCHANGED <<conn, request, click>>

(* revoke_token: a refresh token takes its family, an access token itself. *)
RevokeToken(g) ==
  /\ Live(g)
  /\ \/ g \in Renewal /\ grant' = Consumed(Family(grant[g].chain))
     \/ g \in Access /\ grant' = Consumed({g})
  /\ UNCHANGED <<conn, request, click, replayed>>

-----------------------------------------------------------------------------
(* The settings screen grants other scopes. *)
Approve(k) ==
  /\ \E scopes \in ScopeChoices : ApproveConnection(k, scopes)
  /\ UNCHANGED <<request, click, grant, replayed>>

(* Mutant: disconnecting takes the tokens and forgets an outstanding code. *)
TokensOf(k) == {g \in Issued \ Code : grant[g].conn = k}

(* revoke_connection *)
GrantsOf(k) == {g \in Issued : grant[g].conn = k}

(* mcp_auth::revoke: the tokens go in the same transaction. *)
Disconnect(k) ==
  /\ RevokeConnection(k)
  /\ grant' = Consumed(GrantsOf(k))
  /\ UNCHANGED <<request, click, replayed>>

(* A request after fifteen minutes, a code after five, a refresh token     *)
(* after thirty days.  An access token's end is read by verify alone,      *)
(* which writes nothing here.                                              *)
ExpireRequest(q) ==
  /\ LiveRequest(q)
  /\ request' = [request EXCEPT ![q].expired = TRUE]
  /\ UNCHANGED <<conn, click, grant, replayed>>

ExpireGrant(g) ==
  /\ Live(g) /\ ~grant[g].expired
  /\ grant' = [grant EXCEPT ![g].expired = TRUE]
  /\ UNCHANGED <<conn, request, click, replayed>>

Next ==
  \/ \E q \in Request, scopes \in ScopeChoices : BeginAuthorization(q, scopes)
  \/ \E d \in Click : Press(d) \/ Abandon(d) \/ \E g \in Code : Allow(d, g)
  \/ \E q \in Request : Deny(q) \/ ExpireRequest(q)
  \/ \E a \in Access, r \in Renewal :
        \/ \E g \in Code : ExchangeCode(g, a, r)
        \/ \E g \in Renewal : Refresh(g, a, r)
  \/ \E g \in Code \cup Renewal : Replay(g) \/ ExpireGrant(g)
  \/ \E g \in Access \cup Renewal : RevokeToken(g)
  \/ \E k \in Connection : Approve(k) \/ Disconnect(k)

Spec == Init /\ [][Next]_vars

-----------------------------------------------------------------------------
(* One decision yields one code, however often and from however many       *)
(* windows the person presses the button.                                  *)
OneCodePerRequest ==
  \A g, h \in Issued :
     grant[g].request = grant[h].request => grant[g].chain = grant[h].chain

(* Rotation: of one family at most one code or refresh token is unused, so *)
(* there is one holder who can go on.                                      *)
CanContinue(g) == Live(g) /\ g \in Code \cup Renewal
OneSuccessor ==
  \A g, h \in Issued :
     CanContinue(g) /\ CanContinue(h) /\ grant[g].chain = grant[h].chain => g = h

(* Disconnected means the tokens are dead now: nothing live, code or token, *)
(* stands for a delegation that is not active, so consenting again later   *)
(* revives none of them.                                                   *)
LiveIsDelegated == \A g \in Grant : Live(g) => conn[grant[g].conn].status = "active"

(* Nothing descended from a decision holds a scope the person did not      *)
(* choose then, however the grant was widened in settings since, nor one   *)
(* the client did not ask for.                                             *)
NeverWider ==
  \A g \in Issued :
     /\ grant[g].chain \in Issued
     /\ grant[g].scopes \subseteq grant[grant[g].chain].scopes
     /\ grant[g].scopes \subseteq request[grant[g].request].scopes

(* A family whose used code or refresh token came back is dead for good.   *)
ReplayedIsDead == \A c \in replayed : \A g \in Family(c) : ~Live(g)

(* What makes these inductive.  A family is named by its code; a request   *)
(* something descends from is spent; a button was pressed on a request     *)
(* that asked for at least as much; only families that exist came back.    *)
CodeNamesFamily == \A g \in Issued \cap Code : grant[g].chain = g
RequestIsSpent ==
  \A g \in Issued : request[grant[g].request] # NULL /\ request[grant[g].request].consumed
PressedWithinRequest ==
  \A d \in click : request[d.request] # NULL /\ d.scopes \subseteq request[d.request].scopes
ReplayedExists == replayed \subseteq Issued

IInv ==
  /\ TypeOK
  /\ CodeNamesFamily /\ RequestIsSpent /\ PressedWithinRequest /\ ReplayedExists
  /\ OneCodePerRequest
  /\ OneSuccessor
  /\ LiveIsDelegated
  /\ NeverWider
  /\ ReplayedIsDead
=============================================================================
