--------------------------- MODULE McpConnections ---------------------------
(***************************************************************************)
(* The delegations a person grants to AI clients: one row of               *)
(* mcp_connections per person, tenant and client (mcp_auth.rs).  A row is  *)
(* created pending on first contact, made active by the settings screen or *)
(* by the OAuth consent screen, and revoked by disconnecting; the row is   *)
(* reused when the same client connects again.                             *)
(*                                                                         *)
(* This module owns the variable conn and says what each handler does to   *)
(* it.  The components that react to a change of a delegation, the         *)
(* auto-apply ranges and the OAuth grants, conjoin their own part.         *)
(***************************************************************************)
CONSTANTS
  Connection,     \* the delegation rows
  ScopeChoices    \* the sets of scopes a person may be offered to grant

(* GRANTABLE_SCOPES, without the "pathbase." prefix. *)
Scope == {"read", "propose", "apply", "context"}

(* A grant is never empty and never outside the grantable set. *)
ASSUME ScopeAssumption == ScopeChoices \subseteq ((SUBSET Scope) \ {{}})

VARIABLE conn     \* conn[k]: the status and the scopes of delegation k

(* "none" stands for a row that does not exist yet. *)
ConnectionStatus == {"none", "pending", "active", "revoked"}

ConnectionRow == [status : ConnectionStatus, scopes : SUBSET Scope]

ConnTypeOK == conn \in [Connection -> ConnectionRow]

ConnInit == conn = [k \in Connection |-> [status |-> "none", scopes |-> {}]]

(* Connection::allows *)
Allows(k, scope) == conn[k].status = "active" /\ scope \in conn[k].scopes

SetConnection(k, status, scopes) ==
  conn' = [conn EXCEPT ![k] = [status |-> status, scopes |-> scopes]]

(* ensure_pending: an insert-ignore, so an existing row keeps its grant. *)
EnsurePending(k) ==
  /\ conn[k].status = "none"
  /\ SetConnection(k, "pending", {})

(* approve: the settings screen.  It refuses a revoked row, and a screen   *)
(* that shows an older version of the row, which changes nothing.          *)
ApproveConnection(k, scopes) ==
  /\ conn[k].status \in {"pending", "active"}
  /\ scopes \in ScopeChoices
  /\ SetConnection(k, "active", scopes)

(* grant_from_consent: the consent screen, which also revives a row that   *)
(* was disconnected.                                                       *)
GrantFromConsent(k, scopes) ==
  /\ conn[k].status # "none"
  /\ scopes \in ScopeChoices
  /\ SetConnection(k, "active", scopes)

(* revoke: the person disconnects the client. *)
RevokeConnection(k) ==
  /\ conn[k].status # "none"
  /\ SetConnection(k, "revoked", {})
=============================================================================
