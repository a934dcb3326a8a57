--------------------------- MODULE ChangeApproval ---------------------------
(***************************************************************************)
(* How a proposed change becomes part of a plan (service.rs, the change    *)
(* set routes; auto_apply.rs).  An AI client, or a person, previews a      *)
(* change set against the current workspace version.  It is written into   *)
(* the plan by a person approving it, by the auto-apply range that person  *)
(* saved for the connection it arrived on, or, for rows from before        *)
(* approving applied, by the person who approved it.                       *)
(*                                                                         *)
(* A handler of the workspace runs in one write transaction under the      *)
(* workspace lock, so it is one action.  An MCP call is two: the bearer    *)
(* token and the scopes are checked in a transaction of their own, and the *)
(* handler runs later on the strength of that (call[k]).  The routes of    *)
(* ranges and delegations name no workspace and lock the rows they touch,  *)
(* one after the other.  Disconnecting is the only one of them that writes *)
(* a row before it has locked them all, so it is two actions.              *)
(***************************************************************************)
EXTENDS McpConnections

CONSTANTS
  Person,         \* the people who may be members of the workspace
  OwnerOf,        \* OwnerOf[k]: the person who granted delegation k
  Change,         \* identities of change sets
  Edit,           \* identities of direct edits of the plan (a bound)
  Content,        \* what a change set may do (see ContentAssumption)
  RangeChoices,   \* the ranges a person may save (see RangeAssumption)
  NULL,           \* no person, no connection, no row
  Memberships     \* bound: the membership tables considered

(* What covers() tells apart in a change set: the effects recorded for its *)
(* operations, and whether any operation sets a guarded value.             *)
Effect == {"created", "updated", "removed", "unknown"}

ContentType == [effects : (SUBSET Effect) \ {{}}, guarded : BOOLEAN]

(* What a range permits.  One that permits nothing cannot be saved. *)
Permits == [create : BOOLEAN, update : BOOLEAN, guarded : BOOLEAN]

Role == {"owner", "editor", "viewer", "none"}
Writers == {"owner", "editor"}

ASSUME ContentAssumption == Content \subseteq ContentType
ASSUME RangeAssumption == RangeChoices \subseteq {r \in Permits : r.create \/ r.update}
ASSUME OwnerAssumption == OwnerOf \in [Connection -> Person]
ASSUME NullAssumption ==
  NULL \notin Person /\ NULL \notin Connection /\ NULL \notin Content /\ NULL \notin Scope
ASSUME EditAssumption == Edit \cap Change = {}
ASSUME BoundAssumption == Memberships \subseteq [Person -> Role]

VARIABLES
  role,     \* memberships: the role of each person, "none" when not a member
  plan,     \* what the items, relations, metrics and views were made by
  changes,  \* the changesets collection
  range,    \* auto_apply_rules: the range the owner saved for connection k
  call,     \* call[k]: the scope an MCP call not yet handled was checked for
  leaving   \* leaving[k]: the transaction that disconnects k, if one is open

vars == <<conn, role, plan, changes, range, call, leaving>>

(* A plan is told by who made it: the change sets and direct edits that    *)
(* created or rewrote a row that is still there.  The digest of the rows,  *)
(* which carry versions that only rise and identities that never return,   *)
(* differs when these do, and comes back when what was added is deleted.   *)
(* The digest a preview is pinned to also covers the memberships.          *)
Version == [plan : SUBSET (Change \cup Edit), role : [Person -> Role]]
WorkspaceVersion == [plan |-> plan, role |-> role]

ChangeRow ==
  [status       : {"pending", "approved", "applied", "rejected"},
   content      : Content,
   via          : Connection \cup {NULL},    \* proposed_by_connection
   base         : Version,                   \* base_version
   expired      : BOOLEAN,                   \* expires_at has passed
   approvedBy   : Person \cup {NULL},
   approvedHash : Content \cup {NULL},
   appliedBy    : Person \cup {NULL},
   rule         : Connection \cup {NULL}]    \* auto_apply_rule

ASSUME RowAssumption == NULL \notin ChangeRow

(* overlapped is history: saved while a disconnect had already looked for  *)
(* ranges to revoke.                                                       *)
RangeRow ==
  [permits : RangeChoices, revoked : BOOLEAN, expired : BOOLEAN, overlapped : BOOLEAN]

(* The ranges were looked for: there was none to revoke and no row is      *)
(* locked, or one is revoked in the open transaction, which holds its row. *)
Leaving == {"no", "empty", "held"}

TypeOK ==
  /\ ConnTypeOK
  /\ role \in [Person -> Role]
  /\ plan \in SUBSET (Change \cup Edit)
  /\ changes \in [Change -> ChangeRow \cup {NULL}]
  /\ range \in [Connection -> RangeRow \cup {NULL}]
  /\ call \in [Connection -> Scope \cup {NULL}]
  /\ leaving \in [Connection -> Leaving]

-----------------------------------------------------------------------------
(* A row approved before approving applied: approved, never written. *)
LegacyRow(p, content) ==
  [status |-> "approved", content |-> content, via |-> NULL,
   base |-> WorkspaceVersion, expired |-> FALSE,
   approvedBy |-> p, approvedHash |-> content,
   appliedBy |-> NULL, rule |-> NULL]

Init ==
  /\ ConnInit
  /\ role \in Memberships
  /\ \E p \in Person : role[p] = "owner"
  /\ plan = {}
  /\ changes \in [Change -> {NULL} \cup
                    {LegacyRow(p, c) : p \in {q \in Person : role[q] \in Writers}, c \in Content}]
  /\ range = [k \in Connection |-> NULL]
  /\ call = [k \in Connection |-> NULL]
  /\ leaving = [k \in Connection |-> "no"]

(* authorize(tx, actor, w, write = true) *)
MayWrite(p) == role[p] \in Writers

(* Mutant: the workspace version is not compared again. *)
ValidPreviewByExpiry(c) == ~changes[c].expired

(* validate_preview: not expired, and neither plan nor members changed. *)
ValidPreview(c) ==
  /\ ~changes[c].expired
  /\ changes[c].base = WorkspaceVersion

(* Rule::active *)
Active(r) == r # NULL /\ ~r.revoked /\ ~r.expired

(* Mutant: trusts the scope the call was authenticated with. *)
InForceByRange(k) == Active(range[k])

(* Whoever reads or writes the row of a range waits for the disconnect     *)
(* that holds it.                                                          *)
Free(k) == leaving[k] # "held"

(* in_force: the range is active and the delegation still holds "apply". *)
InForce(k) == Active(range[k]) /\ Allows(k, "apply")

(* covers: every operation, judged by its recorded effect. *)
Covers(permits, content) ==
  /\ content.guarded => permits.guarded
  /\ \A e \in content.effects :
        \/ e = "created" /\ permits.create
        \/ e = "updated" /\ permits.update

(* Mutant: the connection a proposal arrived on does not matter. *)
CoveringAnyProposal(k, c) ==
  InForce(k) /\ Covers(range[k].permits, changes[c].content)

(* covering: the change set also arrived on this very connection. *)
Covering(k, c) ==
  /\ InForce(k)
  /\ changes[c].via = k
  /\ Covers(range[k].permits, changes[c].content)

(* commit: runs the operations as the person and records who wrote them.   *)
(* What they remove may be all that is left of others, an archived item    *)
(* stays a row, and what they do to a collection outside the digest        *)
(* (cycles, weekly reviews, memories) leaves the plan as it was.           *)
Commit(row, p) == [row EXCEPT !.status = "applied", !.appliedBy = p]

Removable(row) == IF row.content.effects \subseteq {"created", "updated"} THEN {} ELSE plan

Written(c, row) == {(plan \ gone) \cup left : gone \in SUBSET Removable(row), left \in {{}, {c}}}

Write(c, row) ==
  /\ changes' = [changes EXCEPT ![c] = row]
  /\ plan' \in Written(c, row)

-----------------------------------------------------------------------------
(* preview: the operations run inside a savepoint that is rolled back, so  *)
(* the plan is untouched and only the proposal is stored.                  *)
Preview(c, content, via) ==
  /\ changes[c] = NULL
  /\ changes' = [changes EXCEPT ![c] =
        [status |-> "pending", content |-> content, via |-> via,
         base |-> WorkspaceVersion, expired |-> FALSE,
         approvedBy |-> NULL, approvedHash |-> NULL,
         appliedBy |-> NULL, rule |-> NULL]]
  /\ UNCHANGED <<conn, role, plan, range, leaving>>

(* Mutant: withdraws whatever it is given. *)
RejectAnything(c) ==
  /\ changes[c] # NULL
  /\ changes' = [changes EXCEPT ![c].status = "rejected", ![c].approvedHash = NULL]
  /\ UNCHANGED <<conn, role, plan, range, leaving>>

(* reject: withdraws a proposal, expired or not, approved or not. *)
Reject(c) ==
  /\ changes[c] # NULL
  /\ changes[c].status \in {"pending", "approved"}
  /\ changes' = [changes EXCEPT ![c].status = "rejected", ![c].approvedHash = NULL]
  /\ UNCHANGED <<conn, role, plan, range, leaving>>

(* approve: the person looking at the diff decides and writes at once. *)
Approve(p, c) ==
  /\ MayWrite(p)
  /\ changes[c] # NULL
  /\ ValidPreview(c)
  /\ changes[c].status = "pending"
  /\ Write(c, Commit([changes[c] EXCEPT !.approvedBy = p,
                                        !.approvedHash = changes[c].content], p))
  /\ UNCHANGED <<conn, role, range, call, leaving>>

(* apply, when the row is one this person approved before approving        *)
(* applied.  What is already applied is answered and nothing is written.   *)
ApplyApproved(p, c) ==
  /\ changes[c] # NULL
  /\ ValidPreview(c)
  /\ changes[c].status = "approved"
  /\ changes[c].approvedHash = changes[c].content
  /\ changes[c].approvedBy = p
  /\ Write(c, Commit(changes[c], p))
  /\ UNCHANGED <<conn, role, range, leaving>>

(* apply, when the pending row is inside the range of this connection. *)
ApplyCovered(k, c) ==
  /\ changes[c] # NULL
  /\ ValidPreview(c)
  /\ changes[c].status = "pending"
  /\ Free(k)
  /\ Covering(k, c)
  /\ Write(c, Commit([changes[c] EXCEPT !.rule = k], OwnerOf[k]))
  /\ UNCHANGED <<conn, role, range, leaving>>

-----------------------------------------------------------------------------
(* The browser: the person acts with their own session. *)
PersonPreviews(p, c) ==
  MayWrite(p) /\ (\E content \in Content : Preview(c, content, NULL)) /\ UNCHANGED call
PersonRejects(p, c) == MayWrite(p) /\ Reject(c) /\ UNCHANGED call
PersonApplies(p, c) == MayWrite(p) /\ ApplyApproved(p, c) /\ UNCHANGED call

(* authenticate_remote and Mcp::authorize: the token is verified against   *)
(* the live delegation, and the tool's scope has to be one both hold.      *)
Authenticate(k) ==
  /\ call[k] = NULL
  /\ \E scope \in Scope : Allows(k, scope) /\ call' = [call EXCEPT ![k] = scope]
  /\ UNCHANGED <<conn, role, plan, changes, range, leaving>>

(* The handler runs with the scope found then.  The membership is read     *)
(* again in the write transaction; the scope is not.                       *)
Handle(k, scope) ==
  /\ call[k] = scope
  /\ MayWrite(OwnerOf[k])
  /\ call' = [call EXCEPT ![k] = NULL]

AgentPreviews(k, c) ==
  Handle(k, "propose") /\ \E content \in Content : Preview(c, content, k)
AgentRejects(k, c) == Handle(k, "propose") /\ Reject(c)
AgentApplies(k, c) ==
  Handle(k, "apply") /\ (ApplyApproved(OwnerOf[k], c) \/ ApplyCovered(k, c))

(* A call that is answered without writing: a read, a refusal, or an apply *)
(* of what is already applied.                                             *)
AgentAnswered(k) ==
  /\ call[k] # NULL
  /\ call' = [call EXCEPT ![k] = NULL]
  /\ UNCHANGED <<conn, role, plan, changes, range, leaving>>

-----------------------------------------------------------------------------
(* auto_apply::save: writes or re-arms the range of one active connection, *)
(* also after a disconnect under way has found no range to revoke.         *)
SaveRange(k) ==
  /\ Free(k)
  /\ Allows(k, "apply")
  /\ MayWrite(OwnerOf[k])
  /\ \E permits \in RangeChoices :
        range' = [range EXCEPT ![k] =
                    [permits |-> permits, revoked |-> FALSE, expired |-> FALSE,
                     overlapped |-> leaving[k] = "empty"]]
  /\ UNCHANGED <<conn, role, plan, changes, call, leaving>>

(* auto_apply::revoke and revoke_for_connection: the row stays. *)
Revoked(r) == IF r = NULL THEN NULL ELSE [r EXCEPT !.revoked = TRUE, !.overlapped = FALSE]

RevokeRange(k) ==
  /\ Free(k)
  /\ range[k] # NULL
  /\ range' = [range EXCEPT ![k] = Revoked(@)]
  /\ UNCHANGED <<conn, role, plan, changes, call, leaving>>

Connect(k) == EnsurePending(k) /\ UNCHANGED <<role, plan, changes, range, call, leaving>>

(* Granting, on either screen, leaves the ranges alone. *)
Grant(k) ==
  /\ \E scopes \in ScopeChoices : ApproveConnection(k, scopes) \/ GrantFromConsent(k, scopes)
  /\ UNCHANGED <<role, plan, changes, range, call, leaving>>

(* mcp_auth::revoke, as far as its first statement: the UPDATE of the      *)
(* ranges that are not revoked yet, which locks the rows it finds and no   *)
(* others.  One disconnect of a delegation is open at a time.              *)
BeginDisconnect(k) ==
  /\ leaving[k] = "no"
  /\ conn[k].status # "none"
  /\ leaving' = [leaving EXCEPT ![k] =
        IF range[k] # NULL /\ ~range[k].revoked THEN "held" ELSE "empty"]
  /\ UNCHANGED <<conn, role, plan, changes, range, call>>

(* Mutant: the range outlives the delegation. *)
FinishKeepingRange(k) ==
  /\ leaving[k] # "no"
  /\ RevokeConnection(k)
  /\ leaving' = [leaving EXCEPT ![k] = "no"]
  /\ UNCHANGED <<role, plan, changes, range, call>>

(* The rest of it: the delegation is locked and revoked, and all is        *)
(* committed.                                                              *)
FinishDisconnect(k) ==
  /\ leaving[k] # "no"
  /\ RevokeConnection(k)
  /\ range' = IF leaving[k] = "held" THEN [range EXCEPT ![k] = Revoked(@)] ELSE range
  /\ leaving' = [leaving EXCEPT ![k] = "no"]
  /\ UNCHANGED <<role, plan, changes, call>>

(* The environment stops, or the database ends a deadlock with a save that *)
(* holds the delegation and waits for the range.                           *)
AbortDisconnect(k) ==
  /\ leaving[k] # "no"
  /\ leaving' = [leaving EXCEPT ![k] = "no"]
  /\ UNCHANGED <<conn, role, plan, changes, range, call>>

-----------------------------------------------------------------------------
(* A member writes the plan directly in the browser: adds or changes       *)
(* something, or deletes a relation, and with it all that is left of who   *)
(* made it.  An edit never seen in a plan is as good as a new one.         *)
Unseen(e) == e \notin plan /\ \A c \in Change : changes[c] # NULL => e \notin changes[c].base.plan

EditPlan(p) ==
  /\ MayWrite(p)
  /\ \/ \E e \in Edit : Unseen(e) /\ plan' = plan \cup {e}
     \/ \E gone \in SUBSET plan : plan' = plan \ gone
  /\ UNCHANGED <<conn, role, changes, range, call, leaving>>

(* An owner changes or removes a member, or a person joins by accepting an *)
(* invitation; the last owner stays (collaboration.rs).                    *)
ChangeMember(p, next) ==
  /\ role[p] # next
  /\ role[p] = "none" => next \in {"editor", "viewer"}
  /\ role[p] = "owner" => \E q \in Person \ {p} : role[q] = "owner"
  /\ role' = [role EXCEPT ![p] = next]
  /\ role' \in Memberships
  /\ UNCHANGED <<conn, plan, changes, range, call, leaving>>

(* Thirty minutes after the preview, and up to ninety days after saving.   *)
(* Recorded only while it can matter: before a decision, before revoking.  *)
ExpireChange(c) ==
  /\ changes[c] # NULL
  /\ changes[c].status \in {"pending", "approved"}
  /\ ~changes[c].expired
  /\ changes' = [changes EXCEPT ![c].expired = TRUE]
  /\ UNCHANGED <<conn, role, plan, range, call, leaving>>

ExpireRange(k) ==
  /\ Active(range[k])
  /\ range' = [range EXCEPT ![k].expired = TRUE]
  /\ UNCHANGED <<conn, role, plan, changes, call, leaving>>

Next ==
  \/ \E p \in Person, c \in Change :
        PersonPreviews(p, c) \/ PersonRejects(p, c) \/ Approve(p, c) \/ PersonApplies(p, c)
  \/ \E k \in Connection, c \in Change :
        AgentPreviews(k, c) \/ AgentRejects(k, c) \/ AgentApplies(k, c)
  \/ \E k \in Connection :
        \/ Authenticate(k) \/ AgentAnswered(k)
        \/ SaveRange(k) \/ RevokeRange(k) \/ ExpireRange(k)
        \/ Connect(k) \/ Grant(k)
        \/ BeginDisconnect(k) \/ FinishDisconnect(k) \/ AbortDisconnect(k)
  \/ \E p \in Person : EditPlan(p) \/ \E next \in Role : ChangeMember(p, next)
  \/ \E c \in Change : ExpireChange(c)

Spec == Init /\ [][Next]_vars

-----------------------------------------------------------------------------
(* mcp_auth.rs 366: "In this transaction, so there is no moment where the  *)
(* delegation is gone and a standing permission for it is not."  A save    *)
(* that commits between the two statements makes such a moment, and        *)
(* consenting again brings the permission back.                            *)
Standing(k) == range[k] # NULL /\ ~range[k].revoked

LiveRangeHasDelegation ==
  \A k \in Connection : Standing(k) => conn[k].status = "active"

(* That is the only way: a range that stands though its delegation does    *)
(* not was saved while the disconnect was under way, after it had looked   *)
(* for ranges to revoke.                                                   *)
OnlyOverlappedOutlives ==
  \A k \in Connection : Standing(k) => conn[k].status = "active" \/ range[k].overlapped

(* What makes it inductive: a disconnect that found no range finds itself  *)
(* overlapped if there is one now.                                         *)
FoundNone ==
  \A k \in Connection : leaving[k] = "empty" /\ Standing(k) => range[k].overlapped

(* Whatever is in the plan was decided, and the row says how: the person   *)
(* who wrote it approved exactly this content, or the owner of the         *)
(* connection it arrived on had saved a range, and then it removes nothing *)
(* and nobody is named as having approved it.                              *)
DecidedByPerson(row) ==
  /\ row.appliedBy \in Person
  /\ row.approvedBy = row.appliedBy
  /\ row.approvedHash = row.content
  /\ row.rule = NULL

DecidedInAdvance(row) ==
  /\ row.rule \in Connection
  /\ row.via = row.rule
  /\ row.appliedBy = OwnerOf[row.rule]
  /\ row.approvedBy = NULL
  /\ row.content.effects \subseteq {"created", "updated"}

AppliedWasDecided ==
  \A c \in Change :
     changes[c] # NULL /\ changes[c].status = "applied" =>
        DecidedByPerson(changes[c]) \/ DecidedInAdvance(changes[c])

(* Two people, or a person and an AI client, never both write against the  *)
(* plan they previewed: of two change sets that both left something in the *)
(* plan, one was previewed on a plan in which the other already had.  Not  *)
(* that at most one of those previewed on one plan is applied: when what   *)
(* the first added is deleted again, the digest is the old one, and the    *)
(* second is applied to what it was previewed on.                          *)
InPlan == plan \cap Change

OneSawTheOther ==
  \A c, d \in InPlan :
     c # d => c \in changes[d].base.plan \/ d \in changes[c].base.plan

(* What makes the trail inductive.  A row nobody decided yet names nobody,  *)
(* a row approved before approving applied names no range, and only what   *)
(* was applied has left something in the plan.                             *)
UndecidedNamesNobody ==
  \A c \in Change : changes[c] # NULL =>
     /\ changes[c].status = "pending" => changes[c].approvedBy = NULL /\ changes[c].rule = NULL
     /\ changes[c].status = "approved" => changes[c].rule = NULL

InPlanWasApplied == \A c \in InPlan : changes[c] # NULL /\ changes[c].status = "applied"

Trail == AppliedWasDecided /\ OneSawTheOther /\ UndecidedNamesNobody /\ InPlanWasApplied

IInv == TypeOK /\ OnlyOverlappedOutlives /\ FoundNone /\ Trail

(* A decision is final: an applied or withdrawn change set never changes   *)
(* again, whoever approves, applies or withdraws it afterwards.            *)
Settled(c) == changes[c] # NULL /\ changes[c].status \in {"applied", "rejected"}
DecisionsAreFinal ==
  [][\A c \in Change : Settled(c) => changes'[c] = changes[c]]_vars

(* Nothing is written unasked on authority that was taken back while the   *)
(* call was in flight: when a range writes a change set, the connection    *)
(* still holds "apply", the range is neither revoked nor past its end nor  *)
(* narrowed to leave out guarded values, and its owner may still write.    *)
AppliesUnasked(c) ==
  changes[c] # NULL /\ changes[c].status = "pending" /\ changes'[c].rule # NULL

UnaskedOnlyWhileAllowed ==
  [][\A c \in Change : AppliesUnasked(c) =>
        LET k == changes'[c].rule IN
        /\ Allows(k, "apply")
        /\ Active(range[k])
        /\ MayWrite(OwnerOf[k])
        /\ changes[c].content.guarded => range[k].permits.guarded]_vars
=============================================================================
